---------------------------- MODULE MCEventIngest ----------------------------
(***************************************************************************)
(* Two source events of one correlation key, each with the incident it     *)
(* would create.  An incident may be triaged and cancelled, which settles  *)
(* it, so that the second event finds no incident, an unsettled one or a   *)
(* settled one, at every stage of the deliveries of the first.             *)
(***************************************************************************)
EXTENDS EventIngest

CONSTANTS s1, s2, i1, i2, k

MCCandidates ==
    [s \in {s1, s2} |-> [id |-> IF s = s1 THEN i1 ELSE i2, correlation_key |-> k,
                         source_event_ids |-> {s}]]
MCEventKey == [s \in {s1, s2} |-> 0]
MCBodies == { DetectedBody(sources) : sources \in SUBSET SourceEvents }

\* Bounds: agents triage or cancel, with a fresh key per revision.
MCIngestNext ==
    \/ \E s \in SourceEvents :
         \/ Receive(s)
         \/ \E delivered \in BOOLEAN :
              \/ \E m \in {"shadow", "canonical"} : Accept(s, m, delivered)
              \/ AcceptLegacy(s, delivered)
         \/ \E m \in FaultPipelineMode : Refuse(s, m)
    \/ \E m \in FaultPipelineMode : SwitchMode(m)
    \/ \E i \in { j \in IncidentIds : Exists(j) }, at \in Times, body \in Bodies :
         \E target \in {"TRIAGED", "CANCELLED"} :
            AgentTransition(i, target, incidents[i].revision, at, body)

MCIngestSpec == IngestInit /\ [][MCIngestNext]_ingestVars /\ Fairness
===============================================================================
