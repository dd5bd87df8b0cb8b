---------------------------- MODULE TopologyGraph ----------------------------
(* operator/src/graph: the handlers that keep the topology in Spanner (nodes,     *)
(* descriptions, management and network connections) in step with the Kubernetes  *)
(* resources labelled for the graph.  The handlers of a resource run one after    *)
(* the other and are retried until they report success; every statement is a      *)
(* transaction of its own and may fail, and the operator may crash between two.   *)
(* No handler suspends, so one run of a handler is a step of the others; the      *)
(* resources themselves change at any time.  Two handlers outside of graph/ write *)
(* the same rows and ignore the result: the one of a changed status, and the      *)
(* monitor of the appliances, which writes the row of the service that owns them. *)
EXTENDS Naturals, FiniteSets

CONSTANTS
    Resources, None,
    Owner,        \* the owner a resource references, None for a service
    Network,      \* the (sub)network a resource references, None if it does not
    Destinations, \* the subnetworks with the destination range of a route, {} for other kinds
    MaxFailures,  \* bound: runs of handlers in which statements fail
    MaxEdits      \* bound: changes of resources

\* What the constants must satisfy.
GraphAssumption == /\ None \notin Resources
                   /\ Owner \in [Resources -> Resources \cup {None}]
                   /\ Network \in [Resources -> Resources \cup {None}]
                   /\ Destinations \in [Resources -> SUBSET Resources]
                   /\ MaxFailures \in Nat /\ MaxEdits \in Nat

VARIABLES
    phase,      \* of the resource: "absent", "live", "terminating" (its finalizer holds it) or "gone"
    edition,    \* of the resource, counted
    due,        \* the handler kopf has to run for it: "none", "create", "update" or "delete"
    nodes,      \* NetworkNode: the edition of each row, 0 if there is none
    kg,         \* KgResourceDescriptionNode, likewise
    manages,    \* ResourceConnection, whose to_id is a foreign key
    connected,  \* NetworkConnection, which has no foreign key
    failures, edits

tables == <<nodes, kg, manages, connected>>
vars == <<phase, edition, due, tables, failures, edits>>

Init == /\ phase = [r \in Resources |-> "absent"]
        /\ edition = [r \in Resources |-> 0]
        /\ due = [r \in Resources |-> "none"]
        /\ nodes = [r \in Resources |-> 0] /\ kg = [r \in Resources |-> 0]
        /\ manages = {} /\ connected = {}
        /\ failures = 0 /\ edits = 0

\* Kubernetes still answers for a resource whose finalizer is not removed.
Exists(r) == phase[r] \in {"live", "terminating"}

Statements == {"node", "kg", "manages", "network", "destination", "report"}

\* The statements a run of a handler does not get done; its report may be lost too.
Attempt(lost) ==
    /\ lost # {} => failures < MaxFailures
    /\ failures' = failures + (IF lost = {} THEN 0 ELSE 1)

Report(r, lost, success) == due' = [due EXCEPT ![r] = IF success /\ "report" \notin lost THEN "none" ELSE @]
-------------------------------------------------------------------------------
\* Kubernetes.  An owner is there before what it owns.
CreateResource(r) ==
    /\ phase[r] = "absent"
    /\ Owner[r] # None => phase[Owner[r]] # "absent"
    /\ phase' = [phase EXCEPT ![r] = "live"]
    /\ edition' = [edition EXCEPT ![r] = 1]
    /\ due' = [due EXCEPT ![r] = "create"]
    /\ UNCHANGED <<tables, failures, edits>>

EditResource(r) ==
    /\ phase[r] = "live" /\ edits < MaxEdits
    /\ edits' = edits + 1
    /\ edition' = [edition EXCEPT ![r] = @ + 1]
    /\ due' = [due EXCEPT ![r] = IF @ = "create" THEN @ ELSE "update"]
    /\ UNCHANGED <<phase, tables, failures>>

DeleteResource(r) ==
    /\ phase[r] = "live" /\ edits < MaxEdits
    /\ edits' = edits + 1
    /\ phase' = [phase EXCEPT ![r] = "terminating"]
    /\ due' = [due EXCEPT ![r] = "delete"]
    /\ UNCHANGED <<edition, tables, failures>>

RemoveFinalizer(r) ==
    /\ phase[r] = "terminating" /\ due[r] = "none"
    /\ phase' = [phase EXCEPT ![r] = "gone"]
    /\ UNCHANGED <<edition, due, tables, failures, edits>>
-------------------------------------------------------------------------------
(* create_network_node and update_network_node read the resource afresh           *)
(* (body_string_dump); the description is written even when the node was not.     *)

\* body_string_dump: the resource as the API server holds it when the handler runs.
Body(r) == edition[r]

UpsertNode(r, lost) == IF "node" \in lost THEN nodes ELSE [nodes EXCEPT ![r] = Body(r)]
UpdateNode(r, lost) == IF "node" \in lost \/ nodes[r] = 0 THEN nodes ELSE [nodes EXCEPT ![r] = Body(r)]

\* Whether the description is written, and the table after it.
KgWritten(r, lost) == "kg" \notin lost

create_or_update_kg_resource_description_node(r, lost) ==
    IF KgWritten(r, lost) THEN [kg EXCEPT ![r] = Body(r)] ELSE kg

\* The row needs the node it leads to.
create_resource_connection(r, lost) ==
    IF Owner[r] # None /\ "manages" \notin lost /\ UpsertNode(r, lost)[r] # 0
    THEN manages \cup {<<Owner[r], r>>} ELSE manages

\* What find_network_reference and find_destination_subnets find by now.
FoundNetwork(r) == { n \in {Network[r]} \ {None} : Exists(n) }
FoundDestinations(r) == { d \in Destinations[r] : Exists(d) }

create_network_connection(r, lost) ==
    connected \cup { <<r, n>> : n \in IF "network" \in lost THEN {} ELSE FoundNetwork(r) }
              \cup { <<r, d>> : d \in IF "destination" \in lost THEN {} ELSE FoundDestinations(r) }

(* The result of create_or_update_network_connections.  Connections that exist     *)
(* are not written; of a route's connections to destinations one result more is    *)
(* or-ed, not and-ed, to what came before.                                         *)
ConnectionsReported(r, lost) ==
    LET missing(set) == { n \in set : <<r, n>> \notin connected }
        network == "network" \notin lost \/ missing(FoundNetwork(r)) = {}
    IN network \/ (missing(FoundDestinations(r)) # {} /\ "destination" \notin lost)

create_node(r) ==
    /\ due[r] = "create"
    /\ \E lost \in SUBSET Statements :
        /\ Attempt(lost)
        /\ nodes' = UpsertNode(r, lost)
        /\ kg' = create_or_update_kg_resource_description_node(r, lost)
        /\ manages' = create_resource_connection(r, lost)
        /\ connected' = create_network_connection(r, lost)
        /\ Report(r, lost, /\ "node" \notin lost
                           /\ KgWritten(r, lost)
                           /\ Owner[r] = None \/ ("manages" \notin lost /\ nodes'[r] # 0)
                           /\ ConnectionsReported(r, lost))
    /\ UNCHANGED <<phase, edition, edits>>

update_node(r) ==
    /\ due[r] = "update"
    /\ \E lost \in SUBSET (Statements \ {"manages"}) :
        /\ Attempt(lost)
        /\ nodes' = UpdateNode(r, lost)
        /\ kg' = create_or_update_kg_resource_description_node(r, lost)
        /\ connected' = create_network_connection(r, lost)
        /\ Report(r, lost, "node" \notin lost /\ KgWritten(r, lost) /\ ConnectionsReported(r, lost))
    /\ UNCHANGED <<phase, edition, manages, edits>>

Touching(r, edges) == { e \in edges : e[1] = r \/ e[2] = r }

delete_node_resource_connections(r, lost) ==
    IF "manages" \in lost THEN manages ELSE manages \ Touching(r, manages)

delete_node_network_connections(r, lost) ==
    IF "network" \in lost THEN connected ELSE connected \ Touching(r, connected)

\* The connections go first; the node and its description only when both deletions worked.
Unlinked(lost) == {"manages", "network"} \cap lost = {}

delete_network_node(r, lost) ==
    IF Unlinked(lost) /\ "node" \notin lost THEN [nodes EXCEPT ![r] = 0] ELSE nodes

delete_kg_resource_description_node(r, lost) ==
    IF Unlinked(lost) /\ "kg" \notin lost THEN [kg EXCEPT ![r] = 0] ELSE kg

\* Mutant of Deleted: the description is not part of the result.
DeletedNode(lost) == Unlinked(lost) /\ "node" \notin lost

Deleted(lost) == Unlinked(lost) /\ {"node", "kg"} \cap lost = {}

delete_node(r) ==
    /\ due[r] = "delete"
    /\ \E lost \in SUBSET (Statements \ {"destination"}) :
        /\ Attempt(lost)
        /\ manages' = delete_node_resource_connections(r, lost)
        /\ connected' = delete_node_network_connections(r, lost)
        /\ nodes' = delete_network_node(r, lost)
        /\ kg' = delete_kg_resource_description_node(r, lost)
        /\ Report(r, lost, Deleted(lost))
    /\ UNCHANGED <<phase, edition, edits>>

Handler(r) == create_node(r) \/ update_node(r) \/ delete_node(r)
-------------------------------------------------------------------------------
(* The writers outside of graph/ call update_network_node alone: they change no   *)
(* connection, and what they do not get written nobody retries for them.          *)
update_network_node(r, lost) ==
    /\ nodes' = UpdateNode(r, lost)
    /\ kg' = create_or_update_kg_resource_description_node(r, lost)
    /\ UNCHANGED <<manages, connected>>

\* The handlers of a changed status (pointtopointservice_update and its likes), which
\* kopf runs beside update_node.
status_update(r) ==
    /\ phase[r] = "live" /\ due[r] \in {"none", "update"}
    /\ \E lost \in SUBSET {"node", "kg"} : Attempt(lost) /\ update_network_node(r, lost)
    /\ UNCHANGED <<phase, edition, due, edits>>

(* servicestatus, on any event of an appliance, its deletion and the ones before    *)
(* the service is deleted included: the service, if the API server still has it, is *)
(* patched, which may change it, and its row is written with what it is then; here  *)
(* whatever a service owns counts as an appliance.                                  *)
PatchService(s) ==
    \/ UNCHANGED <<edition, due, edits>>
    \/ /\ edits < MaxEdits
       /\ edits' = edits + 1
       /\ edition' = [edition EXCEPT ![s] = @ + 1]
       /\ due' = [due EXCEPT ![s] = IF phase[s] = "live" /\ @ # "create" THEN "update" ELSE @]

updateStatus(s) ==
    /\ \E c \in Resources : Owner[c] = s /\ phase[c] # "absent"
    /\ Exists(s)
    /\ PatchService(s)
    /\ \E lost \in SUBSET {"node", "kg"} :
        /\ Attempt(lost)
        /\ nodes' = IF "node" \in lost \/ nodes[s] = 0 THEN nodes ELSE [nodes EXCEPT ![s] = edition'[s]]
        /\ kg' = IF KgWritten(s, lost) THEN [kg EXCEPT ![s] = edition'[s]] ELSE kg
    /\ UNCHANGED <<phase, manages, connected>>

Next == \E r \in Resources :
    \/ CreateResource(r) \/ EditResource(r) \/ DeleteResource(r) \/ RemoveFinalizer(r)
    \/ Handler(r) \/ status_update(r) \/ updateStatus(r)

Spec == Init /\ [][Next]_vars

-------------------------------------------------------------------------------
(* A resource with no handler due is in the topology as it is now: its node and    *)
(* its description have its edition, and its owner manages it unless the owner is  *)
(* being deleted, whichever statements failed or were cut off on the way           *)
(* (graph/lifecycle.py, create_node and update_node).                              *)
SettledIsMapped ==
    \A r \in Resources : phase[r] = "live" /\ due[r] = "none" =>
        /\ nodes[r] = edition[r] /\ kg[r] = edition[r]
        /\ (Owner[r] # None /\ phase[Owner[r]] = "live") => <<Owner[r], r>> \in manages

(* A resource that is gone has left no node and no owner that manages it, and no   *)
(* description unless it owned appliances: an event of an appliance that comes     *)
(* after delete_node and before the finalizer goes inserts the description of the  *)
(* service again, which has no foreign key to the node, and nobody deletes it      *)
(* (graph/lifecycle.py, delete_node; vpn/utils/status.py, updateStatus;            *)
(* lifecycle_tasks.py, create_or_update_kg_resource_description_node).             *)
GoneIsForgotten ==
    \A r \in Resources : phase[r] = "gone" =>
        /\ nodes[r] = 0
        /\ \A o \in Resources : <<o, r>> \notin manages
        /\ (\A c \in Resources : Owner[c] # r) => kg[r] = 0

===============================================================================
