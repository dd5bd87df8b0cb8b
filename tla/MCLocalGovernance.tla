-------------------------- MODULE MCLocalGovernance --------------------------
(***************************************************************************)
(* Two concurrent calls; two prepare requests that compete for the         *)
(* incident, a third that reuses a key with other parameters; an approving *)
(* and a rejecting decision and one on an outdated preview; two executions *)
(* that expect different outcomes.  The clock passes the expiry.           *)
(***************************************************************************)
EXTENDS LocalGovernance, TLC

Prepare(key, variant) == [op |-> "prepare", key |-> key, variant |-> variant]
Decide(key, approve, revision) ==
    [op |-> "decide", key |-> key, approve |-> approve, hash |-> "h", revision |-> revision]
Execute(key, passed) == [op |-> "execute", key |-> key, passed |-> passed]

MCPrepare == {Prepare("p1", "a"), Prepare("p1", "b"), Prepare("p2", "a")}
MCDecide == {Decide("d1", TRUE, 4), Decide("d2", FALSE, 4), Decide("d2", TRUE, 3)}
MCExecute == {Execute("e1", TRUE), Execute("e2", FALSE)}

\* One request of each kind per client, for liveness.
MCPrepareFew == {Prepare("p1", "a"), Prepare("p2", "a")}
MCDecideFew == {Decide("d1", TRUE, 4)}
MCExecuteFew == {Execute("e1", TRUE)}

CallerSymmetry == Permutations(Callers)
===============================================================================
