------------------------- MODULE MCIncidentLifecycle -------------------------
(***************************************************************************)
(* One network element with two alternative changes (the same action with  *)
(* two contents) and a second, independent action; two report versions;    *)
(* two approval requests, of which the first may be granted, refused or    *)
(* withdrawn after the grant; clock readings 0..2 around the expiry at 2.  *)
(***************************************************************************)
EXTENDS IncidentLifecycle, TLC

A == [id |-> "a", hash |-> "h1"]
AChanged == [id |-> "a", hash |-> "h2"]
B == [id |-> "b", hash |-> "h1"]

MCPlans == {{}, {A}, {AChanged}, {A, B}}

Report(version, eligible, recs) ==
    [version |-> version, eligible |-> eligible, recs |-> recs]
MCReports ==
    { Report(1, TRUE, {A}), Report(1, FALSE, {A}),
      Report(2, TRUE, {AChanged}), Report(2, TRUE, {A, B}) }

Decision(request, seq, status, report, action, decided) ==
    [request |-> request, seq |-> seq, status |-> status, report |-> report,
     action |-> action, decided_at |-> decided, expires_at |-> 2]
MCDecisions ==
    { Decision("r1", 0, "PENDING", 1, A, 1), Decision("r1", 1, "APPROVED", 1, A, 1),
      Decision("r1", 2, "CANCELLED", 1, A, 1),
      Decision("r2", 0, "PENDING", 2, A, 1), Decision("r2", 1, "APPROVED", 2, A, 1) }

Run(action, hash, attempt, status) ==
    [action |-> action, hash |-> hash, attempt |-> attempt, status |-> status]
MCRuns ==
    { Run("a", "h1", 1, "SUCCEEDED"), Run("a", "h2", 1, "SUCCEEDED"),
      Run("a", "h1", 2, "FAILED") }

MCVerifications ==
    { [status |-> "PASSED", runs |-> {<<"a", 1>>}],
      [status |-> "FAILED", runs |-> {<<"a", 1>>}] }
===============================================================================
