------------------------ MODULE ConfirmationContract ------------------------
(* What the assurance agent promises about one previewed set of candidates:   *)
(* the decision on a preview is taken at most once; an incident is committed  *)
(* at most once for it, and only by the step that takes an open decision to   *)
(* "written"; only a written incident is reported as confirmed, and a closed, *)
(* rejected or confirmed preview never moves again.                           *)
EXTENDS Naturals

CONSTANT Previews

VARIABLES
    outcome,  \* what has become of each preview
    commits   \* incident transactions committed for it

cvars == <<outcome, commits>>

(* "closed": the preview expired or was cancelled before it was reported.     *)
Moves == [none      |-> {"open"},
          open      |-> {"written", "rejected", "closed"},
          written   |-> {"confirmed", "closed"},
          confirmed |-> {},
          rejected  |-> {},
          closed    |-> {}]

Init == /\ outcome = [p \in Previews |-> "none"]
        /\ commits = [p \in Previews |-> 0]

(* One sweep may close several previews, so a step moves a set of them.       *)
Next == \E S \in SUBSET Previews :
           /\ \A p \in S : outcome'[p] \in Moves[outcome[p]]
           /\ \A p \in Previews \ S : outcome'[p] = outcome[p]
           /\ \A p \in Previews :
                \/ commits'[p] = commits[p]
                \/ p \in S /\ outcome'[p] = "written" /\ commits'[p] = commits[p] + 1

Spec == Init /\ [][Next]_cvars
=============================================================================
