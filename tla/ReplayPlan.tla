----------------------------- MODULE ReplayPlan -----------------------------
(* How telco-lab turns a verified bundle into a delivery plan, and the two     *)
(* helpers that walk it: the paced runner, which obeys the schedule, the rate  *)
(* limit, the retry backoffs and one total deadline on a monotonic clock, and  *)
(* the immediate helper, which sends any selection, duplicates and disorder    *)
(* included, and keeps the highest contiguous checkpoint.                      *)
(*                                                                             *)
(* Time is in ticks; speeds divide the offsets used.  An event's payload,      *)
(* digests and identifiers are its observation; the checkpoint file, the wire  *)
(* and the receiver are in ReplayDelivery.                                     *)
EXTENDS Integers, Sequences, FiniteSets, Functions

CONSTANTS
    Observations, \* pool of [id, at, resource] a bundle is drawn from
    Policies,     \* records of budgets: speed, interval, maxEvents, maxDuration, maxResources
    Backoffs,     \* sequence of backoffs of the retry policy
    MaxTime       \* bound: ticks of the clock

\* ReplayPolicy: every budget is positive.
ValidPolicy(p) ==
    {p.speed, p.interval, p.maxEvents, p.maxDuration, p.maxResources} \subseteq Nat \ {0}

\* What the constants must satisfy.
PlanAssumption ==
    /\ IsFiniteSet(Observations) /\ Observations \subseteq [id : Nat, at : Nat, resource : Nat]
    /\ \A p \in Policies : ValidPolicy(p)
    /\ Backoffs \in Seq(Nat) /\ Len(Backoffs) <= 2
    /\ MaxTime \in Nat

VARIABLES
    policy,     \* ReplayPolicy
    bundle,     \* the verified observations
    plan,       \* sequence of [obs, sched]; empty when the plan was refused
    phase,      \* "planned", "paced", "immediate", "over"
    now,        \* the monotonic clock
    started,    \* clock when the paced run began
    deadline,   \* deadline_at
    first,      \* checkpoint the delivery started from
    at,         \* checkpoint_sequence
    try,        \* retry_index
    notBefore,  \* retry_not_before
    attempts,   \* history: <<sequence number, clock>> of every emit
    selection,  \* immediate: sequence numbers still to send
    ahead       \* immediate: successful_out_of_order

vars == <<policy, bundle, plan, phase, now, started, deadline, first, at, try, notBefore,
          attempts, selection, ahead>>

----------------------------------------------------------------------------
(* Building the plan *)

Larger(a, b) == IF a >= b THEN a ELSE b

\* Events in order of observation time, then resource, then observation.
Before(a, b) == \/ a.at < b.at
                \/ a.at = b.at /\ a.resource < b.resource
                \/ a.at = b.at /\ a.resource = b.resource /\ a.id < b.id

\* The i-th event is the one with i - 1 events before it.
Ordered(obs) ==
    [i \in 1..Cardinality(obs) |->
        CHOOSE o \in obs : Cardinality({ x \in obs : Before(x, o) }) = i - 1]

\* Offset of the i-th event in the source window; the window opens at the first.
SourceOffset(order, i) == order[i].at - order[1].at

\* scheduled_offset_seconds: the sped-up source time, but one interval after
\* the previous delivery.
Schedule(order, p) ==
    LET sched[i \in 1..Len(order)] ==
          IF i = 1 THEN SourceOffset(order, 1) \div p.speed
          ELSE Larger(SourceOffset(order, i) \div p.speed, sched[i - 1] + p.interval)
    IN  sched

\* The budgets build_replay_plan enforces, in its order: event count, resources,
\* window, and the schedule of the last event.
WithinBudgets(order, p) ==
    /\ Len(order) <= p.maxEvents
    /\ Cardinality({o.resource : o \in Range(order)}) <= p.maxResources
    /\ SourceOffset(order, Len(order)) <= p.maxDuration
    /\ \A i \in 1..Len(order) : Schedule(order, p)[i] <= p.maxDuration

\* What a plan is built in: whether the process environment names a cloud or a
\* real agent, what verifying the workspace reports, and the bundle the adapter
\* rebuilds from the locked artifact.
Workspaces == [cloud : BOOLEAN, valid : BOOLEAN, rebuilt : SUBSET Observations]

\* validate_replay_environment.
EnvironmentSafe(w) == ~w.cloud

\* _verified_lock: every artifact verified, and the report is the lock's.
VerifiedLock(w) == w.valid

\* _canonical_bundle_from_verified_artifact: a supplied bundle is only a claim
\* about the artifact; it must be the bundle the artifact gives.
CanonicalBundle(w, supplied) == w.rebuilt = supplied

\* build_replay_plan: the plan or a refusal, then the plan's own validation
\* (contiguous numbers, recomputed schedule, budgets once more).
BuildPlan(w, obs, p) ==
    LET order == Ordered(obs)
    IN  IF EnvironmentSafe(w) /\ VerifiedLock(w) /\ CanonicalBundle(w, obs) /\ WithinBudgets(order, p)
        THEN [i \in 1..Len(order) |-> [obs |-> order[i], sched |-> Schedule(order, p)[i]]]
        ELSE <<>>

Init ==
    /\ policy \in Policies
    /\ bundle \in SUBSET Observations \ {{}}
    /\ \E w \in Workspaces : plan = BuildPlan(w, bundle, policy)
    /\ phase = "planned" /\ now = 0 /\ started = 0 /\ deadline = 0 /\ first = 0 /\ at = 0 /\ try = 0
    /\ notBefore = 0 /\ attempts = <<>> /\ selection = <<>> /\ ahead = {}

fixed == <<policy, bundle, plan>>

----------------------------------------------------------------------------
(* run_paced_replay *)

\* Resume after checkpoint c with a total deadline of d ticks.
StartPaced ==
    /\ phase = "planned" /\ plan # <<>>
    /\ \E c \in 0..Len(plan), d \in 1..policy.maxDuration :
         first' = c /\ at' = c /\ deadline' = now + d
    /\ started' = now /\ phase' = "paced" /\ notBefore' = 0
    /\ UNCHANGED <<fixed, now, try, attempts, selection, ahead>>

\* schedule_origin: a resumed run keeps the deltas of the original schedule.
Origin == started - (IF first = 0 THEN 0 ELSE plan[first].sched)

\* Mutant of DueAt: retries and late deliveries do not push the next attempt.
DueOnSchedule == Larger(Origin + plan[at + 1].sched, notBefore)

\* due_at: on schedule, one interval after the last attempt, after the backoff.
DueAt ==
    Larger(Larger(Origin + plan[at + 1].sched,
                  IF attempts = <<>> THEN 0 ELSE attempts[Len(attempts)][2] + policy.interval),
           notBefore)

Finish == phase' = "over"

Tick ==
    /\ phase \in {"planned", "paced"} /\ now < MaxTime
    /\ now' = now + 1
    /\ UNCHANGED <<fixed, phase, started, deadline, first, at, try, notBefore, attempts, selection, ahead>>

PacedComplete ==
    /\ phase = "paced" /\ at = Len(plan)
    /\ Finish
    /\ UNCHANGED <<fixed, now, started, deadline, first, at, try, notBefore, attempts, selection, ahead>>

\* The deadline has passed, or the next attempt would be due after it.
DeadlineResult ==
    /\ phase = "paced" /\ at < Len(plan)
    /\ now >= deadline \/ DueAt >= deadline
    /\ Finish
    /\ UNCHANGED <<fixed, now, started, deadline, first, at, try, notBefore, attempts, selection, ahead>>

CanAttempt == phase = "paced" /\ at < Len(plan) /\ DueAt <= now /\ now < deadline

Attempted == attempts' = Append(attempts, <<at + 1, now>>)

AttemptDelivered ==
    /\ CanAttempt /\ Attempted
    /\ at' = at + 1 /\ try' = 0 /\ notBefore' = 0
    /\ UNCHANGED <<fixed, phase, now, started, deadline, first, selection, ahead>>

AttemptTransient ==
    /\ CanAttempt /\ Attempted
    /\ IF try < Len(Backoffs)
       THEN try' = try + 1 /\ notBefore' = now + Backoffs[try + 1] /\ UNCHANGED phase
       ELSE Finish /\ UNCHANGED <<try, notBefore>>
    /\ UNCHANGED <<fixed, now, started, deadline, first, at, selection, ahead>>

\* Any other delivery error, or a receipt that is not this event's.
AttemptRefused ==
    /\ CanAttempt /\ Attempted
    /\ Finish
    /\ UNCHANGED <<fixed, now, started, deadline, first, at, try, notBefore, selection, ahead>>

----------------------------------------------------------------------------
(* deliver_replay_plan *)

\* delivery_order: at most max_events numbers of the plan, in any order.
StartImmediate ==
    /\ phase = "planned" /\ plan # <<>> /\ now = 0
    /\ \E c \in 0..Len(plan), n \in 1..policy.maxEvents : \E sel \in [1..n -> 1..Len(plan)] :
         first' = c /\ at' = c /\ selection' = sel
    /\ phase' = "immediate"
    /\ UNCHANGED <<fixed, now, started, deadline, try, notBefore, attempts, ahead>>

\* The while loop that moves the checkpoint over a contiguous run of successes.
Contiguous(c, done) ==
    CHOOSE k \in c..Len(plan) :
        /\ \A j \in (c + 1)..k : j \in done
        /\ k + 1 \notin done

ImmediateDelivered ==
    /\ phase = "immediate" /\ selection # <<>>
    /\ LET seq == Head(selection)
           done == IF seq > at THEN ahead \cup {seq} ELSE ahead
           next == Contiguous(at, done)
       IN  /\ at' = next /\ ahead' = {j \in done : j > next}
           /\ attempts' = Append(attempts, <<seq, now>>)
    /\ selection' = Tail(selection)
    /\ UNCHANGED <<fixed, phase, now, started, deadline, first, try, notBefore>>

\* The first failure ends the selection with the checkpoint reached so far.
ImmediateFailed ==
    /\ phase = "immediate" /\ selection # <<>>
    /\ Finish
    /\ UNCHANGED <<fixed, now, started, deadline, first, at, try, notBefore, attempts, selection, ahead>>

ImmediateComplete ==
    /\ phase = "immediate" /\ selection = <<>>
    /\ Finish
    /\ UNCHANGED <<fixed, now, started, deadline, first, at, try, notBefore, attempts, selection, ahead>>

----------------------------------------------------------------------------

Next ==
    \/ StartPaced \/ Tick \/ PacedComplete \/ DeadlineResult \/ AttemptDelivered \/ AttemptTransient
    \/ AttemptRefused \/ StartImmediate \/ ImmediateDelivered \/ ImmediateFailed \/ ImmediateComplete

Spec == Init /\ [][Next]_vars

----------------------------------------------------------------------------
(* Properties *)

\* The recursive schedule is the least one that respects source time and rate:
\* event i waits for the most delaying of its predecessors, each followed by
\* one interval per event in between.
ScheduleIsLeast ==
    \A i \in 1..Len(plan) :
        LET order == [j \in 1..Len(plan) |-> plan[j].obs]
            bounds == {SourceOffset(order, j) \div policy.speed + (i - j) * policy.interval : j \in 1..i}
        IN  plan[i].sched \in bounds /\ \A b \in bounds : b <= plan[i].sched

\* An accepted plan fits every budget of its policy, the last delivery included.
PlanFitsPolicy ==
    plan # <<>> => /\ Len(plan) <= policy.maxEvents
                   /\ plan[Len(plan)].sched <= policy.maxDuration
                   /\ {e.obs : e \in Range(plan)} = bundle

\* telco-lab's README: a delayed retry cannot cause a catch-up burst - any two
\* paced attempts are at least one rate interval apart.
NoCatchUpBurst ==
    deadline > 0 => \A i, j \in 1..Len(attempts) :
        i < j => attempts[j][2] - attempts[i][2] >= (j - i) * policy.interval

\* A resumed run keeps the original spacing: an event is never sent earlier
\* after the start than it lies after the checkpoint in the schedule.
NeverAheadOfSchedule ==
    deadline > 0 => \A i \in 1..Len(attempts) :
        attempts[i][2] - started >=
            plan[attempts[i][1]].sched - (IF first = 0 THEN 0 ELSE plan[first].sched)

\* No attempt starts once the total deadline has passed, retries included.
NoAttemptPastDeadline == deadline > 0 => \A i \in 1..Len(attempts) : attempts[i][2] < deadline

\* The returned checkpoint is exactly the longest prefix known delivered,
\* whatever order and duplicates the selection had.
CheckpointIsContiguous ==
    LET known == 1..first \cup {attempts[i][1] : i \in 1..Len(attempts)}
    IN  (phase = "immediate" \/ selection # <<>>) =>
            /\ 1..at \subseteq known
            /\ at + 1 \notin known
=============================================================================
