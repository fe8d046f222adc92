-------------------------- MODULE UpdateScheduling --------------------------
(***************************************************************************)
(* The scheduled and the explicit refresh of one marketplace registration  *)
(* by several processes that share the state of a scope.                   *)
(*   src/src/application/marketplace-update-scheduler.ts                   *)
(*   src/src/application/update-scheduler-lease-state.ts                   *)
(*   src/src/application/marketplace-refresh-service.ts                    *)
(*   src/src/application/update-schedule.ts                                *)
(* Every stored time is kept as its distance from the present, so that     *)
(* time has no end: an age grows with a tick, a delay shrinks.  A value    *)
(* computed from a clock read earlier carries the age of that reading.     *)
(* The clocks of the processes are one clock, which never runs backwards.  *)
(***************************************************************************)
EXTENDS Integers, FiniteSets, FiniteSetsExt

CONSTANTS Procs,
          Users,       \* SUBSET Procs, where somebody asks for a refresh
          LeaseTime,   \* leaseMs, in polls of the inventory
          ClaimTime,   \* claimLeaseMs
          Interval,    \* successIntervalMs
          BackoffBase, \* failureBaseMs
          BackoffMax,  \* failureMaxMs
          Pause,       \* bound on the age of a clock reading in use
          MaxFaults,   \* bound on failing calls, foreign writes and deaths
          Dead,        \* the id of a process that is no more
          None

(* A process refreshes on schedule and, beside that, when its user asks.   *)
Tasks == (Procs \X {"scheduled"}) \cup (Users \X {"explicit"})
Home(t) == t[1]
Scheduled(t) == t[2] = "scheduled"

(* A reading of the clock is not older than a whole claim when it is used. *)
ASSUME ConstantsAreTyped ==
    /\ IsFiniteSet(Procs) /\ Users \subseteq Procs
    /\ {ClaimTime, Interval, BackoffBase, BackoffMax} \subseteq Nat \ {0}
    /\ LeaseTime \in Nat /\ LeaseTime > 1
    /\ {Pause, MaxFaults} \subseteq Nat /\ Pause <= ClaimTime
    /\ None # Dead /\ {None, Dead} \cap (Procs \cup Tasks \cup Nat) = {}

VARIABLES
    lease,    \* the scheduler lease of the scope: its owner, age of renewal
    claim,    \* the refresh claim of the registration: its task, its age
    due,      \* the delay until the persisted schedule is due; the number
              \* of failures behind it is left out
    behind,   \* is the published catalog older than what its source offers?
    loop,     \* [Procs -> the scheduler's loop]
    task,     \* [Tasks -> the refresh that is running]
    faults

recordVars == <<claim, due, behind>>
vars == <<lease, recordVars, loop, task, faults>>

Longest == Max({Interval, BackoffMax})
\* Mutated: the renewal is due after the lease has ended.
LeadAfter == 0 - Min({1, LeaseTime \div 2})
Lead == Min({1, LeaseTime \div 2})
LeaseCap == LeaseTime + Pause

Ages == 0..Pause \cup {None}
NoLease == [owner |-> None, age |-> 0]
NoClaim == [task |-> None, age |-> 0]
NoLoop == [at |-> "down", renewIn |-> None, now |-> None, due |-> FALSE]
NoTask == [at |-> "none", stale |-> FALSE, behind |-> FALSE]

TypeOK ==
    /\ lease \in [owner : Procs \cup {Dead, None}, age : 0..LeaseCap]
    /\ claim \in [task : Tasks \cup {Dead, None}, age : 0..ClaimTime]
    /\ due \in 0..Longest
    /\ behind \in BOOLEAN
    /\ loop \in [Procs -> [at : {"down", "asleep", "leasing", "refreshing"},
                           renewIn : 0..LeaseTime \cup {None},
                           now : Ages, due : BOOLEAN]]
    /\ task \in [Tasks -> [at : {"none", "claiming", "working", "publishing",
                                 "settling", "clearing"},
                           stale : BOOLEAN, behind : BOOLEAN]]
    /\ faults \in 0..MaxFaults

Init ==
    /\ lease = NoLease
    /\ claim = NoClaim /\ due = 0
    /\ behind = TRUE
    /\ loop = [p \in Procs |-> NoLoop]
    /\ task = [t \in Tasks |-> NoTask]
    /\ faults = 0

Fault == faults < MaxFaults /\ faults' = faults + 1
NoFault == UNCHANGED faults

-----------------------------------------------------------------------------
(* Time                                                                    *)

Older(age, cap) == Min({age + 1, cap})
Sooner(delay) == Max({delay - 1, 0})
Aged(reading) == IF reading = None THEN None ELSE reading + 1

(* A process pauses for Pause ticks with a reading of the clock at most.   *)
Tick ==
    /\ Pause \notin {loop[p].now : p \in Procs}
    /\ lease' = [lease EXCEPT !.age = IF lease.owner = None THEN 0 ELSE Older(@, LeaseCap)]
    /\ claim' = [claim EXCEPT !.age = IF claim.task \in {Dead, None} THEN 0 ELSE Older(@, ClaimTime)]
    /\ due' = Sooner(due)
    /\ loop' = [p \in Procs |-> [loop[p] EXCEPT
                   !.now = Aged(@), !.renewIn = IF @ = None THEN None ELSE Sooner(@)]]
    /\ UNCHANGED <<behind, task, faults>>

(* What is left at the present of a delay that began at a reading.         *)
Remaining(delay, reading) == Max({delay - reading, 0})

(* backoffDelayMs                                                          *)
Backoff(count) == IF count = 0 THEN 0 ELSE Min({BackoffMax, BackoffBase * 2 ^ (count - 1)})
(* deriveUpdateSchedule, without its jitter.                               *)
Delay(outcome, count) ==
    IF outcome = "success" THEN Interval ELSE Backoff(Max({1, count}))

-----------------------------------------------------------------------------
(* The lease of the scheduler                                              *)

(* active, for a clock read so many ticks ago: a lease renewed since that  *)
(* reading lies in its future.                                             *)
Active(reading) ==
    /\ lease.owner # None
    /\ lease.age >= reading
    /\ lease.age - reading < LeaseTime

(* validate, by a clock that was read before the state is: the owner is    *)
(* the present one, the lease may have expired since that reading.         *)
Valid(p, reading) == lease.owner = p /\ Active(reading)

\* Mutated: a claim is given up by nobody but its owner.
ClaimHeldForEver == claim.task # None
(* claimIsActive with the owner not proven dead.                           *)
ClaimHeld == claim.task \notin {None, Dead} /\ claim.age < ClaimTime

MayClaim(t) == ~ClaimHeld /\ (Scheduled(t) => due = 0)

(* The maintenance of the cycle and the wait: until the poll, a deadline   *)
(* or a wake.                                                              *)
Asleep(p) == [loop EXCEPT ![p] = [@ EXCEPT !.at = "asleep", !.now = None, !.due = FALSE]]

(* The scope is owned.  If the plan was due, refreshScheduled validates    *)
(* the lease, and refreshOne reads the registration and the clock.  A      *)
(* pause between these steps changes no more than a pause after them: the  *)
(* commit of the claim looks at all of it again.                           *)
Proceed(p, renewIn, isDue) ==
    LET t == <<p, "scheduled">>
        begins == isDue /\ MayClaim(t)
    IN  /\ loop' = [Asleep(p) EXCEPT ![p].renewIn = renewIn,
                                     ![p].at = IF begins THEN "refreshing" ELSE "asleep"]
        /\ task' = IF begins THEN [task EXCEPT ![t].at = "claiming"] ELSE task

(* A cycle reads the clock, then the plans.  Ownership is taken from       *)
(* memory until the renewal is due.                                        *)
BeginCycle(p) ==
    /\ loop[p].at = "asleep"
    /\ IF loop[p].renewIn \notin {None, 0}
       THEN Proceed(p, loop[p].renewIn, due = 0)
       ELSE /\ loop' = [loop EXCEPT ![p] = [@ EXCEPT !.at = "leasing", !.now = 0, !.due = due = 0]]
            /\ UNCHANGED task
    /\ NoFault
    /\ UNCHANGED <<lease, recordVars>>

(* replace: acquire when nothing is owned, else renew.                     *)
MayAcquire(p) == loop[p].renewIn = None /\ (Active(loop[p].now) => lease.owner = p)
MayRenew(p) == loop[p].renewIn # None /\ lease.owner = p

TakeLease(p) ==
    /\ loop[p].at = "leasing"
    /\ MayAcquire(p) \/ MayRenew(p)
    /\ lease' = [owner |-> p, age |-> loop[p].now]
    /\ Proceed(p, Remaining(LeaseTime - Lead, loop[p].now), loop[p].due)
    /\ NoFault
    /\ UNCHANGED recordVars

LoseLease(p) ==
    /\ loop[p].at = "leasing"
    /\ IF MayAcquire(p) \/ MayRenew(p) THEN Fault ELSE NoFault
    /\ loop' = [Asleep(p) EXCEPT ![p].renewIn = None]
    /\ UNCHANGED <<lease, recordVars, task>>

-----------------------------------------------------------------------------
(* A refresh                                                               *)

Explicit(p) ==
    /\ p \in Users /\ loop[p].at # "down"
    /\ task[<<p, "explicit">>].at = "none"
    /\ MayClaim(<<p, "explicit">>)
    /\ task' = [task EXCEPT ![<<p, "explicit">>].at = "claiming"]
    /\ NoFault
    /\ UNCHANGED <<lease, recordVars, loop>>

(* The task ends, and the loop that waits for it runs its maintenance.     *)
Resumed(t) == IF Scheduled(t) THEN Asleep(Home(t)) ELSE loop
Ended(t) ==
    /\ task' = [task EXCEPT ![t] = NoTask]
    /\ loop' = Resumed(t)

(* A commit on the registration: what the others have read is out of date. *)
Commits(t, next) ==
    task' = [u \in Tasks |->
        IF u = t THEN next
        ELSE [task[u] EXCEPT !.stale = task[u].at \in {"claiming", "settling", "clearing"}]]
CommitsEnded(t) ==
    /\ Commits(t, NoTask)
    /\ loop' = Resumed(t)

\* Mutated: the record need not be the one that was read.
ClaimsAnyRecord(t, reading) == Scheduled(t) => Valid(Home(t), reading)
\* Mutated: the lease is not validated again before the commit.
ClaimsWithoutLease(t, reading) == ~task[t].stale
(* mutateClaimRecord, with the clock that the lease is validated by.       *)
ClaimCommits(t, reading) == ~task[t].stale /\ (Scheduled(t) => Valid(Home(t), reading))

(* The claim's own time is read first; the clock of the validation later,  *)
(* but still before the awaits that come ahead of the commit.              *)
Claim(t) ==
    /\ task[t].at = "claiming"
    /\ \E started \in 0..Pause :
         /\ \E reading \in 0..started : ClaimCommits(t, reading)
         /\ claim' = [task |-> t, age |-> started]
    /\ Commits(t, [NoTask EXCEPT !.at = "working"])
    /\ NoFault
    /\ UNCHANGED <<lease, due, behind, loop>>

(* A lease that is valid now was valid at every reading since it was       *)
(* renewed: without a fault, the claim is only lost to the present.        *)
LoseClaim(t) ==
    /\ task[t].at = "claiming"
    /\ IF ClaimCommits(t, 0) THEN Fault ELSE NoFault
    /\ Ended(t)
    /\ UNCHANGED <<lease, recordVars>>

(* Staging, materialization, inspection, completedAt.                      *)
Materialize(t) ==
    /\ task[t].at = "working"
    /\ task' = [task EXCEPT ![t].at = "publishing"]
    /\ NoFault
    /\ UNCHANGED <<lease, recordVars, loop>>

(* settleFailure and settleCancellation begin with a read: there is only   *)
(* something to settle while the claim is the task's own.                  *)
Settle(t, at) ==
    IF claim.task = t
    THEN /\ task' = [task EXCEPT ![t] = [NoTask EXCEPT !.at = at]]
         /\ UNCHANGED loop
    ELSE Ended(t)

SourceFails(t) ==
    /\ task[t].at = "working"
    /\ Settle(t, "settling")
    /\ NoFault
    /\ UNCHANGED <<lease, recordVars>>

\* Mutated: the claim is not looked at again.
PublishesUnclaimed(t) == TRUE
(* The claim is the task's own, as it is read and inside the lock.         *)
StillClaims(t) == claim.task = t

Publish(t) ==
    /\ task[t].at = "publishing"
    /\ StillClaims(t)
    /\ claim' = NoClaim
    /\ \E reading \in 0..Pause : due' = Remaining(Delay("success", 0), reading)
    /\ behind' = task[t].behind
    /\ CommitsEnded(t)
    /\ NoFault
    /\ UNCHANGED <<lease>>

FailPublication(t) ==
    /\ task[t].at = "publishing"
    /\ IF StillClaims(t) THEN Fault ELSE NoFault
    /\ Settle(t, "settling")
    /\ UNCHANGED <<lease, recordVars>>

Cancel(t) ==
    /\ task[t].at \in {"working", "publishing"}
    /\ Fault
    /\ Settle(t, "clearing")
    /\ UNCHANGED <<lease, recordVars>>

(* The commit of the settlement.                                           *)
SettleFailure(t) ==
    /\ task[t].at = "settling" /\ ~task[t].stale
    /\ claim' = NoClaim
    /\ \E reading \in 0..Pause, count \in 1..BackoffMax :
         due' = Remaining(Delay("failure", count), reading)
    /\ CommitsEnded(t)
    /\ NoFault
    /\ UNCHANGED <<lease, behind>>

SettleCancellation(t) ==
    /\ task[t].at = "clearing" /\ ~task[t].stale
    /\ claim' = NoClaim
    /\ CommitsEnded(t)
    /\ NoFault
    /\ UNCHANGED <<lease, due, behind>>

(* The settlement is given up, and the claim stays until it expires.       *)
AbandonSettlement(t) ==
    /\ task[t].at \in {"settling", "clearing"}
    /\ IF task[t].stale THEN NoFault ELSE Fault
    /\ Ended(t)
    /\ UNCHANGED <<lease, recordVars>>

-----------------------------------------------------------------------------
(* What happens around                                                     *)

NewVersion ==
    /\ behind' = TRUE
    /\ task' = [t \in Tasks |-> [task[t] EXCEPT !.behind = task[t].at = "publishing"]]
    /\ NoFault
    /\ UNCHANGED <<lease, claim, due, loop>>

(* A notice is acknowledged or a policy set: another write of the record.  *)
ForeignWrite ==
    /\ \E t \in Tasks : task[t].at \in {"claiming", "settling", "clearing"}
    /\ Fault
    /\ task' = [t \in Tasks |->
           [task[t] EXCEPT !.stale = task[t].at \in {"claiming", "settling", "clearing"}]]
    /\ UNCHANGED <<lease, recordVars, loop>>

Start(p) ==
    /\ loop[p].at = "down"
    /\ loop' = [loop EXCEPT ![p].at = "asleep"]
    /\ NoFault
    /\ UNCHANGED <<lease, recordVars, task>>

(* The end of a process leaves its lease and its claim to the others.      *)
Gone(p) ==
    /\ loop' = [loop EXCEPT ![p] = NoLoop]
    /\ task' = [t \in Tasks |-> IF Home(t) = p THEN NoTask ELSE task[t]]
    /\ claim' = IF claim.task \in Tasks /\ Home(claim.task) = p
                THEN [NoClaim EXCEPT !.task = Dead] ELSE claim

Crash(p) ==
    /\ loop[p].at # "down"
    /\ Fault
    /\ Gone(p)
    /\ lease' = IF lease.owner = p THEN [lease EXCEPT !.owner = Dead] ELSE lease
    /\ UNCHANGED <<due, behind>>

(* An abort in the wait: the lease is released if it is still its own.     *)
Close(p) ==
    /\ loop[p].at = "asleep"
    /\ \A t \in Tasks : Home(t) = p => task[t].at = "none"
    /\ Fault
    /\ Gone(p)
    /\ lease' = IF loop[p].renewIn # None /\ lease.owner = p THEN NoLease
                ELSE IF lease.owner = p THEN [lease EXCEPT !.owner = Dead] ELSE lease
    /\ UNCHANGED <<due, behind>>

-----------------------------------------------------------------------------
LoopStep(p) ==
    BeginCycle(p) \/ TakeLease(p) \/ LoseLease(p) \/ Start(p)
TaskStep(t) ==
    \/ Claim(t) \/ LoseClaim(t)
    \/ Materialize(t) \/ SourceFails(t) \/ Publish(t) \/ FailPublication(t)
    \/ SettleFailure(t) \/ SettleCancellation(t) \/ AbandonSettlement(t)

Next ==
    \/ Tick
    \/ NewVersion
    \/ ForeignWrite
    \/ \E p \in Procs : LoopStep(p) \/ Explicit(p) \/ Crash(p) \/ Close(p)
    \/ \E t \in Tasks : TaskStep(t) \/ Cancel(t)

Fairness ==
    /\ SF_vars(Tick)
    /\ \A p \in Procs : WF_vars(LoopStep(p))
    /\ \A t \in Tasks : WF_vars(TaskStep(t))

Spec == Init /\ [][Next]_vars /\ Fairness

-----------------------------------------------------------------------------
(* An overtaken refresh, whose claim expired while it was working and was  *)
(* taken over, never publishes: the catalog does not go back to an older   *)
(* version of its source, whatever the processes do (publication under the *)
(* claim's id, marketplace-refresh-service.ts:503 to 521).                 *)
SnapshotNeverRegresses ==
    [][\A t \in Tasks : Publish(t) => (task[t].behind => behind)]_vars

(* The claim of a live refresh that has not expired is only removed by its *)
(* own task: nobody replaces it from a registration read before.           *)
LiveClaimIsKept ==
    [][\A t \in Tasks :
         claim.task = t /\ claim.age < ClaimTime /\ claim'.task \notin {t, Dead}
         => task[t].at \in {"publishing", "settling", "clearing"}
            /\ task'[t].at = "none"]_vars

(* A paused scheduler that still believes in its lease starts no refresh   *)
(* once another process owns the scope: the lease is its own when the      *)
(* claim is committed, and had not expired when the refresh read the time  *)
(* the claim begins at.  It may expire between that reading and the        *)
(* commit (marketplace-refresh-service.ts:197): as long as nobody takes    *)
(* it, the refresh starts all the same.                                    *)
OwnerRefreshes ==
    [][\A p \in Procs : claim'.task = <<p, "scheduled">> /\ claim.task # claim'.task
         => lease.owner = p /\ lease.age - claim'.age < LeaseTime]_vars

(* No process decides on a lease or a claim while a tick goes by.          *)
Prompt ==
    /\ \A p \in Procs : loop[p].at # "leasing"
    /\ \A t \in Tasks : task[t].at # "claiming"

(* Once processes are prompt, a schedule that is due is refreshed: neither *)
(* the lease of a dead process nor a claim that was left behind by a lost  *)
(* settlement keeps it from that for ever.                                 *)
DueIsRefreshed ==
    <>[][Tick => Prompt]_vars =>
        (due = 0 ~> due > 0 \/ \E t \in Tasks : task[t].at = "working")
=============================================================================
