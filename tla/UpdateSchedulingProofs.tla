------------------------ MODULE UpdateSchedulingProofs ------------------------
(***************************************************************************)
(* Proofs about UpdateScheduling, for any number of processes and users,   *)
(* any times and any bound on faults.                                      *)
(*                                                                         *)
(* What a commit replaces was read earlier.  The invariant says what such  *)
(* a reading is still good for as long as nobody wrote the registration:   *)
(* a task that is about to claim has seen that nobody holds the claim, and *)
(* one that settles has seen that the claim is its own.                    *)
(***************************************************************************)
EXTENDS UpdateScheduling, FiniteSetTheorems, TLAPS

(* The types but for the schedule, which is computed with a power of two.  *)
Loops == [at : {"down", "asleep", "leasing", "refreshing"},
          renewIn : 0..LeaseTime \cup {None}, now : Ages, due : BOOLEAN]
States == [at : {"none", "claiming", "working", "publishing", "settling", "clearing"},
           stale : BOOLEAN, behind : BOOLEAN]
Types ==
    /\ lease \in [owner : Procs \cup {Dead, None}, age : 0..LeaseCap]
    /\ claim \in [task : Tasks \cup {Dead, None}, age : 0..ClaimTime]
    /\ behind \in BOOLEAN
    /\ loop \in [Procs -> Loops]
    /\ task \in [Tasks -> States]
    /\ \A p \in Procs : loop[p].at = "leasing" => loop[p].now # None

(* What task t has read holds, unless it is known to be stale.             *)
ReadingHolds(t) ==
    /\ task[t].behind => task[t].at = "publishing" /\ (claim.task = t => behind)
    /\ task[t].at = "claiming" /\ ~task[t].stale => ~ClaimHeld
    /\ task[t].at \in {"settling", "clearing"} /\ ~task[t].stale => claim.task = t
ReadingsHold == \A t \in Tasks : ReadingHolds(t)

(* A loop waits for the refresh that it has begun.                         *)
LoopsWait == \A p \in Procs : task[<<p, "scheduled">>].at # "none" => loop[p].at = "refreshing"

IInv == Types /\ ReadingsHold /\ LoopsWait

-----------------------------------------------------------------------------
(* The extremes of two numbers.                                            *)
LEMMA MinOfTwo ==
    ASSUME NEW a \in Int, NEW b \in Int
    PROVE  Min({a, b}) = IF a <= b THEN a ELSE b
<1> DEFINE m == IF a <= b THEN a ELSE b
<1>1. m \in {a, b} /\ \A y \in {a, b} : m <= y
  OBVIOUS
<1>2. \A x \in {a, b} : (\A y \in {a, b} : x <= y) => x = m
  OBVIOUS
<1> QED BY <1>1, <1>2, Zenon DEF Min

LEMMA MaxOfTwo ==
    ASSUME NEW a \in Int, NEW b \in Int
    PROVE  Max({a, b}) = IF a >= b THEN a ELSE b
<1> DEFINE m == IF a >= b THEN a ELSE b
<1>1. m \in {a, b} /\ \A y \in {a, b} : m >= y
  OBVIOUS
<1>2. \A x \in {a, b} : (\A y \in {a, b} : x >= y) => x = m
  OBVIOUS
<1> QED BY <1>1, <1>2, Zenon DEF Max

LEMMA Times ==
    /\ LeaseTime \in Nat /\ Pause \in Nat /\ ClaimTime \in Nat /\ Pause <= ClaimTime
    /\ LeaseCap \in Nat /\ Pause <= LeaseCap
    /\ Lead \in 0..LeaseTime
    /\ None \notin Nat /\ None \notin Tasks /\ Dead \notin Tasks /\ None # Dead
<1>1. LeaseTime \in Nat /\ Pause \in Nat /\ ClaimTime \in Nat /\ LeaseTime > 1
  BY ConstantsAreTyped
<1>2. LeaseTime \div 2 \in 0..LeaseTime
  BY <1>1
<1>3. Lead = IF 1 <= LeaseTime \div 2 THEN 1 ELSE LeaseTime \div 2
  BY <1>2, MinOfTwo DEF Lead
<1> QED BY <1>1, <1>2, <1>3, ConstantsAreTyped DEF LeaseCap

(* Time passes.                                                            *)
LEMMA AgesGrow ==
    ASSUME NEW cap \in Nat, NEW age \in 0..cap
    PROVE  Older(age, cap) = IF age = cap THEN cap ELSE age + 1
BY MinOfTwo DEF Older

LEMMA DelaysShrink ==
    ASSUME NEW delay \in Nat
    PROVE  Sooner(delay) = IF delay = 0 THEN 0 ELSE delay - 1
BY MaxOfTwo DEF Sooner

LEMMA RenewalIsLater ==
    ASSUME NEW reading \in 0..Pause
    PROVE  Remaining(LeaseTime - Lead, reading) \in 0..LeaseTime
<1>1. LeaseTime - Lead \in 0..LeaseTime /\ reading \in Nat
  BY Times
<1> QED BY <1>1, MaxOfTwo, Times DEF Remaining

LEMMA InitIInv == Init => IInv
<1> SUFFICES ASSUME Init PROVE IInv
  OBVIOUS
<1>1. NoLoop \in Loops /\ NoTask \in States
  BY DEF NoLoop, Loops, Ages, NoTask, States
<1>2. Types
  BY <1>1, Times DEF Init, Types, NoLease, NoClaim, NoLoop
<1>3. LoopsWait
  BY DEF Init, LoopsWait, NoTask, Tasks
<1> QED BY <1>2, <1>3 DEF Init, IInv, ReadingsHold, ReadingHolds, NoTask

-----------------------------------------------------------------------------
(* The loops.                                                              *)
LoopsTyped == loop' \in [Procs -> Loops] /\ \A p \in Procs : loop'[p].at = "leasing" => loop'[p].now # None

LEMMA HomeIsProcess == ASSUME NEW t \in Tasks PROVE Home(t) \in Procs
BY ConstantsAreTyped DEF Tasks, Home

LEMMA AsleepLoops ==
    ASSUME Types, NEW p \in Procs
    PROVE  /\ Asleep(p) \in [Procs -> Loops]
           /\ \A q \in Procs : Asleep(p)[q].at = "leasing" => Asleep(p)[q].now # None
           /\ Asleep(p)[p].now = None
BY DEF Types, Asleep, Loops, Ages

LEMMA ProceedLoops ==
    ASSUME Types, NEW p \in Procs, NEW renewIn \in 0..LeaseTime, NEW isDue, Proceed(p, renewIn, isDue)
    PROVE  LoopsTyped
BY AsleepLoops DEF Proceed, LoopsTyped, Loops, Ages

LEMMA ResumedLoops ==
    ASSUME Types, NEW t \in Tasks, loop' = Resumed(t) \/ UNCHANGED loop
    PROVE  LoopsTyped
BY AsleepLoops, HomeIsProcess DEF Resumed, LoopsTyped, Types

-----------------------------------------------------------------------------
(* What a step makes of a task when nobody writes the registration: it     *)
(* stays, it ends, or its new state is backed by what it reads.            *)
Backed(t) ==
    \/ task'[t] = task[t]
    \/ task'[t] = NoTask
    \/ /\ ~task'[t].behind
       /\ task'[t].at = "claiming" => ~ClaimHeld
       /\ task'[t].at \in {"settling", "clearing"} => claim.task = t

LEMMA ReadingStep ==
    ASSUME IInv, UNCHANGED <<claim, behind>>, LoopsTyped, LoopsWait',
           lease' \in [owner : Procs \cup {Dead, None}, age : 0..LeaseCap],
           task' \in [Tasks -> States], \A t \in Tasks : Backed(t)
    PROVE  IInv'
<1>1. Types'
  BY DEF IInv, Types, LoopsTyped
<1>2. ASSUME NEW t \in Tasks PROVE ReadingHolds(t)'
  <2>1. ReadingHolds(t) /\ Backed(t)
    BY DEF IInv, ReadingsHold
  <2> QED BY <2>1 DEF ReadingHolds, Backed, NoTask, ClaimHeld
<1> QED BY <1>1, <1>2 DEF IInv, ReadingsHold

LEMMA ScheduledTask ==
    ASSUME NEW p \in Procs
    PROVE  <<p, "scheduled">> \in Tasks /\ Home(<<p, "scheduled">>) = p
BY DEF Tasks, Home

LEMMA ProceedStep ==
    ASSUME IInv, NEW p \in Procs, loop[p].at # "refreshing",
           NEW renewIn \in 0..LeaseTime, NEW isDue \in BOOLEAN, Proceed(p, renewIn, isDue)
    PROVE  /\ LoopsTyped /\ LoopsWait'
           /\ task' \in [Tasks -> States] /\ \A t \in Tasks : Backed(t)
<1> DEFINE u == <<p, "scheduled">>
<1>1. u \in Tasks /\ task[u].at = "none" /\ ~task[u].behind
  BY ScheduledTask DEF IInv, LoopsWait, ReadingsHold, ReadingHolds
<1>2. LoopsTyped
  BY ProceedLoops DEF IInv
<1>3. \A q \in Procs : q # p => loop'[q] = loop[q]
  BY <1>2 DEF Proceed, Asleep, LoopsTyped, IInv, Types
<1>4. CASE isDue /\ MayClaim(u)
  <2>1. task' = [task EXCEPT ![u].at = "claiming"] /\ ~ClaimHeld /\ loop'[p].at = "refreshing"
    BY <1>4 DEF Proceed, MayClaim, Asleep, IInv, Types
  <2>2. task' \in [Tasks -> States]
    BY <2>1 DEF IInv, Types, States
  <2>3. \A t \in Tasks : Backed(t)
    BY <1>1, <2>1 DEF Backed, IInv, Types, States
  <2>4. LoopsWait'
    BY <1>3, <2>1, ScheduledTask DEF LoopsWait, IInv, Types
  <2> QED BY <1>2, <2>2, <2>3, <2>4
<1>5. CASE ~(isDue /\ MayClaim(u))
  <2>1. task' = task
    BY <1>5 DEF Proceed
  <2>2. LoopsWait'
    BY <1>1, <1>3, <2>1 DEF LoopsWait, IInv
  <2> QED BY <1>2, <2>1, <2>2 DEF Backed, IInv, Types
<1> QED BY <1>4, <1>5

LEMMA LeasingLoop ==
    ASSUME NEW Renewals, NEW Readings, NEW Flags, NEW now \in Readings, NEW isDue \in Flags,
           NEW l \in [at : {"down", "asleep", "leasing", "refreshing"},
                     renewIn : Renewals, now : Readings, due : Flags]
    PROVE  /\ [l EXCEPT !.at = "leasing", !.now = now, !.due = isDue]
                \in [at : {"down", "asleep", "leasing", "refreshing"},
                    renewIn : Renewals, now : Readings, due : Flags]
           /\ [l EXCEPT !.at = "leasing", !.now = now, !.due = isDue].now = now
OBVIOUS

LEMMA BeginCycleStep ==
    ASSUME IInv, NEW p \in Procs, BeginCycle(p)
    PROVE  IInv'
<1>1. CASE loop[p].renewIn \notin {None, 0}
  <2>1. loop[p].renewIn \in 0..LeaseTime /\ loop[p].at # "refreshing" /\ (due = 0) \in BOOLEAN
    BY <1>1 DEF IInv, Types, Loops, BeginCycle
  <2>2. Proceed(p, loop[p].renewIn, due = 0)
    BY <1>1 DEF BeginCycle
  <2> QED BY <2>1, <2>2, ProceedStep, ReadingStep DEF BeginCycle, recordVars, IInv, Types
<1>2. CASE ~(loop[p].renewIn \notin {None, 0})
  <2>1. PICK isDue \in BOOLEAN :
          /\ loop' = [loop EXCEPT ![p] = [@ EXCEPT !.at = "leasing", !.now = 0, !.due = isDue]]
          /\ UNCHANGED task
    BY <1>2 DEF BeginCycle
  <2>2. LoopsTyped
    <3> DEFINE next == [loop[p] EXCEPT !.at = "leasing", !.now = 0, !.due = isDue]
    <3>1. next \in Loops /\ next.now = 0
      <4>1. loop[p] \in Loops /\ 0 \in Ages
        BY Times DEF IInv, Types, Ages
      <4>2. loop[p] \in [at : {"down", "asleep", "leasing", "refreshing"},
                        renewIn : 0..LeaseTime \cup {None}, now : Ages, due : BOOLEAN]
        BY <4>1, Zenon DEF Loops
      <4> QED BY <4>1, <4>2, LeasingLoop, Zenon DEF Loops
    <3>2. loop' = [loop EXCEPT ![p] = next]
      BY <2>1
    <3> HIDE DEF next
    <3> QED BY <3>1, <3>2, Times DEF LoopsTyped, IInv, Types
  <2>3. LoopsWait'
    BY <2>1 DEF LoopsWait, IInv, Types, BeginCycle
  <2> QED BY <2>1, <2>2, <2>3, ReadingStep DEF BeginCycle, recordVars, Backed, IInv, Types
<1> QED BY <1>1, <1>2

LEMMA TakeLeaseStep ==
    ASSUME IInv, NEW p \in Procs, TakeLease(p)
    PROVE  IInv'
<1>1. loop[p].now \in 0..Pause /\ loop[p].due \in BOOLEAN
  BY DEF IInv, Types, Loops, Ages, TakeLease
<1>2. Remaining(LeaseTime - Lead, loop[p].now) \in 0..LeaseTime
  BY <1>1, RenewalIsLater
<1>3. lease' \in [owner : Procs \cup {Dead, None}, age : 0..LeaseCap]
  BY <1>1, Times DEF TakeLease
<1> QED BY <1>1, <1>2, <1>3, ProceedStep, ReadingStep DEF TakeLease, recordVars

LEMMA LoseLeaseStep ==
    ASSUME IInv, NEW p \in Procs, LoseLease(p)
    PROVE  IInv'
<1>1. loop' = [Asleep(p) EXCEPT ![p].renewIn = None]
  BY DEF LoseLease
<1>2. LoopsTyped
  BY <1>1, AsleepLoops DEF LoopsTyped, IInv, Loops
<1>3. LoopsWait'
  BY <1>1 DEF LoopsWait, IInv, Types, LoseLease, Asleep
<1> QED BY <1>2, <1>3, ReadingStep DEF LoseLease, recordVars, Backed, IInv, Types

LEMMA StartStep ==
    ASSUME IInv, NEW p \in Procs, Start(p)
    PROVE  IInv'
<1>1. LoopsTyped
  BY DEF LoopsTyped, IInv, Types, Loops, Start
<1>2. LoopsWait'
  BY DEF LoopsWait, IInv, Types, Start
<1> QED BY <1>1, <1>2, ReadingStep DEF Start, recordVars, Backed, IInv, Types

-----------------------------------------------------------------------------
(* A refresh that reads, works or ends.                                    *)
\* The loop that waits for a task goes on when the task has ended.
LEMMA ResumedWaits ==
    ASSUME IInv, NEW t \in Tasks, loop' = Resumed(t), task'[t].at = "none",
           task' \in [Tasks -> States],
           \A u \in Tasks \ {t} : task'[u].at = "none" \/ task'[u].at = task[u].at
    PROVE  LoopsWait'
<1> SUFFICES ASSUME NEW p \in Procs, task'[<<p, "scheduled">>].at # "none"
             PROVE  loop'[p].at = "refreshing"
  BY DEF LoopsWait
<1>1. <<p, "scheduled">> \in Tasks \ {t} /\ task[<<p, "scheduled">>].at # "none"
  BY ScheduledTask
<1>2. loop[p].at = "refreshing"
  BY <1>1 DEF IInv, LoopsWait
<1>3. CASE Scheduled(t)
  <2>1. Home(t) # p
    BY <1>1, <1>3 DEF Tasks, Home, Scheduled
  <2> QED BY <1>2, <1>3, <2>1, HomeIsProcess DEF Resumed, Asleep, IInv, Types
<1>4. CASE ~Scheduled(t)
  BY <1>2, <1>4 DEF Resumed
<1> QED BY <1>3, <1>4

LEMMA EndedStep ==
    ASSUME IInv, NEW t \in Tasks, Ended(t), UNCHANGED <<lease, recordVars>>
    PROVE  IInv'
<1>1. task' = [task EXCEPT ![t] = NoTask] /\ loop' = Resumed(t)
  BY DEF Ended
<1>2. task' \in [Tasks -> States] /\ \A u \in Tasks : Backed(u)
  BY <1>1 DEF IInv, Types, States, NoTask, Backed
<1>3. LoopsWait'
  BY <1>1, <1>2, ResumedWaits DEF IInv, Types, NoTask
<1> QED BY <1>1, <1>2, <1>3, ResumedLoops, ReadingStep DEF recordVars, IInv, Types

LEMMA SettleStep ==
    ASSUME IInv, NEW t \in Tasks, task[t].at # "none", NEW at \in {"settling", "clearing"}, Settle(t, at),
           UNCHANGED <<lease, recordVars>>
    PROVE  IInv'
<1>1. CASE claim.task = t
  <2>1. task' = [task EXCEPT ![t] = [NoTask EXCEPT !.at = at]] /\ UNCHANGED loop
    BY <1>1 DEF Settle
  <2>2. task' \in [Tasks -> States] /\ \A u \in Tasks : Backed(u)
    BY <1>1, <2>1 DEF IInv, Types, States, NoTask, Backed
  <2>3. LoopsWait'
    BY <2>1, ScheduledTask DEF LoopsWait, IInv, Types, NoTask
  <2> QED BY <2>1, <2>2, <2>3, ResumedLoops, ReadingStep DEF recordVars, IInv, Types
<1>2. CASE claim.task # t
  BY <1>2, EndedStep DEF Settle
<1> QED BY <1>1, <1>2

LEMMA ExplicitStep ==
    ASSUME IInv, NEW p \in Procs, Explicit(p)
    PROVE  IInv'
<1> DEFINE u == <<p, "explicit">>
<1>1. u \in Tasks /\ task[u].at = "none" /\ ~task[u].behind /\ ~ClaimHeld
  BY DEF Tasks, Explicit, MayClaim, IInv, ReadingsHold, ReadingHolds
<1>2. task' = [task EXCEPT ![u].at = "claiming"]
  BY DEF Explicit
<1>3. task' \in [Tasks -> States] /\ \A t \in Tasks : Backed(t)
  BY <1>1, <1>2 DEF IInv, Types, States, Backed
<1>4. LoopsWait'
  <2>1. \A q \in Procs : <<q, "scheduled">> # u /\ <<q, "scheduled">> \in Tasks
    BY ScheduledTask
  <2> QED BY <1>2, <2>1 DEF LoopsWait, IInv, Types, Explicit
<1> QED BY <1>1, <1>3, <1>4, ResumedLoops, ReadingStep DEF Explicit, recordVars, IInv, Types

LEMMA MaterializeStep ==
    ASSUME IInv, NEW t \in Tasks, Materialize(t)
    PROVE  IInv'
<1>1. task[t].at = "working" /\ ~task[t].behind /\ task' = [task EXCEPT ![t].at = "publishing"]
  BY DEF Materialize, IInv, ReadingsHold, ReadingHolds
<1>2. task' \in [Tasks -> States] /\ \A u \in Tasks : Backed(u)
  BY <1>1 DEF IInv, Types, States, Backed
<1>3. LoopsWait'
  BY <1>1, ScheduledTask DEF LoopsWait, IInv, Types, Materialize
<1> QED BY <1>2, <1>3, ResumedLoops, ReadingStep DEF Materialize, recordVars, IInv, Types

\* A task that ends without a write, or goes on to its settlement.
LEMMA RetreatStep ==
    ASSUME IInv, NEW t \in Tasks,
           LoseClaim(t) \/ SourceFails(t) \/ FailPublication(t) \/ Cancel(t) \/ AbandonSettlement(t)
    PROVE  IInv'
<1>1. UNCHANGED <<lease, recordVars>> /\ task[t].at # "none"
  BY DEF LoseClaim, SourceFails, FailPublication, Cancel, AbandonSettlement
<1>2. Ended(t) \/ \E at \in {"settling", "clearing"} : Settle(t, at)
  BY DEF LoseClaim, SourceFails, FailPublication, Cancel, AbandonSettlement
<1> QED BY <1>1, <1>2, EndedStep, SettleStep

-----------------------------------------------------------------------------
(* A refresh that writes the registration.                                 *)
\* What the others have read is out of date.
Overtaken(u) == /\ task'[u] \in States
                /\ task'[u].at = task[u].at /\ task'[u].behind = task[u].behind
                /\ task'[u].at \in {"claiming", "settling", "clearing"} => task'[u].stale

LEMMA OthersAreOvertaken ==
    ASSUME IInv, NEW t \in Tasks, NEW next \in States, Commits(t, next)
    PROVE  /\ task' \in [Tasks -> States] /\ task'[t] = next
           /\ \A u \in Tasks \ {t} : Overtaken(u)
<1>1. task \in [Tasks -> States]
  BY DEF IInv, Types
<1>2. task' = [u \in Tasks |->
                 IF u = t THEN next
                 ELSE [task[u] EXCEPT !.stale = task[u].at \in {"claiming", "settling", "clearing"}]]
  BY DEF Commits
<1>3. ASSUME NEW u \in Tasks \ {t}
      PROVE  Overtaken(u)
  <2> DEFINE reads == task[u].at \in {"claiming", "settling", "clearing"}
  <2>1. task'[u] = [task[u] EXCEPT !.stale = reads]
    BY <1>1, <1>2 DEF States
  <2>2. task'[u].at = task[u].at /\ task'[u].behind = task[u].behind /\ task'[u].stale = reads
    BY <1>1, <1>2 DEF States
  <2>3. task'[u] = [task[u] EXCEPT !.stale = TRUE] \/ task'[u] = [task[u] EXCEPT !.stale = FALSE]
    <3>1. reads = TRUE \/ reads = FALSE
      OBVIOUS
    <3> QED BY <2>1, <3>1, Zenon
  <2>4. task'[u] \in States
    BY <1>1, <2>3 DEF States
  <2> QED BY <2>2, <2>4 DEF Overtaken
<1>4. task'[t] = next
  BY <1>2
<1>5. \A u \in Tasks : task'[u] \in States
  BY <1>3, <1>4 DEF Overtaken
<1>6. task' = [u \in Tasks |-> task'[u]]
  BY <1>2, Zenon
<1> QED BY <1>3, <1>4, <1>5, <1>6

LEMMA CommitStep ==
    ASSUME IInv, NEW t \in Tasks, NEW next \in States, Commits(t, next),
           ~next.behind, next.at \in {"none", "working"}, UNCHANGED lease, LoopsTyped, LoopsWait',
           claim' \in [task : Tasks \cup {Dead, None}, age : 0..ClaimTime],
           claim'.task \in {t, None}, behind' \in BOOLEAN
    PROVE  IInv'
<1>1. /\ task' \in [Tasks -> States] /\ task'[t] = next
      /\ \A u \in Tasks \ {t} : Overtaken(u)
  BY OthersAreOvertaken
<1>2. Types'
  BY <1>1 DEF IInv, Types, LoopsTyped
<1>3. ASSUME NEW u \in Tasks PROVE ReadingHolds(u)'
  <2>1. CASE u = t
    BY <1>1, <2>1 DEF ReadingHolds
  <2>2. CASE u # t
    <3>1. Overtaken(u) /\ claim'.task # u /\ ReadingHolds(u)
      BY <1>1, <2>2, Times DEF IInv, ReadingsHold
    <3> QED BY <3>1 DEF ReadingHolds, Overtaken
  <2> QED BY <2>1, <2>2
<1> QED BY <1>2, <1>3 DEF IInv, ReadingsHold

LEMMA ClaimStep ==
    ASSUME IInv, NEW t \in Tasks, Claim(t)
    PROVE  IInv'
<1> DEFINE next == [NoTask EXCEPT !.at = "working"]
<1>1. next \in States /\ next.at = "working" /\ ~next.behind /\ Commits(t, next)
  BY DEF NoTask, States, Claim
<1>2. /\ task' \in [Tasks -> States] /\ task'[t] = next
      /\ \A u \in Tasks \ {t} : Overtaken(u)
  BY <1>1, OthersAreOvertaken
<1>3. claim' \in [task : Tasks \cup {Dead, None}, age : 0..ClaimTime] /\ claim'.task = t
  BY Times DEF Claim
<1>4. LoopsWait'
  <2>1. \A u \in Tasks : task'[u].at # "none" => task[u].at # "none"
    BY <1>2 DEF Claim, Overtaken
  <2> QED BY <2>1, ScheduledTask DEF LoopsWait, IInv, Claim
<1>5. LoopsTyped /\ behind' \in BOOLEAN /\ UNCHANGED lease
  BY ResumedLoops DEF IInv, Types, Claim
<1> HIDE DEF next
<1> QED BY <1>1, <1>3, <1>4, <1>5, CommitStep

LEMMA EndingCommitStep ==
    ASSUME IInv, NEW t \in Tasks, Publish(t) \/ SettleFailure(t) \/ SettleCancellation(t)
    PROVE  IInv'
<1>1. NoTask \in States /\ NoTask.at = "none" /\ ~NoTask.behind
  BY DEF NoTask, States
<1>2. Commits(t, NoTask) /\ loop' = Resumed(t) /\ UNCHANGED lease
  BY DEF Publish, SettleFailure, SettleCancellation, CommitsEnded
<1>3. /\ task' \in [Tasks -> States] /\ task'[t] = NoTask
      /\ \A u \in Tasks \ {t} : Overtaken(u)
  BY <1>1, <1>2, OthersAreOvertaken
<1>4. claim' \in [task : Tasks \cup {Dead, None}, age : 0..ClaimTime] /\ claim'.task = None
  BY Times DEF Publish, SettleFailure, SettleCancellation, NoClaim
<1>5. behind' \in BOOLEAN
  BY DEF Publish, SettleFailure, SettleCancellation, IInv, Types, States
<1>6. LoopsWait'
  BY <1>1, <1>2, <1>3, ResumedWaits DEF Overtaken
<1> QED BY <1>1, <1>2, <1>4, <1>5, <1>6, ResumedLoops, CommitStep DEF IInv

-----------------------------------------------------------------------------
(* What happens around.                                                    *)
LEMMA NewVersionStep ==
    ASSUME IInv, NewVersion
    PROVE  IInv'
<1>1. task \in [Tasks -> States]
  BY DEF IInv, Types
<1>2. task' = [t \in Tasks |-> [task[t] EXCEPT !.behind = task[t].at = "publishing"]]
  BY DEF NewVersion
<1>3. ASSUME NEW t \in Tasks
      PROVE  /\ task'[t] \in States /\ task'[t].at = task[t].at /\ task'[t].stale = task[t].stale
             /\ task'[t].behind => task'[t].at = "publishing"
  <2>1. /\ task'[t].at = task[t].at /\ task'[t].stale = task[t].stale
        /\ task'[t].behind = (task[t].at = "publishing")
    BY <1>1, <1>2 DEF States
  <2>2. task'[t] = [task[t] EXCEPT !.behind = TRUE] \/ task'[t] = [task[t] EXCEPT !.behind = FALSE]
    <3>1. task'[t] = [task[t] EXCEPT !.behind = task[t].at = "publishing"]
      BY <1>1, <1>2 DEF States
    <3>2. (task[t].at = "publishing") = TRUE \/ (task[t].at = "publishing") = FALSE
      OBVIOUS
    <3> QED BY <3>1, <3>2, Zenon
  <2>3. task'[t] \in States
    BY <1>1, <2>2 DEF States
  <2> QED BY <2>1, <2>3
<1>4. task' = [t \in Tasks |-> task'[t]]
  BY <1>2, Zenon
<1>5. task' \in [Tasks -> States]
  BY <1>3, <1>4
<1>6. LoopsWait'
  BY <1>3, ScheduledTask DEF LoopsWait, NewVersion, IInv
<1>7. Types'
  BY <1>5, Times DEF NewVersion, IInv, Types
<1>8. behind' /\ UNCHANGED claim
  BY DEF NewVersion
<1>9. ReadingsHold'
  BY <1>3, <1>8 DEF ReadingsHold, ReadingHolds, IInv, ClaimHeld
<1> QED BY <1>6, <1>7, <1>9 DEF IInv

LEMMA ForeignWriteStep ==
    ASSUME IInv, ForeignWrite
    PROVE  IInv'
<1>1. task \in [Tasks -> States]
  BY DEF IInv, Types
<1>2. task' = [t \in Tasks |->
                 [task[t] EXCEPT !.stale = task[t].at \in {"claiming", "settling", "clearing"}]]
  BY DEF ForeignWrite
<1>3. ASSUME NEW t \in Tasks
      PROVE  Overtaken(t)
  <2> DEFINE reads == task[t].at \in {"claiming", "settling", "clearing"}
  <2>1. /\ task'[t].at = task[t].at /\ task'[t].behind = task[t].behind /\ task'[t].stale = reads
        /\ task'[t] = [task[t] EXCEPT !.stale = reads]
    BY <1>1, <1>2 DEF States
  <2>2. task'[t] = [task[t] EXCEPT !.stale = TRUE] \/ task'[t] = [task[t] EXCEPT !.stale = FALSE]
    <3>1. reads = TRUE \/ reads = FALSE
      OBVIOUS
    <3> QED BY <2>1, <3>1, Zenon
  <2>3. task'[t] \in States
    BY <1>1, <2>2 DEF States
  <2> QED BY <2>1, <2>3 DEF Overtaken
<1>4. task' = [t \in Tasks |-> task'[t]]
  BY <1>2, Zenon
<1>5. task' \in [Tasks -> States]
  BY <1>3, <1>4 DEF Overtaken
<1>6. LoopsWait'
  BY <1>3, ScheduledTask DEF LoopsWait, ForeignWrite, IInv, Overtaken
<1>7. Types'
  BY <1>5 DEF ForeignWrite, recordVars, IInv, Types
<1>8. UNCHANGED <<claim, behind>>
  BY DEF ForeignWrite, recordVars
<1>9. ASSUME NEW t \in Tasks PROVE ReadingHolds(t)'
  <2>1. ReadingHolds(t) /\ Overtaken(t)
    BY <1>3 DEF IInv, ReadingsHold
  <2> QED BY <1>8, <2>1 DEF ReadingHolds, Overtaken
<1> QED BY <1>6, <1>7, <1>9 DEF IInv, ReadingsHold

\* The end of a process.
LEMMA GoneStep ==
    ASSUME IInv, NEW p \in Procs, Gone(p), UNCHANGED behind,
           lease' \in [owner : Procs \cup {Dead, None}, age : 0..LeaseCap]
    PROVE  IInv'
<1>1. /\ loop' = [loop EXCEPT ![p] = NoLoop]
      /\ task' = [t \in Tasks |-> IF Home(t) = p THEN NoTask ELSE task[t]]
      /\ claim' = IF claim.task \in Tasks /\ Home(claim.task) = p
                  THEN [NoClaim EXCEPT !.task = Dead] ELSE claim
  BY DEF Gone
<1>2. NoTask \in States /\ NoLoop \in Loops /\ NoLoop.at = "down"
  BY DEF NoTask, States, NoLoop, Loops, Ages
<1>3. claim' \in [task : Tasks \cup {Dead, None}, age : 0..ClaimTime]
  BY <1>1, Times DEF NoClaim, IInv, Types
<1>4. Types'
  BY <1>1, <1>2, <1>3 DEF IInv, Types
<1>5. LoopsWait'
  BY <1>1, ScheduledTask DEF LoopsWait, IInv, Types, NoTask
<1>6. ASSUME NEW t \in Tasks PROVE ReadingHolds(t)'
  <2>1. CASE Home(t) = p
    BY <1>1, <2>1 DEF ReadingHolds, NoTask
  <2>2. CASE Home(t) # p
    <3>1. task'[t] = task[t] /\ ReadingHolds(t)
      BY <1>1, <2>2 DEF IInv, ReadingsHold
    <3>2. claim' = claim \/ (claim'.task = Dead /\ claim.task # t)
      BY <1>1, <2>2 DEF NoClaim
    <3> QED BY <3>1, <3>2, Times DEF ReadingHolds, ClaimHeld
  <2> QED BY <2>1, <2>2
<1> QED BY <1>4, <1>5, <1>6 DEF IInv, ReadingsHold

LEMMA CrashStep ==
    ASSUME IInv, NEW p \in Procs, Crash(p) \/ Close(p)
    PROVE  IInv'
<1>1. lease' \in [owner : Procs \cup {Dead, None}, age : 0..LeaseCap]
  BY Times DEF Crash, Close, IInv, Types, NoLease
<1> QED BY <1>1, GoneStep DEF Crash, Close

LEMMA TickStep ==
    ASSUME IInv, Tick
    PROVE  IInv'
<1>1. lease' \in [owner : Procs \cup {Dead, None}, age : 0..LeaseCap]
  <2>1. Older(lease.age, LeaseCap) \in 0..LeaseCap
    BY Times, AgesGrow DEF IInv, Types
  <2> DEFINE age == IF lease.owner = None THEN 0 ELSE Older(lease.age, LeaseCap)
  <2>2. age \in 0..LeaseCap
    BY <2>1, Times
  <2>3. lease' = [lease EXCEPT !.age = age]
    BY DEF Tick, IInv, Types
  <2> HIDE DEF age
  <2> QED BY <2>2, <2>3 DEF IInv, Types
<1>2. /\ claim' \in [task : Tasks \cup {Dead, None}, age : 0..ClaimTime]
      /\ claim'.task = claim.task
      /\ ~ClaimHeld => ~ClaimHeld'
  <2>1. Older(claim.age, ClaimTime) = IF claim.age = ClaimTime THEN ClaimTime ELSE claim.age + 1
    BY Times, AgesGrow DEF IInv, Types
  <2> DEFINE age == IF claim.task \in {Dead, None} THEN 0 ELSE Older(claim.age, ClaimTime)
  <2>2. age \in 0..ClaimTime
    BY <2>1, Times DEF IInv, Types
  <2>3. claim.task \notin {Dead, None} /\ claim.age >= ClaimTime => age >= ClaimTime
    BY <2>1, Times DEF IInv, Types
  <2>4. claim' = [claim EXCEPT !.age = age]
    BY DEF Tick, IInv, Types
  <2> HIDE DEF age
  <2>5. claim'.task = claim.task /\ claim'.age = age /\ claim.age \in Nat /\ age \in Nat /\ ClaimTime \in Nat
    BY <2>2, <2>4, Times DEF IInv, Types
  <2>6. ~ClaimHeld => ~ClaimHeld'
    BY <2>3, <2>5 DEF ClaimHeld
  <2> QED BY <2>2, <2>4, <2>5, <2>6 DEF IInv, Types
<1>3. UNCHANGED <<behind, task>>
  BY DEF Tick
<1>4. ASSUME NEW p \in Procs
      PROVE  loop'[p] \in Loops /\ loop'[p].at = loop[p].at
             /\ (loop[p].now # None => loop'[p].now # None)
  <2>1. loop[p] \in Loops
    BY DEF IInv, Types
  <2>2. Aged(loop[p].now) \in Ages /\ (loop[p].now # None => Aged(loop[p].now) # None)
    <3>1. loop[p].now # Pause /\ loop[p].now \in 0..Pause \cup {None}
      BY <2>1 DEF Loops, Ages, Tick
    <3> QED BY <3>1, Times DEF Ages, Aged
  <2>3. (IF loop[p].renewIn = None THEN None ELSE Sooner(loop[p].renewIn)) \in 0..LeaseTime \cup {None}
    BY <2>1, Times, DelaysShrink DEF Loops
  <2>4. loop'[p] = [loop[p] EXCEPT !.now = Aged(loop[p].now),
                      !.renewIn = IF loop[p].renewIn = None THEN None ELSE Sooner(loop[p].renewIn)]
    BY <2>1 DEF Tick, Loops
  <2> QED BY <2>1, <2>2, <2>3, <2>4 DEF Loops
<1>5. loop' = [p \in Procs |-> loop'[p]]
  BY Zenon DEF Tick
<1>6. loop' \in [Procs -> Loops]
  BY <1>4, <1>5
<1>7. Types'
  BY <1>1, <1>2, <1>3, <1>4, <1>6 DEF IInv, Types
<1>8. ReadingsHold' /\ LoopsWait'
  BY <1>2, <1>3, <1>4 DEF IInv, ReadingsHold, ReadingHolds, LoopsWait
<1> QED BY <1>7, <1>8 DEF IInv

-----------------------------------------------------------------------------
LEMMA NextIInv == IInv /\ [Next]_vars => IInv'
<1> SUFFICES ASSUME IInv, [Next]_vars PROVE IInv'
  OBVIOUS
<1>1. CASE UNCHANGED vars
  BY <1>1 DEF vars, recordVars, IInv, Types, ReadingsHold, ReadingHolds, ClaimHeld, LoopsWait
<1>2. CASE Tick \/ NewVersion \/ ForeignWrite
  BY <1>2, TickStep, NewVersionStep, ForeignWriteStep
<1>3. ASSUME NEW p \in Procs, LoopStep(p) \/ Explicit(p) \/ Crash(p) \/ Close(p)
      PROVE  IInv'
  BY <1>3, BeginCycleStep, TakeLeaseStep, LoseLeaseStep, StartStep, ExplicitStep, CrashStep DEF LoopStep
<1>4. ASSUME NEW t \in Tasks, TaskStep(t) \/ Cancel(t)
      PROVE  IInv'
  BY <1>4, ClaimStep, MaterializeStep, RetreatStep, EndingCommitStep DEF TaskStep
<1> QED BY <1>1, <1>2, <1>3, <1>4 DEF Next

\* The readings of tasks hold, as long as nobody wrote the registration.
THEOREM InductiveInvariant == Spec => []IInv
BY InitIInv, NextIInv, PTL DEF Spec

\* Who changes the holder of the claim, and to what.
LEMMA ClaimChanges ==
    ASSUME IInv, [Next]_vars, claim'.task # claim.task
    PROVE  \/ claim'.task = Dead
           \/ \E t \in Tasks : Claim(t) \/ Publish(t) \/ SettleFailure(t) \/ SettleCancellation(t)
<1>1. claim' # claim
  OBVIOUS
<1>2. ~UNCHANGED vars /\ ~NewVersion /\ ~ForeignWrite
  BY <1>1 DEF vars, recordVars, NewVersion, ForeignWrite
<1>3. ~Tick
  BY DEF Tick, IInv, Types
<1>4. ASSUME NEW p \in Procs, LoopStep(p) \/ Explicit(p) PROVE FALSE
  BY <1>1, <1>4 DEF LoopStep, BeginCycle, TakeLease, LoseLease, Start, Explicit, recordVars
<1>5. ASSUME NEW p \in Procs, Crash(p) \/ Close(p) PROVE claim'.task = Dead
  BY <1>1, <1>5 DEF Crash, Close, Gone, NoClaim
<1>6. ASSUME NEW t \in Tasks, TaskStep(t) \/ Cancel(t)
      PROVE  Claim(t) \/ Publish(t) \/ SettleFailure(t) \/ SettleCancellation(t)
  BY <1>1, <1>6 DEF TaskStep, LoseClaim, Materialize, SourceFails, FailPublication,
     AbandonSettlement, Cancel, recordVars
<1> QED BY <1>2, <1>3, <1>4, <1>5, <1>6 DEF Next

\* A refresh whose claim expired and was taken over publishes nothing, whatever
\* any number of processes do (marketplace-refresh-service.ts, the publication
\* under the claim's id).
THEOREM SnapshotNeverRegressesHolds == Spec => SnapshotNeverRegresses
<1>1. IInv => \A t \in Tasks : Publish(t) => (task[t].behind => behind)
  BY DEF IInv, ReadingsHold, ReadingHolds, Publish, StillClaims
<1>2. IInv /\ [Next]_vars => [\A t \in Tasks : Publish(t) => (task[t].behind => behind)]_vars
  BY <1>1
<1> QED BY <1>2, InductiveInvariant, PTL DEF Spec, SnapshotNeverRegresses

\* The claim of a live refresh that has not expired is removed by nobody but its
\* own task (mutateClaimRecord and the settlements of
\* marketplace-refresh-service.ts).
THEOREM LiveClaimIsKeptHolds == Spec => LiveClaimIsKept
<1> DEFINE Kept(t) == claim.task = t /\ claim.age < ClaimTime /\ claim'.task \notin {t, Dead}
                      => task[t].at \in {"publishing", "settling", "clearing"} /\ task'[t].at = "none"
<1>1. ASSUME IInv, [Next]_vars, NEW t \in Tasks,
             claim.task = t, claim.age < ClaimTime, claim'.task \notin {t, Dead}
      PROVE  task[t].at \in {"publishing", "settling", "clearing"} /\ task'[t].at = "none"
  <2>1. PICK u \in Tasks : Claim(u) \/ Publish(u) \/ SettleFailure(u) \/ SettleCancellation(u)
    BY <1>1, ClaimChanges
  <2>2. ClaimHeld
    BY <1>1, Times DEF ClaimHeld
  <2>3. ~Claim(u)
    <3> SUFFICES ASSUME Claim(u) PROVE FALSE
      OBVIOUS
    <3>1. task[u].at = "claiming" /\ ~task[u].stale
      BY DEF Claim, ClaimCommits
    <3>2. ReadingHolds(u)
      BY <1>1 DEF IInv, ReadingsHold
    <3> QED BY <2>2, <3>1, <3>2 DEF ReadingHolds
  <2>4. u = t /\ task[t].at \in {"publishing", "settling", "clearing"}
    BY <1>1, <2>1, <2>3 DEF Publish, StillClaims, SettleFailure, SettleCancellation,
       IInv, ReadingsHold, ReadingHolds
  <2>5. task' = [v \in Tasks |->
                   IF v = t THEN NoTask
                   ELSE [task[v] EXCEPT !.stale = task[v].at \in {"claiming", "settling", "clearing"}]]
    BY <2>1, <2>3, <2>4, Zenon DEF Publish, SettleFailure, SettleCancellation, CommitsEnded, Commits
  <2>6. task'[t].at = "none"
    BY <2>5 DEF NoTask
  <2> QED BY <2>4, <2>6
<1>2. IInv /\ [Next]_vars => [\A t \in Tasks : Kept(t)]_vars
  BY <1>1
<1> QED BY <1>2, InductiveInvariant, PTL DEF Spec, LiveClaimIsKept

\* A scheduler claims for its process only while the process owns the scope,
\* whatever it remembers, and only if its lease had not expired when the refresh
\* read the time its claim begins at (refreshScheduled; the clock of the
\* validation is read between that and the commit).
THEOREM OwnerRefreshesHolds == Spec => OwnerRefreshes
<1>1. ASSUME IInv, [Next]_vars, NEW p \in Procs,
             claim'.task = <<p, "scheduled">>, claim.task # claim'.task
      PROVE  lease.owner = p /\ lease.age - claim'.age < LeaseTime
  <2>1. <<p, "scheduled">> \in Tasks /\ Home(<<p, "scheduled">>) = p /\ Scheduled(<<p, "scheduled">>)
    BY ScheduledTask DEF Scheduled
  <2>2. PICK t \in Tasks : Claim(t) \/ Publish(t) \/ SettleFailure(t) \/ SettleCancellation(t)
    BY <1>1, <2>1, ClaimChanges, Times
  <2>3. Claim(t) /\ t = <<p, "scheduled">>
    BY <1>1, <2>1, <2>2, Times DEF Claim, Publish, SettleFailure, SettleCancellation, NoClaim
  <2>4. PICK started \in 0..Pause : /\ \E reading \in 0..started : ClaimCommits(t, reading)
                                    /\ claim' = [task |-> t, age |-> started]
    BY <2>3 DEF Claim
  <2>5. PICK reading \in 0..started : Valid(p, reading)
    BY <2>1, <2>3, <2>4 DEF ClaimCommits
  <2>6. lease.age \in Nat /\ LeaseTime \in Nat /\ started \in Nat /\ reading \in Nat
    BY <1>1, Times DEF IInv, Types
  <2>7. lease.owner = p /\ lease.age - reading < LeaseTime
    BY <2>5 DEF Valid, Active
  <2> QED BY <2>4, <2>5, <2>6, <2>7
<1>2. IInv /\ [Next]_vars =>
        [\A p \in Procs : claim'.task = <<p, "scheduled">> /\ claim.task # claim'.task
                          => lease.owner = p /\ lease.age - claim'.age < LeaseTime]_vars
  BY <1>1
<1> QED BY <1>2, InductiveInvariant, PTL DEF Spec, OwnerRefreshes

-----------------------------------------------------------------------------
(* The schedule.  That a power of two is a number is a fact about sets: a  *)
(* set of n elements has so many subsets.                                  *)
LEMMA PowersAreNumbers ==
    ASSUME NEW n \in Nat
    PROVE  2 ^ n \in Nat
<1>1. IsFiniteSet(1..n) /\ Cardinality(1..n) = n
  BY FS_Interval
<1>2. IsFiniteSet(SUBSET (1..n)) /\ Cardinality(SUBSET (1..n)) = 2 ^ n
  BY <1>1, FS_SUBSET
<1> QED BY <1>2, FS_CardinalityType

LEMMA BackoffIsBounded ==
    ASSUME NEW count \in Nat
    PROVE  Backoff(count) \in 0..BackoffMax
<1>1. BackoffMax \in Nat /\ BackoffBase \in Nat
  BY ConstantsAreTyped
<1>2. CASE count = 0
  BY <1>1, <1>2 DEF Backoff
<1>3. CASE count # 0
  <2> DEFINE power == 2 ^ (count - 1)
             delay == BackoffBase * power
  <2>1. power \in Nat
    <3>1. count - 1 \in Nat
      BY <1>3
    <3> QED BY <3>1, PowersAreNumbers
  <2>2. delay \in Nat
    <3> HIDE DEF power
    <3> QED BY <1>1, <2>1
  <2>3. Backoff(count) = Min({BackoffMax, delay})
    BY <1>3 DEF Backoff
  <2> HIDE DEF delay
  <2> QED BY <1>1, <2>2, <2>3, MinOfTwo
<1> QED BY <1>2, <1>3

LEMMA LongestIsNumber == Longest \in Nat
BY ConstantsAreTyped, MaxOfTwo DEF Longest

\* A new schedule is due after the longest delay at the latest.
LEMMA DelayIsBounded ==
    ASSUME NEW outcome, NEW count \in Nat, NEW reading \in 0..Pause
    PROVE  Remaining(Delay(outcome, count), reading) \in 0..Longest
<1>1. Interval \in Nat /\ BackoffMax \in Nat /\ reading \in Nat
  BY ConstantsAreTyped
<1>2. Longest = IF Interval >= BackoffMax THEN Interval ELSE BackoffMax
  BY <1>1, MaxOfTwo DEF Longest
<1>3. Max({1, count}) \in Nat
  BY MaxOfTwo
<1>4. Delay(outcome, count) \in 0..Longest
  BY <1>1, <1>2, <1>3, BackoffIsBounded DEF Delay
<1> QED BY <1>1, <1>2, <1>4, MaxOfTwo DEF Remaining

ScheduleTyped == due \in 0..Longest /\ faults \in 0..MaxFaults

LEMMA NextSchedule == ScheduleTyped /\ [Next]_vars => ScheduleTyped'
<1> SUFFICES ASSUME ScheduleTyped, [Next]_vars PROVE ScheduleTyped'
  OBVIOUS
<1>1. MaxFaults \in Nat /\ (Fault \/ NoFault => faults' \in 0..MaxFaults)
  BY ConstantsAreTyped DEF ScheduleTyped, Fault, NoFault
<1>2. CASE UNCHANGED vars
  BY <1>2 DEF vars, recordVars, ScheduleTyped
<1>3. CASE Tick
  <2>1. due' = Sooner(due) /\ UNCHANGED faults
    BY <1>3 DEF Tick
  <2>2. Longest \in Nat
    BY LongestIsNumber
  <2> QED BY <2>1, <2>2, DelaysShrink DEF ScheduleTyped
<1>4. CASE NewVersion \/ ForeignWrite
  BY <1>1, <1>4 DEF NewVersion, ForeignWrite, recordVars, ScheduleTyped
<1>5. ASSUME NEW p \in Procs, LoopStep(p) \/ Explicit(p) \/ Crash(p) \/ Close(p)
      PROVE  ScheduleTyped'
  BY <1>1, <1>5 DEF LoopStep, BeginCycle, TakeLease, LoseLease, Start, Explicit, Crash, Close,
     recordVars, ScheduleTyped
<1>6. ASSUME NEW t \in Tasks, Publish(t) \/ SettleFailure(t)
      PROVE  ScheduleTyped'
  <2>1. \E outcome \in {"success", "failure"}, count \in Nat, reading \in 0..Pause :
           due' = Remaining(Delay(outcome, count), reading)
    <3>1. 0 \in Nat /\ \A count \in 1..BackoffMax : count \in Nat
      BY ConstantsAreTyped
    <3> QED BY <1>6, <3>1 DEF Publish, SettleFailure
  <2> QED BY <1>1, <1>6, <2>1, DelayIsBounded DEF Publish, SettleFailure, ScheduleTyped
<1>7. ASSUME NEW t \in Tasks, TaskStep(t) \/ Cancel(t)
      PROVE  ScheduleTyped'
  BY <1>1, <1>6, <1>7 DEF TaskStep, Claim, LoseClaim, Materialize, SourceFails, FailPublication,
     SettleCancellation, AbandonSettlement, Cancel, recordVars, ScheduleTyped
<1> QED BY <1>2, <1>3, <1>4, <1>5, <1>7 DEF Next

\* The variables keep their types, the delay of the schedule among them: it
\* never exceeds the longest interval, however often a refresh failed
\* (update-schedule.ts, backoffDelayMs).
THEOREM TypeCorrect == Spec => []TypeOK
<1>1. Init => ScheduleTyped
  BY LongestIsNumber, ConstantsAreTyped DEF Init, ScheduleTyped
<1>2. IInv /\ ScheduleTyped => TypeOK
  BY DEF IInv, Types, Loops, States, ScheduleTyped, TypeOK
<1> QED BY <1>1, <1>2, NextSchedule, InductiveInvariant, PTL DEF Spec
=============================================================================
