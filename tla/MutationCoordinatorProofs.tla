--------------------- MODULE MutationCoordinatorProofs ---------------------
(***************************************************************************)
(* Proofs about MutationCoordinator, for any calls, processes, plugins and *)
(* values, and any number of replacements of the lock's files.             *)
(*                                                                         *)
(* What the two results rest on: a lease names files that existed, and no  *)
(* two calls hold the same ones (LeaseInv); what a call read stays part of *)
(* the log (SnapshotInv); a call that wrote is past its commit and the log *)
(* has grown beyond what it expected (WroteInv); a verdict that waits for  *)
(* the release is one the register allows (VerdictInv).  Last, no lease is *)
(* left behind.                                                            *)
(***************************************************************************)
EXTENDS MutationCoordinator, SequenceTheorems, TLAPS

Inside == Phases \ {"idle", "acquire", "settled", "crashed"}
Unwritten == {"own-prepare", "prepare", "own-check", "check", "own-commit", "commit"}
Reconciling == {"own-reconcile", "reconcile"}
Knowing == Unwritten \cup Reconciling

LeaseInv ==
    /\ \A c \in Calls : lease[c] # NoLease => lease[c] \in 0..epoch
    /\ \A c \in Calls : phase[c] \in Inside => lease[c] # NoLease
    /\ \A c, d \in Calls : lease[c] # NoLease /\ lease[c] = lease[d] => c = d

SnapshotInv ==
    \A c \in Calls : phase[c] \in Knowing =>
        expected[c] + 1 <= Len(log) /\ snapshot[c] = log[expected[c] + 1]

WroteInv ==
    \A c \in wrote :
        /\ phase[c] \in Reconciling \cup {"release", "settled", "crashed"}
        /\ phase[c] \in Reconciling => expected[c] + 1 < Len(log)

VerdictInv ==
    \A c \in Calls : phase[c] = "release" =>
        \/ c \in wrote /\ outcome[c] \in {"committed", "ambiguous"}
        \/ c \notin wrote /\ outcome[c] \in {"stale", "failed", "threw", "ambiguous"}
        \/ c \notin wrote /\ outcome[c] = "committed" /\ Register!Shown(c)

IInv == TypeOK /\ LeaseInv /\ SnapshotInv /\ WroteInv /\ VerdictInv

(* c writes and leaves its commit.                                         *)
Writes(c) == phase[c] = "commit" /\ WriteNext(c) /\ (Commit(c) \/ CommitError(c))

-----------------------------------------------------------------------------
LEMMA EffectType ==
    ASSUME NEW c \in Calls, NEW d \in Documents
    PROVE  Effect(c, d) \in Documents
BY ConstantsAreTyped DEF Effect, Documents

LEMMA ForgetType ==
    ASSUME TypeOK, NEW D, Forget(D)
    PROVE  /\ expected' \in [Calls -> Nat]
           /\ snapshot' \in [Calls -> Documents]
           /\ \A d \in Calls : d \notin D => expected'[d] = expected[d] /\ snapshot'[d] = snapshot[d]
BY ConstantsAreTyped DEF Forget, TypeOK, Documents

LEMMA InitIInv == Init => IInv
<1> SUFFICES ASSUME Init PROVE IInv
  OBVIOUS
<1>1. Initial \in Documents /\ 0 \in 0..MaxEpoch
  BY ConstantsAreTyped DEF Documents
<1>2. TypeOK
  BY <1>1 DEF Init, TypeOK, Phases, Outcomes
<1>3. LeaseInv /\ SnapshotInv /\ WroteInv /\ VerdictInv
  BY DEF Init, LeaseInv, SnapshotInv, WroteInv, VerdictInv, Inside, Knowing, Unwritten,
         Reconciling
<1> QED BY <1>2, <1>3 DEF IInv

-----------------------------------------------------------------------------
(* What a step may do to the log and to the calls that do not take it.     *)

(* c leaves its commit having written, or not.                             *)
LEMMA WriteNextEffect ==
    ASSUME IInv, NEW c \in Calls, phase[c] = "commit", WriteNext(c)
    PROVE  /\ log' = Append(log, Effect(c, snapshot[c]))
           /\ log' \in Seq(Documents)
           /\ Len(log') = Len(log) + 1
           /\ \A g \in 1..Len(log) : log'[g] = log[g]
           /\ log'[Len(log')] = Effect(c, snapshot[c])
           /\ Len(log) = expected[c] + 1 /\ snapshot[c] = log[Len(log)]
           /\ wrote' = wrote \cup {c}
<1>1. log \in Seq(Documents) /\ Len(log) \in Nat /\ expected[c] \in Nat
  BY DEF IInv, TypeOK
<1>2. Effect(c, snapshot[c]) \in Documents
  BY EffectType DEF IInv, TypeOK
<1>3. Len(log) = expected[c] + 1
  BY <1>1 DEF WriteNext, Generation
<1>4. snapshot[c] = log[Len(log)]
  BY <1>3 DEF IInv, SnapshotInv, Knowing, Unwritten
<1> QED BY <1>1, <1>2, <1>3, <1>4 DEF WriteNext

-----------------------------------------------------------------------------
(* One lemma for each conjunct of the invariant.                           *)

LEMMA TypeStep == IInv /\ [Next]_vars => TypeOK'
<1> SUFFICES ASSUME IInv, [Next]_vars PROVE TypeOK'
  OBVIOUS
<1> USE DEF IInv, TypeOK
<1>1. ASSUME NEW c \in Calls, NEW g \in 0..Len(log), Call(c, g)
      PROVE  TypeOK'
  BY <1>1 DEF Call, Goto, Phases
<1>2. ASSUME NEW c \in Calls, AcquireLock(c)
      PROVE  TypeOK'
  BY <1>2 DEF AcquireLock, Goto, Phases
<1>3. ASSUME NEW c \in Calls, AssertOwned(c)
      PROVE  TypeOK'
  BY <1>3 DEF AssertOwned, Guarded, Goto, Phases
<1>4. ASSUME NEW c \in Calls, Read(c) \/ Prepare(c) \/ BeforeCommit(c)
      PROVE  TypeOK'
  <2>1. Current \in Documents
    BY DEF Current
  <2> QED BY <1>4, <2>1 DEF Read, Prepare, BeforeCommit, Conclude, Goto, Phases, Outcomes
<1>5. ASSUME NEW c \in Calls, Throw(c)
      PROVE  TypeOK'
  <2>1. /\ outcome' = [outcome EXCEPT ![c] = "threw"]
        /\ phase' \in {[phase EXCEPT ![c] = p] : p \in {"settled", "release"}}
        /\ UNCHANGED <<log, epoch, lease, locked, wrote>>
    BY <1>5 DEF Throw, Goto
  <2>2. Forget({c}) \/ UNCHANGED <<expected, snapshot>>
    BY <1>5 DEF Throw
  <2>3. expected' \in [Calls -> Nat] /\ snapshot' \in [Calls -> Documents]
    BY <2>2, ForgetType
  <2> QED BY <2>1, <2>3 DEF Phases, Outcomes
<1>6. ASSUME NEW c \in Calls, Commit(c) \/ CommitError(c)
      PROVE  TypeOK'
  <2>1. phase[c] = "commit"
    BY <1>6 DEF Commit, CommitError
  <2>2. CASE WriteNext(c)
    <3>1. log' \in Seq(Documents) /\ Len(log') > 0 /\ wrote' \in SUBSET Calls
      BY <2>1, <2>2, WriteNextEffect
    <3> QED BY <1>6, <3>1 DEF Commit, CommitError, Conclude, Goto, Phases, Outcomes
  <2>3. CASE UNCHANGED <<log, wrote>>
    BY <1>6, <2>3 DEF Commit, CommitError, Conclude, Goto, Phases, Outcomes
  <2> QED BY <1>6, <2>2, <2>3 DEF Commit, CommitError
<1>7. ASSUME NEW c \in Calls, Reconcile(c) \/ GiveUp(c)
      PROVE  TypeOK'
  BY <1>7 DEF Reconcile, GiveUp, Verdict, Conclude, Goto, Phases, Outcomes
<1>8. ASSUME NEW c \in Calls, Release(c) \/ ReleaseError(c)
      PROVE  TypeOK'
  <2>1. expected' \in [Calls -> Nat] /\ snapshot' \in [Calls -> Documents]
    BY <1>8, ForgetType DEF Release, ReleaseError
  <2> QED BY <1>8, <2>1 DEF Release, ReleaseError, Goto, Phases
<1>9. ASSUME NEW c \in Calls, Crash(ProcessOf[c])
      PROVE  TypeOK'
  <2>1. expected' \in [Calls -> Nat] /\ snapshot' \in [Calls -> Documents]
    BY <1>9, ForgetType DEF Crash
  <2> QED BY <1>9, <2>1 DEF Crash, Phases, Outcomes
<1>10. CASE ReplaceLock
  BY <1>10, ConstantsAreTyped DEF ReplaceLock
<1>11. CASE UNCHANGED vars
  BY <1>11 DEF vars
<1> QED BY <1>1, <1>2, <1>3, <1>4, <1>5, <1>6, <1>7, <1>8, <1>9, <1>10, <1>11 DEF Next, Step

LEMMA LeaseStep == IInv /\ [Next]_vars => LeaseInv'
<1> SUFFICES ASSUME IInv, [Next]_vars PROVE LeaseInv'
  OBVIOUS
<1> USE DEF LeaseInv, Inside, Goto
<1>0. /\ LeaseInv /\ epoch \in Nat /\ NoLease \notin Nat
      /\ phase \in [Calls -> Phases] /\ lease \in [Calls -> Nat \cup {NoLease}]
  BY ConstantsAreTyped DEF IInv, TypeOK
<1>1. ASSUME NEW c \in Calls, NEW g \in 0..Len(log), Call(c, g)
      PROVE  LeaseInv'
  BY <1>0, <1>1 DEF Call
<1>2. ASSUME NEW c \in Calls, AcquireLock(c)
      PROVE  LeaseInv'
  BY <1>0, <1>2 DEF AcquireLock, Free
<1>3. ASSUME NEW c \in Calls, AssertOwned(c)
      PROVE  LeaseInv'
  <2>1. phase[c] \in Inside
    BY <1>3 DEF AssertOwned, Guarded, Phases
  <2> QED BY <1>0, <1>3, <2>1 DEF AssertOwned
<1>4. ASSUME NEW c \in Calls, Read(c) \/ Prepare(c) \/ BeforeCommit(c) \/ Commit(c)
                 \/ CommitError(c) \/ Reconcile(c) \/ GiveUp(c)
      PROVE  LeaseInv'
  <2>1. phase[c] \in Inside /\ UNCHANGED <<lease, epoch>>
        /\ \A d \in Calls : d # c => phase'[d] = phase[d]
    BY <1>0, <1>4 DEF Read, Prepare, BeforeCommit, Commit, CommitError, Reconcile, GiveUp,
                      Conclude, Phases
  <2> QED BY <1>0, <2>1
<1>5. ASSUME NEW c \in Calls, Throw(c)
      PROVE  LeaseInv'
  <2>1. UNCHANGED <<lease, epoch>> /\ \A d \in Calls : d # c => phase'[d] = phase[d]
    BY <1>0, <1>5 DEF Throw
  <2>2. phase'[c] \in Inside => lease[c] # NoLease
    BY <1>0, <1>5 DEF Throw
  <2> QED BY <1>0, <2>1, <2>2
<1>8. ASSUME NEW c \in Calls, Release(c) \/ ReleaseError(c)
      PROVE  LeaseInv'
  BY <1>0, <1>8 DEF Release, ReleaseError
<1>9. ASSUME NEW c \in Calls, Crash(ProcessOf[c])
      PROVE  LeaseInv'
  <2>1. /\ epoch' = epoch
        /\ \A d \in Calls : \/ phase'[d] = phase[d] /\ lease'[d] = lease[d]
                            \/ phase'[d] \notin Inside /\ lease'[d] = NoLease
    BY <1>0, <1>9 DEF Crash, Active, Phases
  <2> QED BY <1>0, <2>1
<1>10. CASE ReplaceLock
  BY <1>0, <1>10 DEF ReplaceLock
<1>11. CASE UNCHANGED vars
  BY <1>0, <1>11 DEF vars
<1> QED BY <1>1, <1>2, <1>3, <1>4, <1>5, <1>8, <1>9, <1>10, <1>11 DEF Next, Step

(* The log only grows, and only a call at its commit extends it.           *)
LEMMA LogStep ==
    ASSUME IInv, [Next]_vars
    PROVE  /\ UNCHANGED <<log, wrote>> \/ \E c \in Calls : Writes(c)
           /\ Len(log) \in Nat /\ Len(log') \in Nat /\ Len(log) <= Len(log')
           /\ \A g \in 1..Len(log) : log'[g] = log[g]
<1>1. UNCHANGED <<log, wrote>> \/ \E c \in Calls : Writes(c)
  BY DEF Next, Step, Call, AcquireLock, AssertOwned, Read, Prepare, BeforeCommit, Throw, Commit,
         CommitError, Reconcile, GiveUp, Release, ReleaseError, Crash, ReplaceLock, vars, Writes
<1>2. Len(log) \in Nat
  BY DEF IInv, TypeOK
<1> QED BY <1>1, <1>2, WriteNextEffect DEF Writes

(* A call that goes on after its read has kept what it read, or just read. *)
LEMMA KnowingStep ==
    ASSUME IInv, [Next]_vars, NEW d \in Calls, phase'[d] \in Knowing
    PROVE  /\ expected'[d] = expected[d]
           /\ \/ phase[d] \in Knowing /\ snapshot'[d] = snapshot[d]
              \/ /\ phase[d] = "read" /\ UNCHANGED log
                 /\ Generation = expected[d] /\ snapshot'[d] = Current
           /\ phase'[d] \in Unwritten => phase[d] \in Unwritten \cup {"read"}
<1> USE DEF Knowing, Unwritten, Reconciling, Goto
<1> DEFINE Stays == /\ phase[d] \in Knowing
                    /\ phase'[d] \in Unwritten => phase[d] \in Unwritten
                    /\ expected'[d] = expected[d] /\ snapshot'[d] = snapshot[d]
<1>0. /\ TypeOK
      /\ phase \in [Calls -> Phases] /\ expected \in [Calls -> Nat]
      /\ snapshot \in [Calls -> Documents]
  BY DEF IInv, TypeOK
<1>1. ASSUME NEW c \in Calls, NEW g \in 0..Len(log), Call(c, g)
      PROVE  Stays
  BY <1>0, <1>1 DEF Call
<1>2. ASSUME NEW c \in Calls,
             \/ AcquireLock(c) \/ Prepare(c) \/ BeforeCommit(c)
             \/ Commit(c) \/ CommitError(c) \/ Reconcile(c) \/ GiveUp(c)
      PROVE  Stays
  <2>1. UNCHANGED <<expected, snapshot>>
    BY <1>2 DEF AcquireLock, Prepare, BeforeCommit, Commit, CommitError, Reconcile, GiveUp
  <2>2. /\ phase[d] \in Knowing
        /\ phase'[d] \in Unwritten => phase[d] \in Unwritten
    BY <1>0, <1>2 DEF AcquireLock, Prepare, BeforeCommit, Commit, CommitError, Reconcile,
                      GiveUp, Conclude
  <2> QED BY <2>1, <2>2
<1>3. ASSUME NEW c \in Calls, AssertOwned(c)
      PROVE  Stays
  BY <1>0, <1>3 DEF AssertOwned, Guarded
<1>4. ASSUME NEW c \in Calls, Read(c)
      PROVE  /\ expected'[d] = expected[d]
             /\ \/ phase[d] \in Knowing /\ snapshot'[d] = snapshot[d]
                \/ /\ phase[d] = "read" /\ UNCHANGED log
                   /\ Generation = expected[d] /\ snapshot'[d] = Current
             /\ phase'[d] \in Unwritten => phase[d] \in Unwritten \cup {"read"}
  BY <1>0, <1>4 DEF Read, Conclude
<1>5. ASSUME NEW c \in Calls, Throw(c) \/ Release(c) \/ ReleaseError(c)
      PROVE  Stays
  <2>1. d # c /\ phase'[d] = phase[d]
    BY <1>0, <1>5 DEF Throw, Release, ReleaseError
  <2>2. Forget({c}) \/ UNCHANGED <<expected, snapshot>>
    BY <1>5 DEF Throw, Release, ReleaseError
  <2> QED BY <1>0, <2>1, <2>2, ForgetType
<1>6. ASSUME NEW c \in Calls, Crash(ProcessOf[c])
      PROVE  Stays
  <2> DEFINE Dead == {e \in Calls : ProcessOf[e] = ProcessOf[c]}
  <2>1. phase'[d] = IF d \in Dead /\ Active(d) THEN "crashed" ELSE phase[d]
    BY <1>6 DEF Crash
  <2>2. d \notin Dead /\ phase[d] \in Knowing /\ phase'[d] = phase[d]
    BY <2>1 DEF Active
  <2>3. Forget(Dead)
    BY <1>6 DEF Crash
  <2> QED BY <1>0, <2>2, <2>3, ForgetType
<1>7. CASE ReplaceLock \/ UNCHANGED vars
  BY <1>7 DEF ReplaceLock, vars
<1> QED BY <1>1, <1>2, <1>3, <1>4, <1>5, <1>6, <1>7 DEF Next, Step

LEMMA SnapshotStep == IInv /\ [Next]_vars => SnapshotInv'
<1> SUFFICES ASSUME IInv, [Next]_vars, NEW d \in Calls, phase'[d] \in Knowing
             PROVE  expected'[d] + 1 <= Len(log') /\ snapshot'[d] = log'[expected'[d] + 1]
  BY DEF SnapshotInv
<1>1. expected[d] \in Nat
  BY DEF IInv, TypeOK
<1>2. expected[d] + 1 <= Len(log) /\ snapshot'[d] = log[expected[d] + 1]
  <2>1. CASE phase[d] \in Knowing /\ snapshot'[d] = snapshot[d]
    BY <2>1 DEF IInv, SnapshotInv
  <2>2. CASE Generation = expected[d] /\ snapshot'[d] = Current
    BY <1>1, <2>2, LogStep DEF Generation, Current
  <2> QED BY <2>1, <2>2, KnowingStep
<1> QED BY <1>1, <1>2, LogStep, KnowingStep

-----------------------------------------------------------------------------
(* A call that may have written stays past its commit.                     *)
LEMMA WroteStep == IInv /\ [Next]_vars => WroteInv'
<1> SUFFICES ASSUME IInv, [Next]_vars, NEW d \in wrote'
             PROVE  /\ phase'[d] \in Reconciling \cup {"release", "settled", "crashed"}
                    /\ phase'[d] \in Reconciling => expected'[d] + 1 < Len(log')
  BY DEF WroteInv
<1> USE DEF Reconciling, Goto
<1>0. /\ phase \in [Calls -> Phases] /\ wrote \in SUBSET Calls
      /\ expected \in [Calls -> Nat]
  BY DEF IInv, TypeOK
<1>1. CASE d \notin wrote
  <2>1. PICK c \in Calls : Writes(c)
    BY <1>1, LogStep
  <2>2. /\ wrote' = wrote \cup {c} /\ Len(log') = Len(log) + 1 /\ Len(log) = expected[c] + 1
        /\ Len(log) \in Nat
    BY <2>1, WriteNextEffect, LogStep DEF Writes
  <2>3. d = c
    BY <1>1, <2>2
  <2>4. phase'[c] \in {"release", "own-reconcile"} /\ expected' = expected
    BY <1>0, <2>1 DEF Writes, Commit, CommitError, Conclude
  <2> QED BY <1>0, <2>2, <2>3, <2>4
<1>2. CASE d \in wrote
  <2>1. /\ d \in Calls /\ phase[d] \in Reconciling \cup {"release", "settled", "crashed"}
        /\ phase[d] \in Reconciling => expected[d] + 1 < Len(log)
    BY <1>0, <1>2 DEF IInv, WroteInv
  <2>2. phase'[d] \in Reconciling \cup {"release", "settled", "crashed"}
    <3>1. ASSUME NEW c \in Calls, NEW g \in 0..Len(log), Call(c, g)
          PROVE  phase'[d] = phase[d]
      BY <1>0, <2>1, <3>1 DEF Call
    <3>2. ASSUME NEW c \in Calls, AssertOwned(c)
          PROVE  phase'[d] \in {phase[d], "reconcile"}
      BY <1>0, <2>1, <3>2 DEF AssertOwned, Guarded
    <3>3. ASSUME NEW c \in Calls,
                 \/ AcquireLock(c) \/ Read(c) \/ Prepare(c) \/ BeforeCommit(c)
                 \/ Throw(c) \/ Commit(c) \/ CommitError(c)
          PROVE  phase'[d] = phase[d]
      BY <1>0, <2>1, <3>3 DEF AcquireLock, Read, Prepare, BeforeCommit, Throw, Commit,
                              CommitError, Conclude
    <3>4. ASSUME NEW c \in Calls,
                 Reconcile(c) \/ GiveUp(c) \/ Release(c) \/ ReleaseError(c)
          PROVE  phase'[d] \in {phase[d], "release", "settled"}
      BY <1>0, <2>1, <3>4 DEF Reconcile, GiveUp, Release, ReleaseError, Conclude
    <3>5. ASSUME NEW c \in Calls, Crash(ProcessOf[c])
          PROVE  phase'[d] \in {phase[d], "crashed"}
      BY <2>1, <3>5 DEF Crash
    <3>6. CASE ReplaceLock \/ UNCHANGED vars
      BY <2>1, <3>6 DEF ReplaceLock, vars
    <3> QED BY <2>1, <3>1, <3>2, <3>3, <3>4, <3>5, <3>6 DEF Next, Step
  <2>3. ASSUME phase'[d] \in Reconciling
        PROVE  expected'[d] + 1 < Len(log')
    <3>1. phase'[d] \in Knowing /\ phase[d] # "read"
      BY <2>1, <2>3 DEF Knowing
    <3>2. phase[d] \in Reconciling /\ expected'[d] = expected[d]
      BY <2>1, <3>1, KnowingStep DEF Knowing, Unwritten
    <3> QED BY <1>0, <2>1, <3>2, LogStep
  <2> QED BY <2>2, <2>3
<1> QED BY <1>1, <1>2

-----------------------------------------------------------------------------
(* A verdict that waits for the release is true, and stays true.           *)
LEMMA ShownStays ==
    ASSUME IInv, [Next]_vars, NEW c \in Calls, Register!Shown(c)
    PROVE  Register!Shown(c)'
<1>1. PICK g \in 2..Len(log) : log[g] = Effect(c, log[g - 1])
  BY DEF Register!Shown
<1>2. g \in 2..Len(log') /\ log'[g] = log[g] /\ log'[g - 1] = log[g - 1]
  BY LogStep
<1> QED BY <1>1, <1>2 DEF Register!Shown, Effect

LEMMA VerdictStep == IInv /\ [Next]_vars => VerdictInv'
<1> SUFFICES ASSUME IInv, [Next]_vars, NEW d \in Calls, phase'[d] = "release"
             PROVE  \/ d \in wrote' /\ outcome'[d] \in {"committed", "ambiguous"}
                    \/ d \notin wrote' /\ outcome'[d] \in {"stale", "failed", "threw", "ambiguous"}
                    \/ d \notin wrote' /\ outcome'[d] = "committed" /\ Register!Shown(d)'
  BY DEF VerdictInv
<1> DEFINE Concludes(c) == \/ Read(c) \/ Throw(c) \/ Commit(c) \/ Reconcile(c) \/ GiveUp(c)
<1>0. /\ phase \in [Calls -> Phases] /\ outcome \in [Calls -> Outcomes]
      /\ wrote \in SUBSET Calls /\ expected \in [Calls -> Nat]
  BY DEF IInv, TypeOK
<1>1. CASE phase[d] = "release" /\ outcome'[d] = outcome[d]
  <2>1. d \in wrote' <=> d \in wrote
    BY <1>1, LogStep, WriteNextEffect DEF Writes
  <2> QED BY <1>1, <2>1, ShownStays DEF IInv, VerdictInv
<1>2. CASE Read(d) \/ Throw(d)
  <2>1. d \notin wrote /\ wrote' = wrote
    BY <1>0, <1>2 DEF IInv, WroteInv, Reconciling, Read, Throw
  <2>2. outcome'[d] \in {"stale", "threw"}
    BY <1>0, <1>2 DEF Read, Throw, Conclude, Goto
  <2> QED BY <2>1, <2>2
<1>3. CASE Commit(d)
  <2>1. phase[d] = "commit" /\ d \notin wrote
    BY <1>0, <1>3 DEF IInv, WroteInv, Reconciling, Commit
  <2>2. CASE WriteNext(d) /\ Conclude(d, "committed")
    BY <1>0, <2>1, <2>2, WriteNextEffect DEF Conclude
  <2>3. CASE Conclude(d, "stale") /\ UNCHANGED <<log, wrote>>
    BY <1>0, <2>1, <2>3 DEF Conclude
  <2> QED BY <1>3, <2>2, <2>3 DEF Commit
<1>4. CASE Reconcile(d)
  <2>1. /\ phase[d] = "reconcile" /\ outcome'[d] = Verdict(d)
        /\ UNCHANGED <<log, wrote>>
    BY <1>0, <1>4 DEF Reconcile, Conclude
  <2>2. CASE d \in wrote
    <3>1. Generation # expected[d]
      BY <1>0, <2>1, <2>2, LogStep DEF IInv, WroteInv, Reconciling, Generation
    <3> QED BY <2>1, <2>2, <3>1 DEF Verdict
  <2>3. CASE d \notin wrote /\ Proven(d)
    <3>1. snapshot[d] = log[expected[d] + 1]
      BY <2>1 DEF IInv, SnapshotInv, Knowing, Reconciling
    <3>2. Len(log) \in 2..Len(log) /\ log[Len(log)] = Effect(d, log[Len(log) - 1])
      BY <1>0, <2>3, <3>1, LogStep DEF Proven, Generation, Current
    <3>3. Register!Shown(d)
      BY <3>2 DEF Register!Shown
    <3> QED BY <2>1, <2>3, <3>3, ShownStays DEF Verdict
  <2>4. CASE d \notin wrote /\ ~Proven(d)
    BY <2>1, <2>4 DEF Verdict
  <2> QED BY <2>2, <2>3, <2>4
<1>5. CASE GiveUp(d)
  BY <1>0, <1>5 DEF GiveUp, Conclude
<1>6. CASE \A c \in Calls : Concludes(c) => c # d
  <2>1. ASSUME NEW c \in Calls, Concludes(c)
        PROVE  phase[d] = "release" /\ outcome'[d] = outcome[d]
    BY <1>0, <1>6, <2>1 DEF Read, Throw, Commit, Reconcile, GiveUp, Conclude, Goto
  <2>2. ASSUME NEW c \in Calls, NEW g \in 0..Len(log), Call(c, g)
        PROVE  phase[d] = "release" /\ outcome'[d] = outcome[d]
    BY <1>0, <2>2 DEF Call, Goto
  <2>3. ASSUME NEW c \in Calls, AssertOwned(c)
        PROVE  phase[d] = "release" /\ outcome'[d] = outcome[d]
    BY <1>0, <2>3 DEF AssertOwned, Guarded, Goto
  <2>4. ASSUME NEW c \in Calls,
               \/ AcquireLock(c) \/ Prepare(c) \/ BeforeCommit(c) \/ CommitError(c)
               \/ Release(c) \/ ReleaseError(c)
        PROVE  phase[d] = "release" /\ outcome'[d] = outcome[d]
    BY <1>0, <2>4 DEF AcquireLock, Prepare, BeforeCommit, CommitError, Release, ReleaseError,
                      Goto
  <2>5. ASSUME NEW c \in Calls, Crash(ProcessOf[c])
        PROVE  phase[d] = "release" /\ outcome'[d] = outcome[d]
    BY <2>5 DEF Crash
  <2>6. CASE ReplaceLock \/ UNCHANGED vars
    BY <1>1, <2>6 DEF ReplaceLock, vars
  <2> QED BY <1>1, <2>1, <2>2, <2>3, <2>4, <2>5, <2>6 DEF Next, Step
<1> QED BY <1>2, <1>3, <1>4, <1>5, <1>6

-----------------------------------------------------------------------------
LEMMA NextIInv == IInv /\ [Next]_vars => IInv'
BY TypeStep, LeaseStep, SnapshotStep, WroteStep, VerdictStep DEF IInv

(* In every reachable state leases, snapshots, writes and verdicts agree.  *)
THEOREM InductiveInvariant == Spec => []IInv
BY InitIInv, NextIInv, PTL DEF Spec

(* Every variable keeps the type declared for it.                          *)
THEOREM TypeCorrect == Spec => []TypeOK
<1>1. IInv => TypeOK
  BY DEF IInv
<1> QED BY <1>1, InductiveInvariant, PTL

-----------------------------------------------------------------------------
(* As long as the lock's files are those of the start, the documents that  *)
(* a callback sees are those its mutation replaces, and a failed commit    *)
(* can be told from a durable one, for any number of processes.            *)
THEOREM LeaseFreezesStateHolds == Spec => []LeaseFreezesState
<1>1. Init => LeaseFreezesState
  BY DEF Init, LeaseFreezesState
<1>2. IInv /\ LeaseFreezesState /\ [Next]_vars => LeaseFreezesState'
  <2> SUFFICES ASSUME IInv, LeaseFreezesState, [Next]_vars, epoch' = 0, NEW d \in Calls,
                      phase'[d] \in Knowing
               PROVE  /\ phase'[d] \in Unwritten =>
                           Len(log') - 1 = expected'[d] /\ log'[Len(log')] = snapshot'[d]
                      /\ phase'[d] \in Reconciling =>
                           \/ Len(log') - 1 = expected'[d] /\ log'[Len(log')] = snapshot'[d]
                           \/ Proven(d)'
    BY DEF LeaseFreezesState, Knowing, Unwritten, Reconciling, Generation, Current
  <2>0. epoch' = epoch \/ epoch' = epoch + 1
    BY DEF Next, Step, Call, AcquireLock, AssertOwned, Read, Prepare, BeforeCommit, Throw,
           Commit, CommitError, Reconcile, GiveUp, Release, ReleaseError, Crash, ReplaceLock,
           vars
  <2>1. epoch = 0
    BY <2>0, ConstantsAreTyped DEF IInv, TypeOK
  <2>2. CASE UNCHANGED log
    <3>1. CASE phase[d] \in Knowing /\ snapshot'[d] = snapshot[d]
      BY <2>1, <2>2, <3>1, KnowingStep
         DEF LeaseFreezesState, Knowing, Unwritten, Reconciling, Generation, Current, Proven,
             Effect
    <3>2. CASE Generation = expected[d] /\ snapshot'[d] = Current
      BY <2>2, <3>2, KnowingStep DEF Generation, Current
    <3> QED BY <3>1, <3>2, KnowingStep
  <2>3. CASE log' # log
    <3>1. PICK c \in Calls : Writes(c)
      BY <2>3, LogStep
    <3>2. /\ phase'[c] \in {"release", "own-reconcile"}
          /\ \A e \in Calls : e # c => phase'[e] = phase[e]
          /\ UNCHANGED <<expected, snapshot>>
      BY <3>1 DEF IInv, TypeOK, Writes, Commit, CommitError, Conclude, Goto
    <3>3. d = c
      <4>1. \A e \in Calls : phase[e] \in Inside => lease[e] = 0
        BY <2>1 DEF IInv, LeaseInv
      <4>2. phase[c] \in Inside /\ (d # c => phase[d] \in Inside)
        BY <3>1, <3>2 DEF Writes, Inside, Phases, Knowing, Unwritten, Reconciling
      <4>3. 0 # NoLease
        BY ConstantsAreTyped
      <4> QED BY <4>1, <4>2, <4>3 DEF IInv, LeaseInv
    <3>4. Proven(c)'
      BY <3>1, <3>2, WriteNextEffect, LogStep DEF Writes, Proven, Generation, Current, Effect
    <3> QED BY <3>2, <3>3, <3>4 DEF Unwritten
  <2> QED BY <2>2, <2>3
<1> QED BY <1>1, <1>2, InductiveInvariant, PTL DEF Spec

-----------------------------------------------------------------------------
(* The coordinator implements the register.                                *)

Ended == {"settled", "crashed"}

LEMMA InitRefines == Init => Register!Init
BY DEF Init, Register!Init, AbstractVerdict

(* Steps between the call and its end, without a write, are not seen.      *)
LEMMA HiddenStep ==
    ASSUME UNCHANGED <<log, wrote>>,
           \A d \in Calls : \/ phase[d] \notin Ended /\ phase'[d] \notin Ended
                            \/ phase'[d] = phase[d] /\ outcome'[d] = outcome[d]
    PROVE  UNCHANGED <<log, AbstractVerdict>>
BY DEF AbstractVerdict, Ended

(* The last step of a call tells its caller the verdict.                   *)
LEMMA SettleStep ==
    ASSUME IInv, NEW c \in Calls, phase[c] \notin Ended, phase'[c] = "settled",
           UNCHANGED <<log, wrote>>,
           \A d \in Calls : d # c => phase'[d] = phase[d] /\ outcome'[d] = outcome[d],
           \/ c \in wrote /\ outcome'[c] \in {"committed", "ambiguous"}
           \/ c \notin wrote /\ outcome'[c] \in {"stale", "failed", "threw", "ambiguous"}
           \/ c \notin wrote /\ outcome'[c] = "committed" /\ Register!Shown(c)
    PROVE  Register!Next
<1>1. AbstractVerdict' = [AbstractVerdict EXCEPT ![c] = outcome'[c]]
  BY DEF AbstractVerdict, Ended
<1>2. AbstractVerdict[c] = IF c \in wrote THEN "written" ELSE "open"
  BY DEF AbstractVerdict, Ended
<1>3. Register!Settle(c, outcome'[c]) /\ outcome'[c] \in Register!Verdicts
  BY <1>1, <1>2 DEF Register!Settle, Register!Verdicts
<1> QED BY <1>3 DEF Register!Next

LEMMA StepRefines == IInv /\ [Next]_vars => [Register!Next]_<<log, AbstractVerdict>>
<1> SUFFICES ASSUME IInv, [Next]_vars
             PROVE  Register!Next \/ UNCHANGED <<log, AbstractVerdict>>
  OBVIOUS
<1> USE DEF Ended, Goto
<1>0. /\ phase \in [Calls -> Phases] /\ outcome \in [Calls -> Outcomes]
      /\ wrote \in SUBSET Calls
  BY DEF IInv, TypeOK
<1>1. ASSUME NEW c \in Calls, NEW g \in 0..Len(log), Call(c, g)
      PROVE  UNCHANGED <<log, AbstractVerdict>>
  BY <1>0, <1>1, HiddenStep DEF Call
<1>2. ASSUME NEW c \in Calls,
             \/ AcquireLock(c) \/ Read(c) \/ Prepare(c) \/ BeforeCommit(c) \/ Reconcile(c)
             \/ GiveUp(c)
      PROVE  UNCHANGED <<log, AbstractVerdict>>
  BY <1>0, <1>2, HiddenStep DEF AcquireLock, Read, Prepare, BeforeCommit, Reconcile, GiveUp,
                                Conclude
<1>3. ASSUME NEW c \in Calls, AssertOwned(c)
      PROVE  UNCHANGED <<log, AbstractVerdict>>
  BY <1>0, <1>3, HiddenStep DEF AssertOwned, Guarded
<1>4. ASSUME NEW c \in Calls, Throw(c)
      PROVE  Register!Next \/ UNCHANGED <<log, AbstractVerdict>>
  <2>1. c \notin wrote /\ phase[c] \notin Ended /\ UNCHANGED <<log, wrote>>
    BY <1>0, <1>4 DEF IInv, WroteInv, Reconciling, Throw
  <2>2. outcome'[c] = "threw" /\ phase'[c] \in {"settled", "release"}
    BY <1>0, <1>4 DEF Throw
  <2>3. \A d \in Calls : d # c => phase'[d] = phase[d] /\ outcome'[d] = outcome[d]
    BY <1>0, <1>4 DEF Throw
  <2>4. CASE phase'[c] = "settled"
    BY <2>1, <2>2, <2>3, <2>4, SettleStep
  <2>5. CASE phase'[c] = "release"
    BY <2>1, <2>3, <2>5, HiddenStep
  <2> QED BY <2>2, <2>4, <2>5
<1>5. ASSUME NEW c \in Calls, Commit(c) \/ CommitError(c)
      PROVE  Register!Next \/ UNCHANGED <<log, AbstractVerdict>>
  <2>1. /\ phase[c] = "commit" /\ phase'[c] \in {"release", "own-reconcile"}
        /\ \A d \in Calls : d # c => phase'[d] = phase[d] /\ outcome'[d] = outcome[d]
    BY <1>0, <1>5 DEF Commit, CommitError, Conclude
  <2>2. CASE WriteNext(c)
    <3>1. log' = Append(log, Effect(c, log[Len(log)])) /\ wrote' = wrote \cup {c}
      BY <2>1, <2>2, WriteNextEffect
    <3>2. AbstractVerdict[c] = "open"
      BY <2>1 DEF AbstractVerdict, IInv, WroteInv, Reconciling
    <3>3. AbstractVerdict' = [AbstractVerdict EXCEPT ![c] = "written"]
      BY <2>1, <3>1 DEF AbstractVerdict
    <3> QED BY <3>1, <3>2, <3>3 DEF Register!Next, Register!Write
  <2>3. CASE UNCHANGED <<log, wrote>>
    BY <2>1, <2>3, HiddenStep
  <2> QED BY <1>5, <2>2, <2>3 DEF Commit, CommitError
<1>6. ASSUME NEW c \in Calls, Release(c) \/ ReleaseError(c)
      PROVE  Register!Next
  <2>1. /\ phase[c] = "release" /\ phase'[c] = "settled"
        /\ UNCHANGED <<log, wrote, outcome>>
        /\ \A d \in Calls : d # c => phase'[d] = phase[d]
    BY <1>0, <1>6 DEF Release, ReleaseError
  <2>2. \/ c \in wrote /\ outcome[c] \in {"committed", "ambiguous"}
        \/ c \notin wrote /\ outcome[c] \in {"stale", "failed", "threw", "ambiguous"}
        \/ c \notin wrote /\ outcome[c] = "committed" /\ Register!Shown(c)
    BY <2>1 DEF IInv, VerdictInv
  <2> QED BY <2>1, <2>2, SettleStep
<1>7. ASSUME NEW c \in Calls, Crash(ProcessOf[c])
      PROVE  Register!Next
  <2> DEFINE D == {d \in Calls : ProcessOf[d] = ProcessOf[c] /\ Active(d)}
  <2>1. /\ UNCHANGED <<log, wrote>>
        /\ \A d \in Calls : phase'[d] = IF d \in D THEN "crashed" ELSE phase[d]
        /\ \A d \in Calls : outcome'[d] = IF d \in D THEN "none" ELSE outcome[d]
    BY <1>7 DEF Crash
  <2>2. \A d \in D : AbstractVerdict[d] \in {"open", "written"}
    BY DEF AbstractVerdict, Active
  <2>3. AbstractVerdict' = [d \in Calls |-> IF d \in D THEN "crashed" ELSE AbstractVerdict[d]]
    BY <2>1 DEF AbstractVerdict
  <2>4. Register!Crash(D) /\ D \in SUBSET Calls
    BY <2>1, <2>2, <2>3 DEF Register!Crash
  <2> QED BY <2>4 DEF Register!Next
<1>8. CASE ReplaceLock \/ UNCHANGED vars
  BY <1>8, HiddenStep DEF ReplaceLock, vars
<1> QED BY <1>1, <1>2, <1>3, <1>4, <1>5, <1>6, <1>7, <1>8 DEF Next, Step

(* The scope is a register that mutations change one at a time, and no     *)
(* verdict hides a durable write, whatever fails, crashes or is replaced,  *)
(* for any number of calls and processes.                                  *)
THEOREM TruthfulRegisterHolds == Spec => TruthfulRegister
BY InitRefines, StepRefines, InductiveInvariant, PTL DEF Spec, TruthfulRegister, Register!Spec

-----------------------------------------------------------------------------
(* Nobody waits for a lease that was left behind: whoever has one is on    *)
(* its way to the release, or its release has failed.                      *)
LeasesAreReturned ==
    \A c \in Calls : lease[c] # NoLease => phase[c] \in Inside \/ c \in locked

(* The lock is free for the calls that wait for it, or somebody works.     *)
LockIsInUse ==
    locked = {} => Free \/ \E d \in Calls : lease[d] = epoch /\ phase[d] \in Inside

LEMMA LeasesStep ==
    ASSUME TypeOK, LeasesAreReturned, [Next]_vars
    PROVE  LeasesAreReturned'
<1>1. CASE UNCHANGED vars
  BY <1>1 DEF vars, LeasesAreReturned
<1>2. ASSUME NEW c \in Calls, NEW p \in Inside, Goto(c, p), UNCHANGED <<lease, locked>>
      PROVE  LeasesAreReturned'
  BY <1>2 DEF TypeOK, Goto, LeasesAreReturned
<1>3. ASSUME NEW c \in Calls, NEW g, Call(c, g)
      PROVE  LeasesAreReturned'
  BY <1>3 DEF TypeOK, Call, Goto, LeasesAreReturned, Inside
<1>4. ASSUME NEW c \in Calls, AcquireLock(c)
      PROVE  LeasesAreReturned'
  BY <1>4 DEF TypeOK, AcquireLock, Goto, LeasesAreReturned, Inside, Phases
<1>5. ASSUME NEW c \in Calls, Read(c) \/ Prepare(c) \/ BeforeCommit(c) \/ Commit(c)
                              \/ CommitError(c) \/ Reconcile(c) \/ GiveUp(c)
      PROVE  LeasesAreReturned'
  <2>1. {"own-prepare", "own-check", "commit", "own-commit", "own-reconcile", "release"} \subseteq Inside
    BY DEF Inside, Phases
  <2>2. UNCHANGED <<lease, locked>> /\ \E p \in Inside : Goto(c, p)
    BY <1>5, <2>1 DEF Read, Prepare, BeforeCommit, Commit, CommitError, Reconcile, GiveUp, Conclude
  <2> QED BY <1>2, <2>2
<1>6. ASSUME NEW c \in Calls, AssertOwned(c)
      PROVE  LeasesAreReturned'
  <2>1. UNCHANGED <<lease, locked>> /\ \E step \in Guarded : Goto(c, step[2])
    BY <1>6 DEF AssertOwned
  <2>2. \A step \in Guarded : step[2] \in Inside
    BY DEF Guarded, Inside, Phases
  <2> QED BY <1>2, <2>1, <2>2
<1>7. ASSUME NEW c \in Calls, Throw(c)
      PROVE  LeasesAreReturned'
  <2>1. CASE lease[c] = NoLease
    BY <1>7, <2>1 DEF TypeOK, Throw, Goto, LeasesAreReturned
  <2>2. CASE lease[c] # NoLease
    <3>1. "release" \in Inside
      BY DEF Inside, Phases
    <3> QED BY <1>2, <1>7, <2>2, <3>1 DEF Throw
  <2> QED BY <2>1, <2>2
<1>8. ASSUME NEW c \in Calls, Release(c) \/ ReleaseError(c)
      PROVE  LeasesAreReturned'
  BY <1>8 DEF TypeOK, Release, ReleaseError, Goto, LeasesAreReturned
<1>9. ASSUME NEW p, Crash(p)
      PROVE  LeasesAreReturned'
  <2> DEFINE Dead == {c \in Calls : ProcessOf[c] = p}
  <2>1. /\ phase' = [c \in Calls |-> IF c \in Dead /\ Active(c) THEN "crashed" ELSE phase[c]]
        /\ lease' = [c \in Calls |-> IF c \in Dead THEN NoLease ELSE lease[c]]
        /\ locked' = locked \ Dead
    BY <1>9 DEF Crash
  <2> HIDE DEF Dead
  <2> QED BY <2>1 DEF LeasesAreReturned
<1>10. CASE ReplaceLock
  BY <1>10 DEF ReplaceLock, LeasesAreReturned
<1> QED BY <1>1, <1>3, <1>4, <1>5, <1>6, <1>7, <1>8, <1>9, <1>10 DEF Next, Step

(* Every way out of runWithKeys gives the lease back, through errors,      *)
(* aborts, lost answers, crashes and a replaced lock; what CallsSettle     *)
(* asks for is only that those who work go on.                             *)
THEOREM LeasesAreReturnedHolds == Spec => [](LeasesAreReturned /\ LockIsInUse)
<1>1. Init => LeasesAreReturned
  BY DEF Init, LeasesAreReturned
<1>2. TypeOK /\ LeasesAreReturned => LockIsInUse
  <2> SUFFICES ASSUME TypeOK, LeasesAreReturned PROVE LockIsInUse
    OBVIOUS
  <2>1. epoch # NoLease
    BY ConstantsAreTyped DEF TypeOK
  <2> QED BY <2>1 DEF LeasesAreReturned, LockIsInUse, Free
<1> QED BY <1>1, <1>2, LeasesStep, TypeCorrect, PTL DEF Spec
=============================================================================
