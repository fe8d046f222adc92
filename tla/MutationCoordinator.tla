------------------------ MODULE MutationCoordinator ------------------------
(***************************************************************************)
(* src/src/application/generation-mutation-coordinator.ts over the scope   *)
(* lock and the state store of one scope: calls of runPreparedMutation in  *)
(* several processes.  Every await is a point where calls interleave, a    *)
(* process dies, or the files of the lock are replaced under a lease.      *)
(***************************************************************************)
EXTENDS Integers, Sequences

CONSTANTS Calls,           \* calls of runPreparedMutation
          Plugins, Values, \* the records of the scope's documents
          ProcessOf,       \* [Calls -> processes]
          PluginOf,        \* [Calls -> Plugins], the subject of the mutation
          ValueOf,         \* [Calls -> Values], what the mutation records
          Initial,         \* [Plugins -> Values], generation 0
          MaxEpoch,        \* bound on replacements of the lock's files
          NoLease

ASSUME ConstantsAreTyped ==
    /\ PluginOf \in [Calls -> Plugins]
    /\ ValueOf \in [Calls -> Values]
    /\ Initial \in [Plugins -> Values]
    /\ MaxEpoch \in Nat
    /\ NoLease \notin Nat

VARIABLES
    log,       \* documents of every generation; the store keeps the last two
    epoch,     \* which database files the lock's path names now
    phase,     \* [Calls -> Phases], where runWithKeys stands
    lease,     \* [Calls -> Nat \cup {NoLease}], files of the held transaction
    expected,  \* [Calls -> Nat], request.expectedGeneration
    snapshot,  \* [Calls -> documents], what the locked read returned
    outcome,   \* [Calls -> Outcomes]
    locked,    \* calls whose failed release left the database open
    wrote      \* history: calls whose commit became durable

vars == <<log, epoch, phase, lease, expected, snapshot, outcome, locked, wrote>>

Documents == [Plugins -> Values]

(* own-x: the assertion of ownership in front of x.                        *)
Phases == {"idle", "acquire", "own-read", "read", "own-prepare", "prepare",
           "own-check", "check", "own-commit", "commit", "own-reconcile",
           "reconcile", "release", "settled", "crashed"}
Outcomes == {"none", "committed", "stale", "failed", "ambiguous", "threw"}

Generation == Len(log) - 1
\* Mutated: the record stands in for the documents that hold it.
EffectRecord(c, d) == ValueOf[c]
Effect(c, d) == [d EXCEPT ![PluginOf[c]] = ValueOf[c]]
Current == log[Len(log)]

Active(c) == phase[c] \notin {"idle", "settled", "crashed"}

TypeOK ==
    /\ log \in Seq(Documents) /\ Len(log) > 0
    /\ epoch \in 0..MaxEpoch
    /\ phase \in [Calls -> Phases]
    /\ lease \in [Calls -> Nat \cup {NoLease}]
    /\ expected \in [Calls -> Nat]
    /\ snapshot \in [Calls -> Documents]
    /\ outcome \in [Calls -> Outcomes]
    /\ locked \in SUBSET Calls
    /\ wrote \in SUBSET Calls

Init ==
    /\ log = <<Initial>>
    /\ epoch = 0
    /\ phase = [c \in Calls |-> "idle"]
    /\ lease = [c \in Calls |-> NoLease]
    /\ expected = [c \in Calls |-> 0]
    /\ snapshot = [c \in Calls |-> Initial]
    /\ outcome = [c \in Calls |-> "none"]
    /\ locked = {}
    /\ wrote = {}

-----------------------------------------------------------------------------
(* runWithKeys returns or throws: its locals end.                          *)
Forget(D) ==
    /\ expected' = [c \in Calls |-> IF c \in D THEN 0 ELSE expected[c]]
    /\ snapshot' = [c \in Calls |-> IF c \in D THEN Initial ELSE snapshot[c]]

Goto(c, p) == phase' = [phase EXCEPT ![c] = p]

\* Mutated: a verdict returned from inside the try block skips the release.
ConcludeUnreleased(c, o) ==
    /\ outcome' = [outcome EXCEPT ![c] = o]
    /\ Goto(c, "settled")
Conclude(c, o) ==
    /\ outcome' = [outcome EXCEPT ![c] = o]
    /\ Goto(c, "release")

(* runPreparedMutation: the scheduler admits one call per process and      *)
(* plugin; the caller read some generation before.                         *)
Call(c, g) ==
    /\ phase[c] = "idle"
    /\ \A d \in Calls : Active(d) => <<ProcessOf[d], PluginOf[d]>> # <<ProcessOf[c], PluginOf[c]>>
    /\ g \in 0..Generation
    /\ expected' = [expected EXCEPT ![c] = g]
    /\ Goto(c, "acquire")
    /\ UNCHANGED <<log, epoch, lease, snapshot, outcome, locked, wrote>>

\* Mutated: BEGIN DEFERRED, which takes no write lock.
FreeDeferred == TRUE
(* BEGIN IMMEDIATE succeeds on the database the path names.                *)
Free == \A d \in Calls : lease[d] # epoch

AcquireLock(c) ==
    /\ phase[c] = "acquire"
    /\ Free
    /\ lease' = [lease EXCEPT ![c] = epoch]
    /\ Goto(c, "own-read")
    /\ UNCHANGED <<log, epoch, expected, snapshot, outcome, locked, wrote>>

Guarded == {<<"own-read", "read">>, <<"own-prepare", "prepare">>, <<"own-check", "check">>,
            <<"own-commit", "commit">>, <<"own-reconcile", "reconcile">>}

(* lease.assertOwned: the marker and the path still name the files of the  *)
(* open transaction.                                                       *)
AssertOwned(c) ==
    /\ lease[c] = epoch
    /\ \E step \in Guarded : phase[c] = step[1] /\ Goto(c, step[2])
    /\ UNCHANGED <<log, epoch, lease, expected, snapshot, outcome, locked, wrote>>

Read(c) ==
    /\ phase[c] = "read"
    /\ \/ /\ Generation = expected[c]
          /\ snapshot' = [snapshot EXCEPT ![c] = Current]
          /\ Goto(c, "own-prepare")
          /\ UNCHANGED outcome
       \/ /\ Generation # expected[c]
          /\ Conclude(c, "stale")
          /\ UNCHANGED snapshot
    /\ UNCHANGED <<log, epoch, lease, expected, locked, wrote>>

Prepare(c) ==
    /\ phase[c] = "prepare"
    /\ Goto(c, "own-check")
    /\ UNCHANGED <<log, epoch, lease, expected, snapshot, outcome, locked, wrote>>

(* beforeCommit is optional; it is followed by one more assertion.         *)
BeforeCommit(c) ==
    /\ phase[c] = "check"
    /\ \E p \in {"commit", "own-commit"} : Goto(c, p)
    /\ UNCHANGED <<log, epoch, lease, expected, snapshot, outcome, locked, wrote>>

(* An abort, a failing callback, an unreadable scope, a lost lease.        *)
Throw(c) ==
    /\ phase[c] \in {"acquire", "own-read", "read", "own-prepare", "prepare",
                     "own-check", "check", "own-commit"}
    /\ outcome' = [outcome EXCEPT ![c] = "threw"]
    /\ \/ lease[c] = NoLease /\ Goto(c, "settled") /\ Forget({c})
       \/ lease[c] # NoLease /\ Goto(c, "release") /\ UNCHANGED <<expected, snapshot>>
    /\ UNCHANGED <<log, epoch, lease, locked, wrote>>

(* The transaction of state.commit, without its answer.                    *)
\* Mutated: commit trusts the scope lock and does not compare generations.
WriteUnchecked(c) ==
    /\ log' = Append(log, Effect(c, snapshot[c]))
    /\ wrote' = wrote \cup {c}
WriteNext(c) ==
    /\ Generation = expected[c]
    /\ log' = Append(log, Effect(c, snapshot[c]))
    /\ wrote' = wrote \cup {c}

Commit(c) ==
    /\ phase[c] = "commit"
    /\ \/ WriteNext(c) /\ Conclude(c, "committed")
       \/ Generation # expected[c] /\ Conclude(c, "stale") /\ UNCHANGED <<log, wrote>>
    /\ UNCHANGED <<epoch, lease, expected, snapshot, locked>>

(* commit() throws: aborted, busy for too long, failing file, or an answer *)
(* that does not prove the mutation; it may have become durable.           *)
CommitError(c) ==
    /\ phase[c] = "commit"
    /\ WriteNext(c) \/ UNCHANGED <<log, wrote>>
    /\ Goto(c, "own-reconcile")
    /\ UNCHANGED <<epoch, lease, expected, snapshot, outcome, locked>>

(* reconcileCommitFailure, once it could read the scope.                   *)
Proven(c) == Generation = expected[c] + 1 /\ Current = Effect(c, snapshot[c])
\* Mutated: an error of the commit is taken for a commit that failed.
VerdictOfError(c) == "failed"
Verdict(c) ==
    IF Proven(c) THEN "committed"
    ELSE IF Generation = expected[c] THEN "failed"
    ELSE "ambiguous"

Reconcile(c) ==
    /\ phase[c] = "reconcile"
    /\ Conclude(c, Verdict(c))
    /\ UNCHANGED <<log, epoch, lease, expected, snapshot, locked, wrote>>

(* The lease is lost or the authority cannot be read.                      *)
GiveUp(c) ==
    /\ phase[c] \in {"own-reconcile", "reconcile"}
    /\ Conclude(c, "ambiguous")
    /\ UNCHANGED <<log, epoch, lease, expected, snapshot, locked, wrote>>

Release(c) ==
    /\ phase[c] = "release"
    /\ lease' = [lease EXCEPT ![c] = NoLease]
    /\ Goto(c, "settled")
    /\ Forget({c})
    /\ UNCHANGED <<log, epoch, outcome, locked, wrote>>

(* lease.release() throws; the database may stay open and locked.  The     *)
(* caller gets the outcome inside a CommittedMutationCleanupError or a     *)
(* MutationCleanupError.                                                   *)
ReleaseError(c) ==
    /\ phase[c] = "release"
    /\ \/ lease' = [lease EXCEPT ![c] = NoLease] /\ UNCHANGED locked
       \/ locked' = locked \cup {c} /\ UNCHANGED lease
    /\ Goto(c, "settled")
    /\ Forget({c})
    /\ UNCHANGED <<log, epoch, outcome, wrote>>

(* Process death ends its transactions and its calls.                      *)
Crash(p) ==
    LET Dead == {c \in Calls : ProcessOf[c] = p}
    IN  /\ \E c \in Dead : Active(c) \/ lease[c] # NoLease
        /\ phase' = [c \in Calls |-> IF c \in Dead /\ Active(c) THEN "crashed" ELSE phase[c]]
        /\ lease' = [c \in Calls |-> IF c \in Dead THEN NoLease ELSE lease[c]]
        /\ outcome' = [c \in Calls |-> IF c \in Dead /\ Active(c) THEN "none" ELSE outcome[c]]
        /\ Forget(Dead)
        /\ locked' = locked \ Dead
        /\ UNCHANGED <<log, epoch, wrote>>

(* Someone replaces the lock's files: a new database, a new marker.        *)
ReplaceLock ==
    /\ epoch < MaxEpoch
    /\ epoch' = epoch + 1
    /\ UNCHANGED <<log, phase, lease, expected, snapshot, outcome, locked, wrote>>

Step(c) ==
    \/ AcquireLock(c) \/ AssertOwned(c) \/ Read(c) \/ Prepare(c) \/ BeforeCommit(c)
    \/ Throw(c) \/ Commit(c) \/ CommitError(c) \/ Reconcile(c) \/ GiveUp(c)
    \/ Release(c) \/ ReleaseError(c)

Next ==
    \/ \E c \in Calls : Step(c) \/ \E g \in 0..Len(log) : Call(c, g)
    \/ \E c \in Calls : Crash(ProcessOf[c])
    \/ ReplaceLock

Spec == Init /\ [][Next]_vars

(* Promises settle, and the retry loop of acquire keeps trying; nobody has *)
(* to abort a call that waits for the lock.                                *)
Proceeds(c) == AcquireLock(c) \/ (phase[c] # "acquire" /\ Step(c))
FairSpec == Spec /\ \A c \in Calls : WF_vars(Proceeds(c))

-----------------------------------------------------------------------------
(* Properties.                                                             *)

AbstractVerdict ==
    [c \in Calls |-> IF phase[c] = "settled" THEN outcome[c]
                     ELSE IF phase[c] = "crashed" THEN "crashed"
                     ELSE IF c \in wrote THEN "written"
                     ELSE "open"]

Register == INSTANCE GenerationLog WITH verdict <- AbstractVerdict

(* The scope is a register that mutations change one at a time, each on    *)
(* top of the one before; a caller whose write is durable is never told    *)
(* that it is stale, failed or an error, and a caller is told "committed"  *)
(* only of an effect the scope went through.  This survives failing        *)
(* commits, lost answers, a failing release, crashes and a replaced lock.  *)
TruthfulRegister == Register!Spec

(* Unless the lock's files were replaced, nobody but the holder of the     *)
(* lease changes the scope: what prepareCommit and beforeCommit decide     *)
(* from the snapshot is true of the documents they replace, and after a    *)
(* failed commit a read tells for sure whether it happened ("ambiguous"    *)
(* takes a second fault).                                                  *)
LeaseFreezesState ==
    epoch = 0 => \A c \in Calls :
        /\ phase[c] \in {"own-prepare", "prepare", "own-check", "check", "own-commit", "commit"}
               => Generation = expected[c] /\ Current = snapshot[c]
        /\ phase[c] \in {"own-reconcile", "reconcile"}
               => (Generation = expected[c] /\ Current = snapshot[c]) \/ Proven(c)

(* A call that nothing aborts settles or dies with its process, unless a   *)
(* release failed and left the database locked: a lease is given back on   *)
(* every way out of runWithKeys.                                           *)
CallsSettle ==
    [](locked = {}) => \A c \in Calls : Active(c) ~> ~Active(c)
=============================================================================
