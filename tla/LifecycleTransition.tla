------------------------ MODULE LifecycleTransition ------------------------
(***************************************************************************)
(* A plugin's lifecycle transitions: the installed record, the transition  *)
(* journal, the operations of several processes that move both, and the    *)
(* startup recovery of a process that finds what dead ones left.           *)
(*   src/src/application/plugin-lifecycle-service.ts                       *)
(*   src/src/application/lifecycle-transition-reconciler.ts                *)
(*   src/src/application/recovery-service.ts, native-uninstall-cleanup.ts  *)
(*   src/src/infrastructure/recovery/sqlite-transition-journal.ts          *)
(* One plugin of one scope.  runPreparedMutation is the atomic step that   *)
(* GenerationLog promises; other plugins of the scope appear as the stale  *)
(* answers they cause.                                                     *)
(***************************************************************************)
EXTENDS Integers

CONSTANTS Ops,       \* operations; each one's id is its transition reference
          Procs,     \* processes that run the host
          Revisions,
          MaxFaults, \* bound on crashes and failing calls
          None

Record == [rev : Revisions, on : BOOLEAN]
Value == Record \cup {None}
Plan == [previous : Value, candidate : Record, final : Value, erase : BOOLEAN]

ASSUME ConstantsAreTyped ==
    /\ MaxFaults \in Nat
    /\ None \notin Ops \cup Procs \cup Record \cup Plan

VARIABLES
    record,   \* Record \cup {None}, the installed record less its marker
    pending,  \* Ops \cup {None}, record.pendingTransition
    plan,     \* [Ops -> Plan \cup {None}], the journal row's immutable part
    status,   \* [Ops -> Statuses], the journal row's status
    cleanup,  \* [Ops -> Cleanups], the journal row's cleanup status
    data,     \* is there persistent data of the plugin?
    pc,       \* [Ops -> where execute stands]
    host,     \* [Ops -> Procs \cup {None}], the living process that runs it
    report,   \* [Ops -> Reports], what the caller was told
    phase,    \* [Procs -> where a process stands in its startup]
    seen,     \* [Procs -> the record and marker that recovery read]
    listed,   \* [Procs -> the journal rows that recovery listed]
    faults,   \* crashes and failing calls so far
    effects   \* history, [Ops -> SUBSET Effects]

stateVars == <<record, pending, effects>>
journalVars == <<status, cleanup>>
opVars == <<plan, pc, host, report>>
procVars == <<phase, seen, listed>>
vars == <<stateVars, journalVars, data, opVars, procVars, faults>>

Kinds == {"install", "update", "enable", "disable", "uninstall"}

Terminal == {"completed", "rolled-back", "abandoned"}
Statuses == {"missing", "prepared", "recovery-required"} \cup Terminal
Cleanups == {"not-required", "pending-data-delete", "recovery-required", "completed"}
Effects == {"began", "finished", "rewound", "restored"}
(* unchanged: stale or rejected; aborted: rejected because of the signal;  *)
(* unsettled: recovery-required, or execute threw.                         *)
Reports == {"none", "unchanged", "aborted", "changed", "rolled-back", "unsettled"}
Steps == {"idle", "prepare", "commit", "reread", "reload", "finish", "complete",
          "rewind", "recheck", "restore", "rollback", "mark", "erase", "tidy",
          "done", "dead"}
Phases == {"down", "list", "owner", "load", "local", "mutate", "settle",
           "mark", "sweep", "tidy", "ready"}

Nothing == [record |-> None, pending |-> None]
NoRows == [erase |-> {}, prepared |-> {}, item |-> None]

TypeOK ==
    /\ record \in Value
    /\ pending \in Ops \cup {None}
    /\ plan \in [Ops -> Plan \cup {None}]
    /\ status \in [Ops -> Statuses]
    /\ cleanup \in [Ops -> Cleanups]
    /\ data \in BOOLEAN
    /\ pc \in [Ops -> Steps]
    /\ host \in [Ops -> Procs \cup {None}]
    /\ report \in [Ops -> Reports]
    /\ phase \in [Procs -> Phases]
    /\ seen \in [Procs -> [record : Value, pending : Ops \cup {None}]]
    /\ listed \in [Procs -> [erase : SUBSET Ops, prepared : SUBSET Ops, item : Ops \cup {None}]]
    /\ faults \in 0..MaxFaults
    /\ effects \in [Ops -> SUBSET Effects]

(* The plugin may be installed, and every process may be running.          *)
Init ==
    /\ record \in Value
    /\ pending = None
    /\ plan = [o \in Ops |-> None]
    /\ status = [o \in Ops |-> "missing"]
    /\ cleanup = [o \in Ops |-> "not-required"]
    /\ data = (record # None)
    /\ pc = [o \in Ops |-> "idle"]
    /\ host = [o \in Ops |-> None]
    /\ report = [o \in Ops |-> "none"]
    /\ phase = [p \in Procs |-> "ready"]
    /\ seen = [p \in Procs |-> Nothing]
    /\ listed = [p \in Procs |-> NoRows]
    /\ faults = 0
    /\ effects = [o \in Ops |-> {}]

-----------------------------------------------------------------------------
Fault == faults < MaxFaults /\ faults' = faults + 1
NoFault == UNCHANGED faults

Goto(o, s) == pc' = [pc EXCEPT ![o] = s]
(* The caller gets its answer; a deletion may still be due.                *)
Answer(o, r, s) == report' = [report EXCEPT ![o] = r] /\ Goto(o, s)
Enter(p, s) == phase' = [phase EXCEPT ![p] = s]
Sweep(p) == Enter(p, "sweep") /\ seen' = [seen EXCEPT ![p] = Nothing]

(* A durable state commit: the record, its marker and what o did by it.    *)
Write(o, v, ref, did) ==
    /\ record' = v
    /\ pending' = ref
    /\ effects' = [effects EXCEPT ![o] = @ \cup {did}]

(* matches: o's marker is on v.                                            *)
\* Mutated: an equal record is enough, whosever marker it carries.
MatchesRecord(o, v) == record = v
Matches(o, v) == pending = o /\ record = v

(* allowAbsent: what undoes an install may find nothing, and then it       *)
(* replaces nothing by nothing.                                            *)
Absent(o) == record = None /\ plan[o].previous = None

\* Mutated: the marker of an install is kept too, on no record.
UndoKeepsMarker(o, v, keep) ==
    \/ Matches(o, v) /\ IF keep THEN Write(o, plan[o].previous, o, "rewound")
                        ELSE Write(o, plan[o].previous, None, "restored")
    \/ Absent(o) /\ UNCHANGED stateVars
(* The writes that undo o: with keep, the marker stays on the previous     *)
(* record until that one has been activated.                               *)
Undo(o, v, keep) ==
    \/ /\ Matches(o, v)
       /\ IF keep /\ plan[o].previous # None
          THEN Write(o, plan[o].previous, o, "rewound")
          ELSE Write(o, plan[o].previous, None, "restored")
    \/ Absent(o) /\ UNCHANGED stateVars

(* sqlite-transition-journal: a terminal row keeps its outcome.            *)
\* Mutated: any row can be settled.
MaySettleAny(o, outcome) == status[o] # "missing"
MaySettle(o, outcome) == status[o] \in {"prepared", "recovery-required", outcome}

Settle(o, outcome) ==
    /\ MaySettle(o, outcome)
    /\ status' = [status EXCEPT ![o] = outcome]
    /\ cleanup' = [cleanup EXCEPT ![o] =
                     IF outcome \in {"rolled-back", "abandoned"} THEN "not-required" ELSE @]

(* markRecovery and markRecoveryRequired: no effect on a terminal row.     *)
MarkRecovery(o) ==
    /\ status' = [status EXCEPT ![o] = IF @ \in Terminal THEN @ ELSE "recovery-required"]
    /\ UNCHANGED cleanup

MarkCleanup(o, s) ==
    /\ cleanup' = [cleanup EXCEPT ![o] =
         IF status[o] = "completed" /\ @ \notin {"not-required", "completed"} THEN s ELSE @]
    /\ UNCHANGED status

-----------------------------------------------------------------------------
(* execute, one action per await                                           *)

\* Mutated: the candidate of an uninstall is its final record, none.
PlansRemoving(k) ==
    IF k # "uninstall" \/ record = None THEN {}
    ELSE [previous : {record}, candidate : {None}, final : {None}, erase : BOOLEAN]
(* The plans an operation of kind k may make for the record it reads.      *)
(* There is none when the operation is refused or has nothing to do: it    *)
(* then returns without a trace.                                           *)
Plans(k) ==
    LET to(v) == [previous : {record}, candidate : {v}, final : {v}, erase : {FALSE}]
        switched(b) == to([record EXCEPT !.on = b])
    IN CASE k = "install" ->
              IF record # None THEN {} ELSE UNION {to([rev |-> r, on |-> TRUE]) : r \in Revisions}
         [] k = "update" ->
              IF record = None THEN {}
              ELSE (UNION {to([rev |-> r, on |-> TRUE]) : r \in Revisions}) \ to(record)
         [] k = "enable" -> IF record = None \/ record.on THEN {} ELSE switched(TRUE)
         [] k = "disable" -> IF record = None \/ ~record.on THEN {} ELSE switched(FALSE)
         [] k = "uninstall" ->
              IF record = None THEN {}
              ELSE [previous : {record}, candidate : {[record EXCEPT !.on = FALSE]},
                    final : {None}, erase : BOOLEAN]

Start(o, p, k) ==
    /\ pc[o] = "idle" /\ phase[p] = "ready"
    /\ pending = None
    /\ \E q \in Plans(k) : plan' = [plan EXCEPT ![o] = q]
    /\ host' = [host EXCEPT ![o] = p]
    /\ Goto(o, "prepare")
    /\ NoFault
    /\ UNCHANGED <<stateVars, journalVars, data, report, procVars>>

Prepare(o) ==
    /\ pc[o] = "prepare"
    /\ LET stored == /\ status' = [status EXCEPT ![o] = "prepared"]
                     /\ cleanup' = [cleanup EXCEPT ![o] =
                          IF plan[o].erase THEN "pending-data-delete" ELSE "not-required"]
       IN \/ NoFault /\ stored /\ Goto(o, "commit") /\ UNCHANGED report
          \/ Fault /\ (stored \/ UNCHANGED journalVars) /\ Answer(o, "unchanged", "done")
    /\ UNCHANGED <<stateVars, data, plan, host, procVars>>

\* Mutated: only the record is compared, not the marker on it.
UnchangedRecord(o) == record = plan[o].previous
(* sameJson(current, previous)                                             *)
Unchanged(o) == pending = None /\ record = plan[o].previous

Begin(o) == Unchanged(o) /\ Write(o, plan[o].candidate, o, "began")

(* runFirstCommit: the answer of the guarded mutation.                     *)
FirstCommit(o) ==
    /\ pc[o] = "commit"
    /\ \/ Begin(o) /\ Goto(o, "reload") /\ NoFault /\ UNCHANGED report
       \* GuardMismatch, or the generation moved on both attempts
       \/ Answer(o, "unchanged", "done") /\ NoFault /\ UNCHANGED stateVars
       \* aborted before the write, configuration, promotion, commit-failed
       \/ Fault /\ Answer(o, "unchanged", "done") /\ UNCHANGED stateVars
       \* commit-ambiguous
       \/ Fault /\ (Begin(o) \/ UNCHANGED stateVars) /\ Goto(o, "reread") /\ UNCHANGED report
    /\ UNCHANGED <<journalVars, data, plan, host, procVars>>

(* The ambiguous commit is looked up; when the lookup fails, or when the   *)
(* coordinator threw it as a MutationCleanupError, it is not.  An abort of *)
(* the signal is no failure: the caller may cancel at any time.            *)
Reread(o) ==
    /\ pc[o] = "reread"
    /\ \/ pending = o /\ Goto(o, "reload") /\ NoFault /\ UNCHANGED report
       \/ pending # o /\ Answer(o, "unsettled", "done") /\ NoFault
       \/ Answer(o, "unsettled", "done") /\ Fault
       \/ Answer(o, "aborted", "done") /\ NoFault
    /\ UNCHANGED <<stateVars, journalVars, data, plan, host, procVars>>

(* A runtime in which v is active has made the plugin's data root.         *)
Projected(v) == data \/ (v # None /\ v.on)

(* reloadAndObserve of the candidate projection.                           *)
Reload(o) ==
    /\ pc[o] = "reload"
    /\ \/ NoFault /\ data' = Projected(plan[o].candidate) /\ Goto(o, "finish")
       \/ Fault /\ data' \in {data, Projected(plan[o].candidate)} /\ Goto(o, "rewind")
    /\ UNCHANGED <<stateVars, journalVars, plan, host, report, procVars>>

(* completeCommittedTransition after an accepted activation.  An outcome   *)
(* other than committed goes to mark, even if the write is durable; a      *)
(* thrown one leaves execute.                                              *)
Finish(o) ==
    /\ pc[o] = "finish"
    /\ LET final == /\ pending = o /\ record = plan[o].candidate
                    /\ Write(o, plan[o].final, None, "finished")
       IN \/ NoFault /\ final /\ Goto(o, "complete") /\ UNCHANGED report
          \/ /\ Fault /\ (final \/ UNCHANGED stateVars)
             /\ (Goto(o, "mark") /\ UNCHANGED report) \/ Answer(o, "unsettled", "done")
    /\ UNCHANGED <<journalVars, data, plan, host, procVars>>

(* settle("completed"); a confirmed uninstall goes on to                   *)
(* native-uninstall-cleanup's complete.                                    *)
Complete(o) ==
    /\ pc[o] = "complete"
    /\ \/ /\ NoFault
          /\ Settle(o, "completed")
          /\ Answer(o, "changed", IF plan[o].erase THEN "erase" ELSE "done")
       \/ /\ Fault
          /\ Settle(o, "completed") \/ UNCHANGED journalVars
          /\ Goto(o, "mark") /\ UNCHANGED report
    /\ UNCHANGED <<stateVars, data, plan, host, procVars>>

(* restoreAndVerify, first write: previous under the marker, or nothing.   *)
Rewind(o) ==
    /\ pc[o] = "rewind"
    /\ \/ NoFault /\ Undo(o, plan[o].candidate, TRUE) /\ Goto(o, "recheck")
       \/ /\ Fault
          /\ Undo(o, plan[o].candidate, TRUE) \/ UNCHANGED stateVars
          /\ Goto(o, "mark")
    /\ UNCHANGED <<journalVars, data, plan, host, report, procVars>>

(* reloadAndObserve of the previous projection.                            *)
Recheck(o) ==
    /\ pc[o] = "recheck"
    /\ \/ NoFault /\ data' = Projected(plan[o].previous) /\ Goto(o, "restore")
       \/ Fault /\ Goto(o, "mark") /\ UNCHANGED data
    /\ UNCHANGED <<stateVars, journalVars, plan, host, report, procVars>>

(* restoreAndVerify, second write: the previous record without a marker.   *)
Restore(o) ==
    /\ pc[o] = "restore"
    /\ LET from == IF plan[o].previous = None THEN plan[o].candidate ELSE plan[o].previous
       IN \/ NoFault /\ Undo(o, from, FALSE) /\ Goto(o, "rollback")
          \/ /\ NoFault /\ ~Matches(o, from) /\ ~Absent(o)
             /\ Goto(o, "mark") /\ UNCHANGED stateVars
          \/ /\ Fault
             /\ Undo(o, from, FALSE) \/ UNCHANGED stateVars
             /\ Goto(o, "mark")
    /\ UNCHANGED <<journalVars, data, plan, host, report, procVars>>

(* settle("rolled-back")                                                   *)
Rollback(o) ==
    /\ pc[o] = "rollback"
    /\ \/ NoFault /\ Settle(o, "rolled-back") /\ Answer(o, "rolled-back", "done")
       \/ /\ Fault
          /\ Settle(o, "rolled-back") \/ UNCHANGED journalVars
          /\ Goto(o, "mark") /\ UNCHANGED report
    /\ UNCHANGED <<stateVars, data, plan, host, procVars>>

(* markRecovery swallows its errors; the caller is told in any case.       *)
Mark(o) ==
    /\ pc[o] = "mark"
    /\ (NoFault /\ MarkRecovery(o)) \/ (Fault /\ UNCHANGED journalVars)
    /\ Answer(o, "unsettled", "done")
    /\ UNCHANGED <<stateVars, data, plan, host, procVars>>

(* The removal or its note failed; an abort, or a failing journal, leaves  *)
(* no note of that.                                                        *)
CleanupFailed(o) == MarkCleanup(o, "recovery-required") \/ UNCHANGED journalVars

(* The confirmed deletion, and then its note in the journal.               *)
Erase(o) ==
    /\ pc[o] = "erase"
    /\ \/ NoFault /\ cleanup[o] = "completed" /\ Goto(o, "done") /\ UNCHANGED <<data, journalVars>>
       \/ NoFault /\ cleanup[o] # "completed" /\ data' = FALSE /\ Goto(o, "tidy") /\ UNCHANGED journalVars
       \/ Fault /\ data' \in {data, FALSE} /\ CleanupFailed(o) /\ Goto(o, "done")
    /\ UNCHANGED <<stateVars, plan, host, report, procVars>>

Tidy(o) ==
    /\ pc[o] = "tidy"
    /\ \/ NoFault /\ MarkCleanup(o, "completed")
       \/ Fault /\ CleanupFailed(o)
    /\ Goto(o, "done")
    /\ UNCHANGED <<stateVars, data, plan, host, report, procVars>>

-----------------------------------------------------------------------------
(* Processes end and start                                                 *)

Hosted(p) == {o \in Ops : host[o] = p}

(* Whatever p was doing ends where it stands.                              *)
Exit(p) ==
    /\ pc' = [o \in Ops |-> IF o \in Hosted(p) THEN "dead" ELSE pc[o]]
    /\ Enter(p, "down")
    /\ seen' = [seen EXCEPT ![p] = Nothing]
    /\ listed' = [listed EXCEPT ![p] = NoRows]
    /\ host' = [o \in Ops |-> IF o \in Hosted(p) THEN None ELSE host[o]]
    /\ UNCHANGED <<stateVars, journalVars, data, plan, report>>

Crash(p) == phase[p] # "down" /\ Fault /\ Exit(p)

Quit(p) ==
    /\ phase[p] = "ready"
    /\ \A o \in Hosted(p) : pc[o] = "done"
    /\ NoFault
    /\ Exit(p)

-----------------------------------------------------------------------------
(* recovery-service recover, before the host serves operations.  A runtime *)
(* excludes the plugins with a marker (runtime-desired-state.ts:136), so   *)
(* no pending candidate is observed active and startup never finalizes.    *)

(* A process starts: startup reads the state before the journal.           *)
Boot(p) ==
    /\ phase[p] = "down"
    /\ seen' = [seen EXCEPT ![p] = [record |-> record, pending |-> pending]]
    /\ Enter(p, "list")
    /\ NoFault
    /\ UNCHANGED <<stateVars, journalVars, data, opVars, listed>>

\* Mutated: a row is due for deletion before its uninstall is completed.
DueForErasure(o) == cleanup[o] \in {"pending-data-delete", "recovery-required"}
\* Mutated: a deletion that failed is not tried again.
NeverTriedErasure(o) == status[o] = "completed" /\ cleanup[o] = "pending-data-delete"
Erasable(o) ==
    /\ status[o] = "completed"
    /\ cleanup[o] \in {"pending-data-delete", "recovery-required"}

(* journal.list; an unreadable journal ends recovery of the scope.         *)
ListJournal(p) ==
    /\ phase[p] = "list"
    /\ \/ /\ NoFault
          /\ listed' = [listed EXCEPT ![p] =
               [erase |-> {o \in Ops : Erasable(o)},
                prepared |-> {o \in Ops : status[o] = "prepared" /\ o # seen[p].pending},
                item |-> None]]
          /\ Enter(p, IF seen[p].pending = None THEN "sweep" ELSE "owner")
       \/ Fault /\ Enter(p, "ready") /\ UNCHANGED listed
    /\ UNCHANGED <<stateVars, journalVars, data, opVars, seen>>

\* Mutated: the death of the owner goes unnoticed.
OwnedForever(o) == status[o] = "prepared"
(* ownerStatus of a row: only a prepared one has an owner, and it lives as *)
(* long as the process, not the operation.                                 *)
Owned(o) == status[o] = "prepared" /\ pc[o] # "dead"

CheckOwner(p) ==
    /\ phase[p] = "owner"
    /\ IF Owned(seen[p].pending) THEN Sweep(p) ELSE Enter(p, "load") /\ UNCHANGED seen
    /\ NoFault
    /\ UNCHANGED <<stateVars, journalVars, data, opVars, listed>>

(* recoverInterruptedTransition reads the record again ...                 *)
LoadCurrent(p) ==
    /\ phase[p] = "load"
    /\ LET q == plan[seen[p].pending]
       IN IF record # None /\ record \in {q.candidate, q.previous}
          THEN seen' = [seen EXCEPT ![p].record = record] /\ Enter(p, "local")
          ELSE Enter(p, "mark") /\ UNCHANGED seen
    /\ NoFault
    /\ UNCHANGED <<stateVars, journalVars, data, opVars, listed>>

(* ... activates the previous target in this process ...                   *)
ReconcileLocal(p) ==
    /\ phase[p] = "local"
    /\ \/ NoFault /\ data' = Projected(plan[seen[p].pending].previous) /\ Enter(p, "mutate")
       \/ Fault /\ Enter(p, "mark") /\ UNCHANGED data
    /\ UNCHANGED <<stateVars, journalVars, opVars, seen, listed>>

(* ... and writes the previous record if its marker still stands.          *)
RestorePrevious(p) ==
    /\ phase[p] = "mutate"
    /\ LET o == seen[p].pending
           v == seen[p].record
       IN \/ NoFault /\ Undo(o, v, FALSE) /\ Enter(p, "settle")
          \/ /\ NoFault /\ ~Matches(o, v) /\ ~Absent(o)
             /\ Enter(p, "mark") /\ UNCHANGED stateVars
          \/ /\ Fault
             /\ Undo(o, v, FALSE) \/ UNCHANGED stateVars
             /\ Enter(p, "mark")
    /\ UNCHANGED <<journalVars, data, opVars, seen, listed>>

SettleRestored(p) ==
    /\ phase[p] = "settle"
    /\ LET o == seen[p].pending
       IN \/ NoFault /\ Settle(o, "rolled-back") /\ Sweep(p)
          \/ /\ NoFault /\ ~MaySettle(o, "rolled-back")
             /\ Enter(p, "mark") /\ UNCHANGED <<journalVars, seen>>
          \/ /\ Fault
             /\ Settle(o, "rolled-back") \/ UNCHANGED journalVars
             /\ Enter(p, "mark") /\ UNCHANGED seen
    /\ UNCHANGED <<stateVars, data, opVars, listed>>

MarkBlocked(p) ==
    /\ phase[p] = "mark"
    /\ (NoFault /\ MarkRecovery(seen[p].pending)) \/ (Fault /\ UNCHANGED journalVars)
    /\ Sweep(p)
    /\ UNCHANGED <<stateVars, data, opVars, listed>>

(* Deletions that completed uninstalls still owe, from the rows as listed. *)
EraseListed(p) ==
    /\ phase[p] = "sweep"
    /\ \E o \in listed[p].erase :
         /\ listed' = [listed EXCEPT ![p].erase = @ \ {o}, ![p].item = o]
         /\ \/ NoFault /\ data' = FALSE /\ Enter(p, "tidy") /\ UNCHANGED journalVars
            \/ Fault /\ data' \in {data, FALSE} /\ CleanupFailed(o) /\ UNCHANGED phase
    /\ UNCHANGED <<stateVars, opVars, seen>>

TidyListed(p) ==
    /\ phase[p] = "tidy"
    /\ \/ NoFault /\ MarkCleanup(listed[p].item, "completed")
       \/ Fault /\ CleanupFailed(listed[p].item)
    /\ Enter(p, "sweep")
    /\ UNCHANGED <<stateVars, data, opVars, seen, listed>>

(* Rows listed as prepared without a record that refers to them.  The      *)
(* grace of a day is taken to be over whenever the owner is gone.          *)
Abandon(p) ==
    /\ phase[p] = "sweep" /\ listed[p].erase = {}
    /\ \E o \in listed[p].prepared :
         /\ listed' = [listed EXCEPT ![p].prepared = @ \ {o}]
         /\ IF ~Owned(o) /\ MaySettle(o, "abandoned")
            THEN Settle(o, "abandoned")
            ELSE UNCHANGED journalVars
    /\ NoFault
    /\ UNCHANGED <<stateVars, data, opVars, phase, seen>>

(* Recovery returns; reconcileCurrent builds the runtime of the records    *)
(* that carry no marker.                                                   *)
Serve(p) ==
    /\ phase[p] = "sweep"
    /\ listed[p].erase = {} /\ listed[p].prepared = {}
    /\ data' = IF pending = None THEN Projected(record) ELSE data
    /\ Enter(p, "ready")
    /\ listed' = [listed EXCEPT ![p] = NoRows]
    /\ NoFault
    /\ UNCHANGED <<stateVars, journalVars, opVars, seen>>

-----------------------------------------------------------------------------
Work(o) ==
    \/ Prepare(o) \/ FirstCommit(o) \/ Reread(o) \/ Reload(o)
    \/ Finish(o) \/ Complete(o)
    \/ Rewind(o) \/ Recheck(o) \/ Restore(o) \/ Rollback(o) \/ Mark(o)
    \/ Erase(o) \/ Tidy(o)

Recover(p) ==
    \/ ListJournal(p) \/ CheckOwner(p)
    \/ LoadCurrent(p) \/ ReconcileLocal(p) \/ RestorePrevious(p)
    \/ SettleRestored(p) \/ MarkBlocked(p)
    \/ EraseListed(p) \/ TidyListed(p) \/ Abandon(p) \/ Serve(p)

Next ==
    \/ \E o \in Ops, p \in Procs, k \in Kinds : Start(o, p, k)
    \/ \E o \in Ops : Work(o)
    \/ \E p \in Procs : Recover(p) \/ Boot(p) \/ Quit(p) \/ Crash(p)

Spec == Init /\ [][Next]_vars

(* Promises settle and startup runs to its end; sessions are closed and    *)
(* opened again.                                                           *)
FairSpec ==
    /\ Spec
    /\ \A o \in Ops : WF_vars(Work(o))
    /\ \A p \in Procs : WF_vars(Recover(p)) /\ WF_vars(Boot(p)) /\ WF_vars(Quit(p))

-----------------------------------------------------------------------------
(* Properties                                                              *)

(* A marker always leads recovery to what it needs: a journal row that is  *)
(* not settled as completed or rolled back, for a plan whose candidate or  *)
(* previous record is the one installed.                                   *)
MarkersAreRecoverable ==
    pending # None =>
        /\ status[pending] \notin {"missing", "completed", "rolled-back"}
        /\ record \in {plan[pending].candidate, plan[pending].previous}
        /\ record # None

(* A row settled as completed or rolled back says what happened to the     *)
(* record, whoever settled it and whatever failed or crashed on the way.   *)
(* Not so for an install: allowAbsent lets a late recovery take another    *)
(* operation's removal of the plugin for the rollback of the install.      *)
JournalIsTrue == \A o \in Ops :
    /\ status[o] = "completed" => effects[o] = {"began", "finished"}
    /\ status[o] = "rolled-back" => "began" \in effects[o]
    /\ status[o] = "rolled-back" /\ plan[o].previous # None =>
         "restored" \in effects[o] /\ "finished" \notin effects[o]

(* What a caller was told holds of the state and the journal for good: a   *)
(* stale or rejected operation never touched the record, a changed or      *)
(* rolled back one is durable and journalled.  An operation rejected       *)
(* because of its signal may have committed its candidate all the same     *)
(* (the ambiguous commit, plugin-lifecycle-service.ts:591 to 605): it has  *)
(* left its marker on the record, or some recovery has restored what was   *)
(* there before, but it never comes to its end.                            *)
AnswersAreTrue == \A o \in Ops :
    /\ report[o] = "unchanged" => effects[o] = {}
    /\ report[o] = "changed" => status[o] = "completed"
    /\ report[o] = "rolled-back" => status[o] = "rolled-back"
    /\ report[o] = "aborted" =>
         /\ status[o] # "completed" /\ "finished" \notin effects[o]
         /\ effects[o] = {} \/ pending = o \/ "restored" \in effects[o]

Deletes == data /\ ~data'
Confirmed == \E o \in Ops : plan[o] # None /\ plan[o].erase /\ "finished" \in effects[o]

(* Persistent data is deleted only on behalf of an uninstall that was      *)
(* confirmed with deletion and took effect.                                *)
DeletionIsConfirmed == [][Deletes => Confirmed]_vars

(* Every transition is atomic: through crashes, restores and concurrent    *)
(* recoveries the settled record goes to the transition's goal or stays.   *)
Transaction == INSTANCE PluginTransaction WITH
    settled <- IF pending = None THEN record ELSE plan[pending].previous,
    open <- pending,
    goal <- [o \in Ops |-> IF plan[o] = None THEN None ELSE plan[o].final],
    spent <- {o \in Ops : effects[o] # {}}
TransitionsAreAtomic == Transaction!Spec

(* A marker that its operation left behind is removed by some later start. *)
InterruptedTransitionsEnd == \A o \in Ops :
    (pending = o /\ pc[o] \in {"done", "dead"}) ~> (pending # o)

(* A deletion that a completed uninstall owes is carried out.              *)
OwedDeletionsHappen == \A o \in Ops :
    (status[o] = "completed" /\ cleanup[o] # "not-required") ~> (cleanup[o] = "completed")

(* recovery-service.ts:151 "Unreferenced prepared rows are inert.": a row  *)
(* that recovery abandons belongs to an operation that changed nothing.    *)
AbandonedRowsAreInert == \A o \in Ops :
    status[o] = "abandoned" => "finished" \notin effects[o]

(* COMPATIBILITY.md:481 "Persistent data is removed only after explicit    *)
(* confirmation.": while the plugin is installed and no transition is open *)
(* on it, its data is not removed.                                         *)
InstalledDataSurvives == [][Deletes => record = None \/ pending # None]_vars
=============================================================================
