------------------------- MODULE RevisionCollection -------------------------
(***************************************************************************)
(* The collection of revisions nobody uses any more, beside the sessions   *)
(* that pin them and the lifecycle operations that select them.            *)
(*   src/src/application/revision-collection-service.ts                    *)
(*   src/src/infrastructure/recovery/process-revision-leases.ts            *)
(*   src/src/infrastructure/recovery/sqlite-revision-retention.ts          *)
(*   src/src/infrastructure/recovery/revision-artifact-store.ts            *)
(*   src/src/infrastructure/filesystem/immutable-content-store.ts          *)
(* One plugin of one scope, one collector.  A lifecycle operation is kept  *)
(* to what a collection can see of it (LifecycleTransition has the rest).  *)
(* Time is counted in ticks longer than a collection: the clock that one   *)
(* reads at its beginning still stands when it ends.                       *)
(***************************************************************************)
EXTENDS Integers, FiniteSets

CONSTANTS Keys,         \* content keys in the order of a scan, numbers
          Sessions,
          Grace,        \* unreferencedGraceMs, in ticks
          MaxArtifacts, \* maxArtifactsPerRun
          MaxFaults,    \* bound on failing calls and dying processes
          None

ASSUME ConstantsAreTyped ==
    /\ Keys \subseteq Nat /\ IsFiniteSet(Keys)
    /\ {Grace, MaxFaults} \subseteq Nat
    /\ MaxArtifacts \in Nat \ {0}
    /\ None \notin Keys /\ None \notin Nat

VARIABLES
    stored,   \* SUBSET Keys, the content published in the store
    residue,  \* does a dead promotion's hidden payload lie in the store?
    record,   \* the installed record: selected and all revisions
    op,       \* the lifecycle operation and the row it has open
    left,     \* SUBSET Keys, what rows of failed operations still name
    live,     \* SUBSET Sessions
    lease,    \* [Sessions -> SUBSET Keys], the row of a session's lease
    age,      \* [Keys -> ticks since first unreferenced, None without a mark]
    run,      \* the collection
    faults,   \* failing calls and dying processes so far
    held      \* history, what has been referenced since the refresh began

opVars == <<op, left>>
sessionVars == <<live, lease>>
vars == <<stored, residue, record, opVars, sessionVars, age, run, faults, held>>

Records == [selected : Keys, revisions : SUBSET Keys]
           \cup [selected : {None}, revisions : {{}}]
Absent == [selected |-> None, revisions |-> {}]
Authorities == {"record", "journal", "lease"}
Phases == {"idle", "journal", "leases", "scan", "prune", "commit",
           "rescan", "restate", "rejournal", "releases", "sweep", "unmark"}
NoOp == [at |-> "idle", from |-> Absent, to |-> Absent, row |-> {}]
NoRun == [at |-> "idle", refs |-> {}, retired |-> {}, due |-> {},
          seen |-> Absent, key |-> None]

TypeOK ==
    /\ stored \subseteq Keys /\ residue \in BOOLEAN
    /\ record \in Records
    /\ op \in [at : {"idle", "prepared", "copying", "ready", "committed", "stuck"},
               from : Records, to : Records, row : SUBSET Keys]
    /\ left \subseteq Keys
    /\ live \subseteq Sessions
    /\ lease \in [Sessions -> SUBSET Keys]
    /\ age \in [Keys -> 0..Grace \cup {None}]
    /\ run \in [at : Phases, refs : SUBSET Keys, retired : SUBSET Keys,
                due : SUBSET Keys, seen : Records,
                key : Keys \cup {None}]
    /\ faults \in 0..MaxFaults
    /\ held \subseteq [by : Authorities, key : Keys]

Init ==
    /\ stored = {} /\ residue = FALSE
    /\ record = Absent
    /\ op = NoOp /\ left = {}
    /\ live = {} /\ lease = [s \in Sessions |-> {}]
    /\ age = [k \in Keys |-> None]
    /\ run = NoRun
    /\ faults = 0
    /\ held = {}

Fault == faults < MaxFaults /\ faults' = faults + 1
NoFault == UNCHANGED faults

-----------------------------------------------------------------------------
(* What a lifecycle operation does that a collection can see               *)

(* The rows that are prepared or recovery-required name these revisions.   *)
OpenRows == op.row \cup left

\* Mutated: an uninstall leaves the revisions to the collection.
TargetsKeepRevisions ==
    {[selected |-> k, revisions |-> record.revisions \cup {k}] : k \in Keys \ {record.selected}}
    \cup {[record EXCEPT !.selected = None]}
(* Its record gains the candidate's revision, or goes with an uninstall.   *)
Targets ==
    {[selected |-> k, revisions |-> record.revisions \cup {k}] : k \in Keys \ {record.selected}}
    \cup {Absent}

PrepareOp ==
    /\ op.at = "idle"
    /\ \E to \in Targets \ {record} :
         op' = [at |-> "prepared", from |-> record, to |-> to,
                row |-> record.revisions \cup to.revisions]
    /\ NoFault
    /\ UNCHANGED <<stored, residue, record, left, sessionVars, age, run>>

(* promote: an equal revision in the store is taken as it is.              *)
AlreadyPresent == op.to.selected \in stored \cup {None}

Promote ==
    /\ op.at = "prepared"
    /\ op' = [op EXCEPT !.at = IF AlreadyPresent THEN "ready" ELSE "copying"]
    /\ NoFault
    /\ UNCHANGED <<stored, residue, record, left, sessionVars, age, run>>

(* publishDirectoryNoReplace of the sealed copy.                           *)
Publish ==
    /\ op.at = "copying"
    /\ stored' = stored \cup {op.to.selected}
    /\ op' = [op EXCEPT !.at = "ready"]
    /\ NoFault
    /\ UNCHANGED <<residue, record, left, sessionVars, age, run>>

(* The record is compared with the one the operation has read.             *)
CommitOp ==
    /\ op.at = "ready"
    /\ IF record = op.from
       THEN record' = op.to /\ op' = [op EXCEPT !.at = "committed"] /\ UNCHANGED left
       ELSE op' = NoOp /\ left' = left \cup op.row /\ UNCHANGED record
    /\ NoFault
    /\ UNCHANGED <<stored, residue, sessionVars, age, run>>

(* The transition is completed or rolled back, unless the record under its *)
(* marker has changed: then it waits for its recovery for ever.            *)
EndOp ==
    /\ op.at = "committed"
    /\ \/ record = op.to /\ op' = NoOp /\ record' \in {op.to, op.from}
       \/ record # op.to /\ op' = [op EXCEPT !.at = "stuck"] /\ UNCHANGED record
    /\ NoFault
    /\ UNCHANGED <<stored, residue, left, sessionVars, age, run>>

(* A call fails or the process dies before the commit.  Its row stays      *)
(* prepared; a copy is cleaned up unless its process is dead.              *)
FailOp ==
    /\ op.at \in {"prepared", "copying", "ready"}
    /\ Fault
    /\ op' = NoOp /\ left' = left \cup op.row
    /\ residue' \in {residue, residue \/ op.at = "copying"}
    /\ UNCHANGED <<stored, record, sessionVars, age, run>>

(* A startup settles the rows no operation will settle.                    *)
Recover ==
    /\ left # {} /\ left' = {}
    /\ NoFault
    /\ UNCHANGED <<stored, residue, record, op, sessionVars, age, run>>

-----------------------------------------------------------------------------
(* Sessions and their leases                                               *)

(* replaceSessionLease: one row names what the session uses, as selected   *)
(* when it read the record, and so perhaps no longer.                      *)
Pin(s) ==
    /\ live' = live \cup {s}
    /\ \E k \in Keys : lease' = [lease EXCEPT ![s] = {k}]
    /\ NoFault
    /\ UNCHANGED <<stored, residue, record, opVars, age, run>>

EndSession(s) ==
    /\ s \in live
    /\ live' = live \ {s}
    /\ \/ NoFault /\ lease' = [lease EXCEPT ![s] = {}]
       \/ Fault /\ UNCHANGED lease       \* the dead owner's row stays
    /\ UNCHANGED <<stored, residue, record, opVars, age, run>>

Leased(S) == UNION {lease[s] : s \in S}

-----------------------------------------------------------------------------
(* collect                                                                 *)

At(phase) == run.at = phase
Step(phase) == run' = [run EXCEPT !.at = phase]
Still == UNCHANGED <<stored, residue, opVars, sessionVars>>
Reading == Still /\ UNCHANGED <<record, age>>

(* Any evidence that cannot be had complete defers the collection.         *)
Defer ==
    /\ run.at \notin {"idle", "sweep", "unmark", "prune", "commit"}
    /\ run' = NoRun
    /\ Fault
    /\ Reading

(* The clock is read, the scopes are listed and the record is read.        *)
Begin ==
    /\ At("idle")
    /\ run' = [run EXCEPT !.at = "journal",
                          !.refs = {record.selected} \ {None},
                          !.retired = record.revisions \ {record.selected}]
    /\ NoFault /\ Reading

ReadJournal ==
    /\ At("journal")
    /\ run' = [run EXCEPT !.at = "leases", !.refs = @ \cup OpenRows]
    /\ NoFault /\ Reading

\* Mutated: the leases are not asked.
RetainedByNobody == {{}}
\* Mutated: a lease retains whatever became of its owner.
RetainedForever == {Leased(Sessions)}
(* The leases that retain: those of the living, and of the dead those that *)
(* cannot be told from living ones.                                        *)
Retained ==
    {Leased(live)}
    \cup (IF faults < MaxFaults THEN {Leased(live \cup S) : S \in SUBSET Sessions} ELSE {})

ReadLeases ==
    /\ At("leases")
    /\ \E refs \in Retained :
         /\ run' = [run EXCEPT !.at = "scan", !.refs = @ \cup refs]
         /\ IF refs = Leased(live) THEN NoFault ELSE Fault
    /\ Reading

(* A hidden payload that is referenced by no publication makes a scan      *)
(* incomplete, in flight or left by a dead process.                        *)
Complete == ~residue /\ op.at # "copying"

(* retention.reconcile after a complete scan: the mark a key has then.     *)
Remarked(k) ==
    IF k \in run.refs \/ k \notin stored THEN None
    ELSE IF age[k] = None THEN 0 ELSE age[k]

(* firstUnreferencedAt + unreferencedGraceMs <= at                         *)
Ripe(a) == a # None /\ a >= Grace

(* From here on only the keys that are due matter; without one the rest of *)
(* the collection changes nothing.                                         *)
Proceed(phase, due) ==
    run' = IF due = {} THEN NoRun
           ELSE [run EXCEPT !.at = phase, !.due = due, !.retired = @ \cap due,
                            !.refs = {}]

Reconcile ==
    /\ At("scan")
    /\ IF Complete
       THEN /\ age' = [k \in Keys |-> Remarked(k)]
            /\ Proceed("prune", {k \in Keys : Ripe(Remarked(k))})
       ELSE run' = NoRun /\ UNCHANGED age
    /\ NoFault
    /\ Still /\ UNCHANGED record

(* The retired revisions that are due, one after the other: the record is  *)
(* read, and then changed if it is still the one read.                     *)
PruneRead ==
    /\ At("prune")
    /\ \/ \E k \in run.retired :
            LET rest == [run EXCEPT !.retired = @ \ {k}]
            IN run' = IF k # record.selected /\ k \in record.revisions
                      THEN [rest EXCEPT !.at = "commit", !.seen = record, !.key = k]
                      ELSE rest
       \/ run.retired = {} /\ Step("rescan")
    /\ NoFault /\ Reading

(* expectedGeneration, and the checks inside of the mutation.              *)
MayPrune(k) == record = run.seen /\ k # record.selected /\ k \in record.revisions

PruneCommit ==
    /\ At("commit")
    /\ run' = [run EXCEPT !.at = "prune", !.seen = Absent, !.key = None]
    /\ LET pruned == /\ MayPrune(run.key)
                     /\ record' = [record EXCEPT !.revisions = @ \ {run.key}]
       IN \/ NoFault /\ pruned
          \/ NoFault /\ ~MayPrune(run.key) /\ UNCHANGED record
          \/ Fault /\ (UNCHANGED record \/ pruned)
    /\ Still /\ UNCHANGED age

(* The first maxArtifactsPerRun of a scan, whatever becomes of them.       *)
Batch == {k \in stored : Cardinality({j \in stored : j <= k}) <= MaxArtifacts}

Rescan ==
    /\ At("rescan")
    /\ IF Complete THEN Proceed("restate", run.due \cap Batch) ELSE run' = NoRun
    /\ NoFault /\ Reading

(* refreshAuthoritativeReferences: the record with all of its revisions,   *)
(* then the journal, then the leases.                                      *)
RefreshState ==
    At("restate") /\ Proceed("rejournal", run.due \ record.revisions) /\ NoFault /\ Reading

RefreshJournal ==
    At("rejournal") /\ Proceed("releases", run.due \ OpenRows) /\ NoFault /\ Reading

RefreshLeases ==
    /\ At("releases")
    /\ \E refs \in Retained :
         /\ Proceed("sweep", run.due \ refs)
         /\ IF refs = Leased(live) THEN NoFault ELSE Fault
    /\ Reading

(* A removal that fails is left to a later collection.                     *)
Remove ==
    /\ At("sweep")
    /\ \E k \in run.due :
         \/ /\ NoFault
            /\ stored' = stored \ {k}
            /\ run' = [run EXCEPT !.at = "unmark", !.key = k, !.due = @ \ {k}]
         \/ Fault /\ Proceed("sweep", run.due \ {k}) /\ UNCHANGED stored
    /\ UNCHANGED <<residue, opVars, sessionVars, record, age>>

Unmark ==
    /\ At("unmark")
    /\ run' = IF run.due = {} THEN NoRun ELSE [run EXCEPT !.at = "sweep", !.key = None]
    /\ \/ NoFault /\ age' = [age EXCEPT ![run.key] = None]
       \/ Fault /\ UNCHANGED age
    /\ Still /\ UNCHANGED record

Collect == \/ Begin \/ ReadJournal \/ ReadLeases \/ Reconcile
           \/ PruneRead \/ PruneCommit \/ Rescan \/ RefreshState \/ RefreshJournal
           \/ RefreshLeases \/ Remove \/ Unmark

(* An age is counted up to the grace.                                      *)
Older(a) == IF a \in {None, Grace} THEN a ELSE a + 1
Tick ==
    /\ At("idle")
    /\ age' = [k \in Keys |-> Older(age[k])]
    /\ NoFault
    /\ Still /\ UNCHANGED <<record, run>>

-----------------------------------------------------------------------------
References == [by : {"record"}, key : record.revisions]
              \cup [by : {"journal"}, key : OpenRows]
              \cup [by : {"lease"}, key : Leased(live)]

(* Nothing selects k, no open row names it and no living session pins it.  *)
Inactive(k) == k # record.selected /\ k \notin OpenRows \cup Leased(live)

Track ==
    held' = IF run'.at \in {"restate", "rejournal", "releases", "sweep", "unmark"}
            THEN {r \in References' : r.key \in run'.due}
                   \cap (IF run.at = "rescan" THEN References' ELSE held)
            ELSE {}

Lifecycle == PrepareOp \/ Promote \/ Publish \/ CommitOp \/ EndOp \/ FailOp \/ Recover
Session == \E s \in Sessions : Pin(s) \/ EndSession(s)

Next == (Lifecycle \/ Session \/ Collect \/ Defer \/ Tick) /\ Track

(* Collections are started again and again, their calls return, and time   *)
(* passes.                                                                 *)
Fairness == WF_vars(Collect /\ Track) /\ SF_vars(Tick /\ Track)
Spec == Init /\ [][Next]_vars /\ Fairness

-----------------------------------------------------------------------------
(* What a collection removes was not referenced all the time since its     *)
(* refresh began: not by the record, not by the open rows of the journal   *)
(* and not by the leases of living sessions, each taken for itself.        *)
ReferencedContentStays ==
    [][\A k \in stored \ stored' : \A a \in Authorities : [by |-> a, key |-> k] \notin held]_vars

(* Content that stays inactive is removed in the end, with its revision,   *)
(* once no hidden payload makes the scans incomplete.                      *)
InactiveContentGoes ==
    \A k \in Keys : <>[](Inactive(k) /\ Complete) => <>[](k \notin stored)
=============================================================================
