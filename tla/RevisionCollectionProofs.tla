------------------------ MODULE RevisionCollectionProofs ------------------------
(***************************************************************************)
(* Proofs about RevisionCollection, for any revisions, sessions, grace,    *)
(* size of a run and number of faults.                                     *)
(*                                                                         *)
(* A collection asks three authorities one after the other, while          *)
(* lifecycle operations and sessions go on.  The history variable held     *)
(* says which references to content that is due have stood all along; each *)
(* authority that was asked has taken those of its own from what is due,   *)
(* so none of them is left there (HeldInv).                                *)
(***************************************************************************)
EXTENDS RevisionCollection, TLAPS

Ops == [at : {"idle", "prepared", "copying", "ready", "committed", "stuck"},
        from : Records, to : Records, row : SUBSET Keys]
Runs == [at : Phases, refs : SUBSET Keys, retired : SUBSET Keys,
         due : SUBSET Keys, seen : Records, key : Keys \cup {None}]
Ages == [Keys -> 0..Grace \cup {None}]

(* What a record selects is among its revisions.                           *)
Whole(r) == r.selected = None \/ r.selected \in r.revisions

OpInv ==
    /\ Whole(record) /\ Whole(op.from) /\ Whole(op.to)
    /\ op.at = "copying" => op.to.selected # None

(* The authorities that a collection has asked again.                      *)
Asked(at) == IF at = "rejournal" THEN {"record"}
             ELSE IF at = "releases" THEN {"record", "journal"}
             ELSE IF at \in {"sweep", "unmark"} THEN Authorities
             ELSE {}
HeldInv == \A r \in held : r.by \notin Asked(run.at)

IInv == TypeOK /\ OpInv /\ HeldInv

-----------------------------------------------------------------------------
LEMMA Constants ==
    /\ Grace \in Nat /\ MaxFaults \in Nat /\ None \notin Keys /\ None \notin Nat
    /\ Absent \in Records /\ NoOp \in Ops /\ NoRun \in Runs /\ Whole(Absent)
<1>1. Grace \in Nat /\ MaxFaults \in Nat /\ None \notin Keys /\ None \notin Nat
  BY ConstantsAreTyped
<1>2. Absent \in Records
  BY DEF Absent, Records
<1> QED BY <1>1, <1>2 DEF NoOp, Ops, NoRun, Runs, Phases, Whole, Absent

LEMMA InitIInv == Init => IInv
<1> SUFFICES ASSUME Init PROVE IInv
  OBVIOUS
<1>1. TypeOK
  <2>1. op \in Ops /\ run \in Runs /\ record \in Records
    BY Constants DEF Init
  <2>2. lease \in [Sessions -> SUBSET Keys] /\ age \in [Keys -> 0..Grace \cup {None}] /\ faults \in 0..MaxFaults
    BY Constants DEF Init
  <2> QED BY <2>1, <2>2 DEF Init, TypeOK, Ops, Runs
<1>2. OpInv
  BY Constants DEF Init, OpInv, NoOp, Whole
<1> QED BY <1>1, <1>2 DEF Init, HeldInv, IInv

(* The record after an operation, and after a collection.                  *)
LEMMA TargetsAreRecords ==
    ASSUME record \in Records, NEW to \in Targets
    PROVE  to \in Records /\ Whole(to)
BY Constants DEF Targets, Records, Whole

LEMMA PrunedIsRecord ==
    ASSUME record \in Records, NEW k
    PROVE  /\ [record EXCEPT !.revisions = @ \ {k}] \in Records
           /\ Whole(record) /\ k # record.selected => Whole([record EXCEPT !.revisions = @ \ {k}])
BY DEF Records, Whole

(* What a collection keeps of itself.                                      *)
LEMMA ProceedTypes ==
    ASSUME run \in Runs, NEW phase \in Phases, NEW dues \in SUBSET Keys, Proceed(phase, dues)
    PROVE  /\ run' \in Runs
           /\ run' = NoRun \/ (run'.at = phase /\ run'.due = dues)
<1>1. CASE dues = {}
  BY <1>1, Constants DEF Proceed
<1>2. CASE dues # {}
  <2>1. run' = [run EXCEPT !.at = phase, !.due = dues, !.retired = @ \cap dues, !.refs = {}]
    BY <1>2 DEF Proceed
  <2> QED BY <2>1 DEF Runs
<1> QED BY <1>1, <1>2

LEMMA RetainedTypes ==
    ASSUME lease \in [Sessions -> SUBSET Keys], live \subseteq Sessions, NEW refs \in Retained
    PROVE  refs \subseteq Keys /\ Leased(live) \subseteq refs
BY DEF Retained, Leased

-----------------------------------------------------------------------------
(* Whatever else a step does, the history keeps what stood before.         *)
LEMMA HeldStep ==
    ASSUME Track, run' \in Runs, record' \in Records
    PROVE  /\ held' \subseteq [by : Authorities, key : Keys]
           /\ \A r \in held' : r \in References' /\ r.key \in run'.due
           /\ run.at # "rescan" => held' \subseteq held
<1>1. CASE run'.at \in {"restate", "rejournal", "releases", "sweep", "unmark"}
  <2>1. \A r \in held' : r \in References' /\ r.key \in run'.due
    BY <1>1 DEF Track
  <2>2. \A r \in References' : r = [by |-> r.by, key |-> r.key] /\ r.by \in Authorities
    BY DEF References, Authorities
  <2>3. held' \subseteq [by : Authorities, key : Keys]
    BY <2>1, <2>2 DEF Runs
  <2>4. run.at # "rescan" => held' \subseteq held
    BY <1>1 DEF Track
  <2> QED BY <2>1, <2>3, <2>4
<1>2. CASE run'.at \notin {"restate", "rejournal", "releases", "sweep", "unmark"}
  BY <1>2 DEF Track
<1> QED BY <1>1, <1>2

\* A step that asks nobody.
LEMMA HeldStays ==
    ASSUME HeldInv, Track, run' \in Runs, record' \in Records,
           \/ run.at # "rescan" /\ Asked(run'.at) \subseteq Asked(run.at)
           \/ Asked(run'.at) = {}
    PROVE  HeldInv'
BY HeldStep DEF HeldInv

-----------------------------------------------------------------------------
(* The lifecycle and the sessions leave the collection alone.              *)
LEMMA OutsideStep ==
    ASSUME IInv, Track, UNCHANGED run, Fault \/ NoFault, stored' \subseteq Keys, residue' \in BOOLEAN,
           record' \in Records, op' \in Ops, left' \subseteq Keys, live' \subseteq Sessions,
           lease' \in [Sessions -> SUBSET Keys], age' \in Ages, OpInv'
    PROVE  IInv'
<1>1. run' \in Runs /\ faults' \in 0..MaxFaults
  BY Constants DEF IInv, TypeOK, Runs, Fault, NoFault
<1>2. HeldInv'
  <2>1. Asked(run.at) = {} \/ run.at # "rescan"
    BY DEF Asked
  <2> QED BY <1>1, <2>1, HeldStays DEF IInv
<1> QED BY <1>1, <1>2, HeldStep DEF IInv, TypeOK, Ops, Runs, Ages

LEMMA LifecycleStep ==
    ASSUME IInv, Lifecycle, Track
    PROVE  IInv'
<1>1. /\ record \in Records /\ op \in Ops /\ left \subseteq Keys /\ stored \subseteq Keys /\ OpInv
      /\ live \subseteq Sessions /\ lease \in [Sessions -> SUBSET Keys] /\ age \in Ages
      /\ residue \in BOOLEAN
  BY DEF IInv, TypeOK, Ops, Ages
<1>2. op.from \in Records /\ op.to \in Records /\ op.row \subseteq Keys
  BY <1>1 DEF Ops
<1>3. CASE PrepareOp
  <2>1. PICK to \in Targets :
          op' = [at |-> "prepared", from |-> record, to |-> to, row |-> record.revisions \cup to.revisions]
    BY <1>3 DEF PrepareOp
  <2>2. to \in Records /\ Whole(to)
    BY <1>1, TargetsAreRecords
  <2>3. op' \in Ops /\ op'.at # "copying" /\ op'.from = record /\ op'.to = to
    BY <1>1, <2>1, <2>2 DEF Ops, Records
  <2> QED BY <1>1, <1>3, <2>2, <2>3, OutsideStep DEF PrepareOp, sessionVars, OpInv
<1>4. CASE Promote
  <2>1. PICK at \in {"ready", "copying"} :
          op' = [op EXCEPT !.at = at] /\ (at = "copying" => op.to.selected # None)
    BY <1>4 DEF Promote, AlreadyPresent
  <2>2. op' \in Ops /\ op'.from = op.from /\ op'.to = op.to /\ op'.at = at
    BY <1>1, <2>1 DEF Ops
  <2> QED BY <1>1, <1>4, <2>1, <2>2, OutsideStep DEF Promote, sessionVars, OpInv
<1>5. CASE Publish
  <2>1. op' \in Ops /\ op'.from = op.from /\ op'.to = op.to /\ op'.at = "ready"
    BY <1>1, <1>5 DEF Publish, Ops
  <2>2. op.to.selected \in Keys
    BY <1>1, <1>2, <1>5 DEF Publish, OpInv, Records
  <2> QED BY <1>1, <1>5, <2>1, <2>2, OutsideStep DEF Publish, sessionVars, OpInv
<1>6. CASE CommitOp
  <2>1. \/ record' = op.to /\ op' = [op EXCEPT !.at = "committed"] /\ UNCHANGED left
        \/ op' = NoOp /\ left' = left \cup op.row /\ UNCHANGED record
    BY <1>6 DEF CommitOp
  <2>2. op' \in Ops /\ op'.at # "copying" /\ Whole(op'.from) /\ Whole(op'.to)
    BY <1>1, <2>1, Constants DEF Ops, OpInv, NoOp
  <2> QED BY <1>1, <1>2, <1>6, <2>1, <2>2, OutsideStep DEF CommitOp, sessionVars, OpInv
<1>7. CASE EndOp
  <2>1. \/ op' = NoOp /\ record' \in {op.to, op.from}
        \/ op' = [op EXCEPT !.at = "stuck"] /\ UNCHANGED record
    BY <1>7 DEF EndOp
  <2>2. op' \in Ops /\ op'.at # "copying" /\ Whole(op'.from) /\ Whole(op'.to)
    BY <1>1, <2>1, Constants DEF Ops, OpInv, NoOp
  <2> QED BY <1>1, <1>2, <1>7, <2>1, <2>2, OutsideStep DEF EndOp, sessionVars, OpInv
<1>8. CASE FailOp
  <2>1. residue' \in BOOLEAN
    BY <1>1, <1>8 DEF FailOp
  <2>2. NoOp \in Ops /\ NoOp.at # "copying" /\ Whole(NoOp.from) /\ Whole(NoOp.to)
    BY Constants DEF NoOp
  <2> QED BY <1>1, <1>2, <1>8, <2>1, <2>2, OutsideStep DEF FailOp, sessionVars, OpInv
<1>9. CASE Recover
  BY <1>1, <1>9, OutsideStep DEF Recover, sessionVars, OpInv
<1> QED BY <1>3, <1>4, <1>5, <1>6, <1>7, <1>8, <1>9 DEF Lifecycle

LEMMA SessionStep ==
    ASSUME IInv, Session, Track
    PROVE  IInv'
<1>1. /\ record \in Records /\ op \in Ops /\ left \subseteq Keys /\ stored \subseteq Keys /\ OpInv
      /\ live \subseteq Sessions /\ lease \in [Sessions -> SUBSET Keys] /\ age \in Ages
      /\ residue \in BOOLEAN
  BY DEF IInv, TypeOK, Ops, Ages
<1>2. PICK s \in Sessions : Pin(s) \/ EndSession(s)
  BY DEF Session
<1>3. live' \subseteq Sessions /\ lease' \in [Sessions -> SUBSET Keys]
  BY <1>1, <1>2 DEF Pin, EndSession
<1>4. UNCHANGED <<stored, residue, record, op, left, age, run>> /\ (Fault \/ NoFault)
  BY <1>2 DEF Pin, EndSession, opVars
<1> QED BY <1>1, <1>3, <1>4, OutsideStep DEF OpInv, Whole

LEMMA TickStep ==
    ASSUME IInv, Tick, Track
    PROVE  IInv'
<1>1. age' \in Ages
  <2>1. \A k \in Keys : Older(age[k]) \in 0..Grace \cup {None}
    BY Constants DEF Older, IInv, TypeOK
  <2> QED BY <2>1 DEF Tick, Ages
<1> QED BY <1>1, OutsideStep DEF Tick, Still, opVars, sessionVars, IInv, TypeOK, Ops, OpInv, Whole

-----------------------------------------------------------------------------
(* The collection.                                                         *)
LEMMA CollectorStep ==
    ASSUME IInv, Track, Fault \/ NoFault, UNCHANGED <<residue, op, left, live, lease>>,
           stored' \subseteq Keys, age' \in Ages, record' \in Records, Whole(record'),
           run' \in Runs, HeldInv'
    PROVE  IInv'
<1>1. faults' \in 0..MaxFaults
  BY Constants DEF IInv, TypeOK, Fault, NoFault
<1> QED BY <1>1, HeldStep DEF IInv, TypeOK, OpInv, Ops, Runs, Ages

\* A step that reads.
LEMMA ReadingStep ==
    ASSUME IInv, Track, Fault \/ NoFault, Reading, run' \in Runs, HeldInv'
    PROVE  IInv'
BY CollectorStep DEF Reading, Still, opVars, sessionVars, IInv, TypeOK, OpInv, Ages

LEMMA Types ==
    ASSUME IInv
    PROVE  /\ run \in Runs /\ record \in Records /\ OpInv /\ Whole(record) /\ HeldInv
           /\ age \in Ages /\ stored \subseteq Keys /\ OpenRows \subseteq Keys
           /\ lease \in [Sessions -> SUBSET Keys] /\ live \subseteq Sessions
           /\ run.due \subseteq Keys /\ run.refs \subseteq Keys /\ run.retired \subseteq Keys
BY DEF IInv, TypeOK, OpInv, Runs, Ages, OpenRows

LEMMA GatherStep ==
    ASSUME IInv, Track, Begin \/ ReadJournal \/ ReadLeases \/ Defer
    PROVE  IInv'
<1>1. CASE Begin
  <2>1. run' \in Runs /\ run'.at = "journal"
    BY <1>1, Types DEF Begin, Runs, Phases, Records
  <2> QED BY <1>1, <2>1, HeldStays, ReadingStep, Types DEF Begin, Reading, Asked
<1>2. CASE ReadJournal
  <2>1. run' \in Runs /\ run'.at = "leases"
    BY <1>2, Types DEF ReadJournal, Runs, Phases
  <2> QED BY <1>2, <2>1, HeldStays, ReadingStep, Types DEF ReadJournal, Reading, Asked
<1>3. CASE ReadLeases
  <2>1. PICK refs \in Retained : run' = [run EXCEPT !.at = "scan", !.refs = @ \cup refs]
    BY <1>3 DEF ReadLeases
  <2>2. refs \subseteq Keys
    BY RetainedTypes, Types
  <2>3. run' \in Runs /\ run'.at = "scan"
    BY <2>1, <2>2, Types DEF Runs, Phases
  <2>4. Fault \/ NoFault
    BY <1>3 DEF ReadLeases
  <2> QED BY <1>3, <2>3, <2>4, HeldStays, ReadingStep, Types DEF ReadLeases, Reading, Asked
<1>4. CASE Defer
  <2>1. run' \in Runs /\ run'.at = "idle"
    BY <1>4, Constants DEF Defer, NoRun
  <2> QED BY <1>4, <2>1, HeldStays, ReadingStep, Types DEF Defer, Reading, Asked
<1> QED BY <1>1, <1>2, <1>3, <1>4

LEMMA ReconcileStep ==
    ASSUME IInv, Track, Reconcile
    PROVE  IInv'
<1>1. CASE Complete
  <2>1. {k \in Keys : Ripe(Remarked(k))} \in SUBSET Keys /\ "prune" \in Phases
    BY DEF Phases
  <2>2. run' \in Runs /\ Asked(run'.at) = {}
    <3>1. Proceed("prune", {k \in Keys : Ripe(Remarked(k))})
      BY <1>1 DEF Reconcile
    <3> QED BY <2>1, <3>1, ProceedTypes, Types DEF NoRun, Asked
  <2>3. age' \in Ages
    <3>1. \A k \in Keys : Remarked(k) \in 0..Grace \cup {None}
      BY Constants, Types DEF Remarked, Ages
    <3> QED BY <1>1, <3>1 DEF Reconcile, Ages
  <2> QED BY <1>1, <2>2, <2>3, HeldStays, CollectorStep, Types DEF Reconcile, Still, opVars, sessionVars
<1>2. CASE ~Complete
  <2>1. run' \in Runs /\ run'.at = "idle" /\ UNCHANGED age
    BY <1>2, Constants DEF Reconcile, NoRun
  <2> QED BY <1>2, <2>1, HeldStays, CollectorStep, Types DEF Reconcile, Still, opVars, sessionVars, Asked
<1> QED BY <1>1, <1>2

LEMMA PruneReadStep ==
    ASSUME IInv, Track, PruneRead
    PROVE  IInv'
<1>1. CASE \E k \in run.retired :
             LET rest == [run EXCEPT !.retired = @ \ {k}]
             IN run' = IF k # record.selected /\ k \in record.revisions
                       THEN [rest EXCEPT !.at = "commit", !.seen = record, !.key = k]
                       ELSE rest
  <2>1. PICK k \in run.retired :
             \/ run' = [run EXCEPT !.retired = @ \ {k}]
             \/ run' = [[run EXCEPT !.retired = @ \ {k}] EXCEPT !.at = "commit", !.seen = record, !.key = k]
    BY <1>1
  <2>2. run.at = "prune"
    BY DEF PruneRead, At
  <2>3. run' \in Runs /\ run'.at \in {"prune", "commit"}
    BY <2>1, <2>2, Types DEF Runs, Phases
  <2> QED BY <2>3, HeldStays, ReadingStep, Types DEF PruneRead, Reading, Asked
<1>2. CASE Step("rescan")
  <2>1. run' \in Runs /\ run'.at = "rescan"
    BY <1>2, Types DEF Step, Runs, Phases
  <2> QED BY <2>1, HeldStays, ReadingStep, Types DEF PruneRead, Reading, Asked
<1> QED BY <1>1, <1>2 DEF PruneRead

LEMMA PruneCommitStep ==
    ASSUME IInv, Track, PruneCommit
    PROVE  IInv'
<1>1. run' \in Runs /\ run'.at = "prune"
  BY Types, Constants DEF PruneCommit, Runs, Phases
<1>2. record' \in Records /\ Whole(record')
  <2>1. \/ UNCHANGED record
        \/ run.key # record.selected /\ record' = [record EXCEPT !.revisions = @ \ {run.key}]
    BY DEF PruneCommit, MayPrune
  <2> QED BY <2>1, PrunedIsRecord, Types
<1>3. Fault \/ NoFault
  BY DEF PruneCommit
<1> QED BY <1>1, <1>2, <1>3, HeldStays, CollectorStep, Types DEF PruneCommit, Still, opVars, sessionVars, Asked

\* An authority that is asked again takes its own from what is due.
LEMMA AskingStep ==
    ASSUME IInv, Track, Fault \/ NoFault, Reading, NEW phase \in Phases, NEW a \in Authorities,
           NEW refs, Asked(phase) = Asked(run.at) \cup {a}, run.at # "rescan",
           \A r \in References : r.by = a => r.key \in refs,
           Proceed(phase, run.due \ refs)
    PROVE  IInv'
<1>1. run' \in Runs /\ (run' = NoRun \/ (run'.at = phase /\ run'.due = run.due \ refs))
  BY ProceedTypes, Types
<1>2. References' = References
  BY DEF References, Leased, OpenRows, Reading, Still, opVars, sessionVars
<1>3. CASE run' = NoRun
  BY <1>1, <1>3, HeldStays, ReadingStep, Types DEF NoRun, Asked, Reading
<1>4. CASE run'.at = phase /\ run'.due = run.due \ refs
  <2>1. record' \in Records
    BY Types DEF Reading
  <2>2. ASSUME NEW r \in held' PROVE r.by \notin Asked(phase)
    <3>1. r \in held /\ r \in References /\ r.key \in run.due \ refs
      BY <1>1, <1>2, <1>4, <2>1, HeldStep
    <3> QED BY <3>1, Types DEF HeldInv
  <2> QED BY <1>1, <1>4, <2>2, ReadingStep DEF HeldInv
<1> QED BY <1>1, <1>3, <1>4

LEMMA RefreshStep ==
    ASSUME IInv, Track, RefreshState \/ RefreshJournal \/ RefreshLeases
    PROVE  IInv'
<1>1. CASE RefreshState
  <2>1. "rejournal" \in Phases /\ Asked("rejournal") = Asked(run.at) \cup {"record"}
    BY <1>1 DEF Phases, RefreshState, At, Asked
  <2>2. \A r \in References : r.by = "record" => r.key \in record.revisions
    BY DEF References
  <2> QED BY <1>1, <2>1, <2>2, AskingStep DEF RefreshState, Authorities, At
<1>2. CASE RefreshJournal
  <2>1. "releases" \in Phases /\ Asked("releases") = Asked(run.at) \cup {"journal"}
    BY <1>2 DEF Phases, RefreshJournal, At, Asked
  <2>2. \A r \in References : r.by = "journal" => r.key \in OpenRows
    BY DEF References
  <2> QED BY <1>2, <2>1, <2>2, AskingStep DEF RefreshJournal, Authorities, At
<1>3. CASE RefreshLeases
  <2>1. "sweep" \in Phases /\ Asked("sweep") = Asked(run.at) \cup {"lease"}
    BY <1>3 DEF Phases, RefreshLeases, At, Asked, Authorities
  <2>2. PICK refs \in Retained : Proceed("sweep", run.due \ refs)
    BY <1>3 DEF RefreshLeases
  <2>3. Leased(live) \subseteq refs
    BY RetainedTypes, Types
  <2>4. \A r \in References : r.by = "lease" => r.key \in refs
    BY <2>3 DEF References
  <2>5. Fault \/ NoFault
    BY <1>3 DEF RefreshLeases
  <2> QED BY <1>3, <2>1, <2>2, <2>4, <2>5, AskingStep DEF RefreshLeases, Authorities, At
<1> QED BY <1>1, <1>2, <1>3

LEMMA RescanStep ==
    ASSUME IInv, Track, Rescan
    PROVE  IInv'
<1>1. run' \in Runs /\ Asked(run'.at) = {}
  <2>1. CASE Complete
    <3>1. run.due \cap Batch \in SUBSET Keys /\ "restate" \in Phases
      BY Types DEF Phases
    <3> QED BY <2>1, <3>1, ProceedTypes, Types DEF Rescan, NoRun, Asked
  <2>2. CASE ~Complete
    BY <2>2, Constants DEF Rescan, NoRun, Asked
  <2> QED BY <2>1, <2>2
<1> QED BY <1>1, HeldStays, ReadingStep, Types DEF Rescan, Reading

LEMMA SweepStep ==
    ASSUME IInv, Track, Remove \/ Unmark
    PROVE  IInv'
<1>1. run' \in Runs /\ run.at # "rescan" /\ Asked(run'.at) \subseteq Asked(run.at)
  <2>1. CASE Remove
    <3>1. PICK k \in run.due :
            \/ run' = [run EXCEPT !.at = "unmark", !.key = k, !.due = @ \ {k}]
            \/ Proceed("sweep", run.due \ {k})
      BY <2>1 DEF Remove
    <3>2. k \in Keys /\ run.due \ {k} \in SUBSET Keys /\ "sweep" \in Phases /\ "unmark" \in Phases
      BY Types DEF Phases
    <3>3. run' \in Runs /\ (run' = NoRun \/ run'.at \in {"sweep", "unmark"})
      <4>1. CASE run' = [run EXCEPT !.at = "unmark", !.key = k, !.due = @ \ {k}]
        BY <3>2, <4>1, Types DEF Runs
      <4>2. CASE Proceed("sweep", run.due \ {k})
        BY <3>2, <4>2, ProceedTypes, Types
      <4> QED BY <3>1, <4>1, <4>2
    <3>4. run.at = "sweep"
      BY <2>1 DEF Remove, At
    <3> QED BY <3>3, <3>4 DEF NoRun, Asked
  <2>2. CASE Unmark
    <3>1. run' = NoRun \/ run' = [run EXCEPT !.at = "sweep", !.key = None]
      BY <2>2 DEF Unmark
    <3>2. run' \in Runs /\ (run' = NoRun \/ run'.at = "sweep")
      BY <3>1, Constants, Types DEF Runs, Phases
    <3> QED BY <2>2, <3>2 DEF Unmark, At, NoRun, Asked
  <2> QED BY <2>1, <2>2
<1>2. stored' \subseteq stored /\ (Fault \/ NoFault) /\ UNCHANGED <<residue, op, left, live, lease, record>>
  BY DEF Remove, Unmark, Still, opVars, sessionVars
<1>3. age' \in Ages
  BY Types, Constants DEF Remove, Unmark, Ages
<1>4. HeldInv'
  BY <1>1, <1>2, HeldStays, Types
<1> QED BY <1>1, <1>2, <1>3, <1>4, CollectorStep, Types

-----------------------------------------------------------------------------
LEMMA NextIInv == IInv /\ [Next]_vars => IInv'
<1> SUFFICES ASSUME IInv, [Next]_vars PROVE IInv'
  OBVIOUS
<1>1. CASE UNCHANGED vars
  BY <1>1 DEF vars, opVars, sessionVars, IInv, TypeOK, OpInv, Whole, HeldInv
<1>2. CASE Next
  <2>1. CASE Lifecycle \/ Session \/ Tick
    BY <1>2, <2>1, LifecycleStep, SessionStep, TickStep DEF Next
  <2>2. CASE Collect \/ Defer
    BY <1>2, <2>2, GatherStep, ReconcileStep, PruneReadStep, PruneCommitStep, RescanStep, RefreshStep,
       SweepStep DEF Next, Collect
  <2> QED BY <1>2, <2>1, <2>2 DEF Next
<1> QED BY <1>1, <1>2

\* Beside their types: what is recorded as installed is among the plugin's
\* revisions, and an authority that was asked again refers to nothing that is due.
THEOREM InductiveInvariant == Spec => []IInv
BY InitIInv, NextIInv, PTL DEF Spec

\* The variables keep their types: ages stay within the grace, what is due, retired
\* or named by a row or a lease is content, and every reference in the history has
\* one of the three authorities (revision-collection-service.ts).
THEOREM TypeCorrect == Spec => []TypeOK
<1>1. IInv => TypeOK
  BY DEF IInv
<1> QED BY <1>1, InductiveInvariant, PTL

\* However prunings, updates, rollbacks and uninstalls overlap, the revision that
\* is selected stays in the record: a pruning compares the record with the one it
\* has read, inside of the mutation (revision-collection-service.ts, the pruning
\* of retired revisions).
SelectedIsRecorded == record.selected # None => record.selected \in record.revisions
THEOREM SelectedIsRecordedHolds == Spec => []SelectedIsRecorded
<1>1. IInv => SelectedIsRecorded
  BY DEF IInv, OpInv, Whole, SelectedIsRecorded
<1> QED BY <1>1, InductiveInvariant, PTL

\* Only the collection removes content.
LEMMA OnlyRemoveRemoves ==
    ASSUME [Next]_vars, NEW k \in stored \ stored'
    PROVE  run.at = "sweep"
<1>1. ~UNCHANGED vars /\ ~Lifecycle
  BY DEF vars, Lifecycle, PrepareOp, Promote, Publish, CommitOp, EndOp, FailOp, Recover
<1>2. ~Session /\ ~Tick /\ ~Defer
  BY DEF Session, Pin, EndSession, Tick, Defer, Reading, Still
<1>3. Collect => Remove
  BY DEF Collect, Begin, ReadJournal, ReadLeases, Reconcile, PruneRead, PruneCommit, Rescan,
     RefreshState, RefreshJournal, RefreshLeases, Unmark, Reading, Still
<1> QED BY <1>1, <1>2, <1>3 DEF Next, Remove, At

\* What a collection removes was not referenced all the time since its refresh
\* began: each of the three authorities has denied it at a moment in between
\* (refreshAuthoritativeReferences and the removals that follow).
THEOREM ReferencedContentStaysHolds == Spec => ReferencedContentStays
<1>1. ASSUME IInv, [Next]_vars, NEW k \in stored \ stored', NEW a \in Authorities
      PROVE  [by |-> a, key |-> k] \notin held
  <2>1. Asked(run.at) = Authorities
    BY <1>1, OnlyRemoveRemoves DEF Asked
  <2> QED BY <1>1, <2>1 DEF IInv, HeldInv
<1>2. IInv /\ [Next]_vars =>
        [\A k \in stored \ stored' : \A a \in Authorities : [by |-> a, key |-> k] \notin held]_vars
  BY <1>1
<1> QED BY <1>2, InductiveInvariant, PTL DEF Spec, ReferencedContentStays
=============================================================================
