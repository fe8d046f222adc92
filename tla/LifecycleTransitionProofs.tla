----------------------- MODULE LifecycleTransitionProofs -----------------------
(***************************************************************************)
(* Proofs about LifecycleTransition, for any operations, processes and     *)
(* revisions and any number of crashes and failing calls.                  *)
(*                                                                         *)
(* The record is written by an operation and by the recoveries of any      *)
(* number of processes, none of which knows how far the others got.  What  *)
(* keeps them apart is the marker: who writes finds its own marker on the  *)
(* record, and an operation that a recovery works on has stopped (Past).   *)
(* The invariant says what each place in execute and in recover may rely   *)
(* on; the history of effects lets the journal be compared with it.        *)
(***************************************************************************)
EXTENDS LifecycleTransition, TLAPS

(* Where an operation no longer writes the record.                         *)
Past == {"mark", "erase", "tidy", "done", "dead"}
(* Where it owns a row of the journal that is still prepared.              *)
Working == {"commit", "reread", "reload", "finish", "complete",
            "rewind", "recheck", "restore", "rollback"}
(* Where a recovery works on the operation whose marker it saw.            *)
Recovering == {"load", "local", "mutate", "settle", "mark"}

Begun(o) == pending = o /\ record = plan[o].candidate /\ effects[o] = {"began"}
Undone(o) == /\ "began" \in effects[o] /\ pending # o
             /\ plan[o].previous # None => "restored" \in effects[o] /\ "finished" \notin effects[o]
Erases(o) == plan[o] # None /\ plan[o].erase

(* The marker of o.                                                        *)
MarkerInv(o) ==
    pending = o =>
        /\ record # None /\ record \in {plan[o].candidate, plan[o].previous}
        /\ status[o] \notin {"missing", "completed", "rolled-back"}
        /\ "began" \in effects[o] /\ effects[o] \subseteq {"began", "rewound"}

(* What o has begun is open, or it has come to an end or been undone.      *)
EffectInv(o) ==
    effects[o] = {} \/ pending = o \/ "finished" \in effects[o] \/ "restored" \in effects[o]

(* Where o stands.                                                         *)
PcInv(o) ==
    /\ plan[o] = None <=> pc[o] = "idle"
    /\ host[o] # None => pc[o] # "idle"
    /\ pc[o] \in {"idle", "prepare"} => status[o] = "missing"
    /\ pc[o] \in {"idle", "prepare", "commit"} => effects[o] = {}
    /\ pc[o] \in Working => status[o] = "prepared"
    /\ pc[o] = "reread" => effects[o] = {} \/ Begun(o)
    /\ pc[o] \in {"reload", "finish", "rewind"} => Begun(o)
    /\ pc[o] \in {"recheck", "restore"} => "began" \in effects[o]
    /\ pc[o] = "rollback" => Undone(o)
    /\ pc[o] = "complete" => effects[o] = {"began", "finished"}
    /\ pc[o] = "erase" => status[o] = "completed" /\ Erases(o)

(* The journal row of o, and what its caller was told.                     *)
RowInv(o) ==
    /\ status[o] \notin {"missing", "prepared"} => pc[o] \in Past
    /\ effects[o] # {} => status[o] # "missing"
    /\ cleanup[o] # "not-required" => Erases(o)
    /\ status[o] = "completed" => effects[o] = {"began", "finished"}
    /\ status[o] = "rolled-back" => Undone(o)
    /\ report[o] # "none" => pc[o] \in Past
    /\ report[o] = "unchanged" => effects[o] = {}
    /\ report[o] = "changed" => status[o] = "completed"
    /\ report[o] = "rolled-back" => status[o] = "rolled-back"
    /\ report[o] = "aborted" => "finished" \notin effects[o]

OpInv(o) == MarkerInv(o) /\ PcInv(o) /\ RowInv(o)

(* What the recovery of p may rely on.                                     *)
ProcInv(p) ==
    /\ seen[p].pending # None => "began" \in effects[seen[p].pending]
    /\ phase[p] \in Recovering \cup {"owner"} => seen[p].pending # None
    /\ phase[p] \in Recovering => pc[seen[p].pending] \in Past
    /\ phase[p] = "settle" => Undone(seen[p].pending)
    /\ phase[p] = "tidy" => listed[p].item # None
    /\ \A o \in listed[p].erase : status[o] = "completed" /\ Erases(o)

IInv == /\ TypeOK
        /\ \A o \in Ops : OpInv(o) /\ EffectInv(o)
        /\ \A p \in Procs : ProcInv(p)

-----------------------------------------------------------------------------
(* Types.                                                                  *)
LEMMA NoneIsNoOp == /\ None \notin Ops /\ None \notin Procs /\ None \notin Record /\ None \notin Plan
                    /\ MaxFaults \in Nat
BY ConstantsAreTyped

LEMMA FaultsTyped ==
    ASSUME faults \in 0..MaxFaults, Fault \/ NoFault
    PROVE  faults' \in 0..MaxFaults
BY NoneIsNoOp DEF Fault, NoFault

LEMMA ProjectedTyped ==
    ASSUME NEW v, data \in BOOLEAN
    PROVE  Projected(v) \in BOOLEAN /\ (data => Projected(v))
<1>1. Projected(v) = TRUE \/ Projected(v) = FALSE
  BY Zenon DEF Projected
<1>2. data => Projected(v)
  BY Zenon DEF Projected
<1>3. Projected(v) \in BOOLEAN
  BY <1>1, Zenon
<1> QED BY <1>2, <1>3

LEMMA PlansTyped ==
    ASSUME record \in Value, NEW k \in Kinds
    PROVE  Plans(k) \subseteq Plan
<1> DEFINE to(v) == [previous : {record}, candidate : {v}, final : {v}, erase : {FALSE}]
<1>0. \A v \in Record : to(v) \subseteq Plan
  BY DEF Plan, Value
<1>1. CASE k = "install" \/ k = "update"
  <2>1. Plans(k) \subseteq UNION {to([rev |-> r, on |-> TRUE]) : r \in Revisions}
    BY <1>1 DEF Plans
  <2>2. \A r \in Revisions : [rev |-> r, on |-> TRUE] \in Record
    BY DEF Record
  <2> HIDE DEF to
  <2> QED BY <1>0, <2>1, <2>2
<1>3. CASE k = "enable"
  BY <1>3 DEF Plans, Plan, Value, Record
<1>4. CASE k = "disable"
  BY <1>4 DEF Plans, Plan, Value, Record
<1>5. CASE k = "uninstall"
  BY <1>5 DEF Plans, Plan, Value, Record
<1> QED BY <1>1, <1>3, <1>4, <1>5 DEF Kinds

-----------------------------------------------------------------------------
(* The writes of the record.  All but the first need the marker of o, and  *)
(* all are made where o stands as the guard says.                          *)
Finishes(o) == pc[o] = "finish" /\ pending = o /\ Write(o, plan[o].final, None, "finished")
Rewinds(o) == /\ pc[o] = "rewind" /\ pending = o /\ plan[o].previous # None
              /\ Write(o, plan[o].previous, o, "rewound")
Restores(o) == /\ pc[o] \in Past \cup {"rewind", "restore"} /\ pending = o
               /\ Write(o, plan[o].previous, None, "restored")
StateMove(o) ==
    \/ UNCHANGED stateVars
    \/ pc[o] = "commit" /\ Begin(o)
    \/ Finishes(o) \/ Rewinds(o) \/ Restores(o)

LEMMA OpIs ==
    ASSUME IInv, NEW o \in Ops
    PROVE  /\ MarkerInv(o) /\ PcInv(o) /\ RowInv(o) /\ o # None
           /\ plan[o] \in Plan \cup {None} /\ (pc[o] # "idle" => plan[o] \in Plan)
           /\ effects[o] \subseteq Effects /\ status[o] \in Statuses /\ pc[o] \in Steps
           /\ cleanup[o] \in Cleanups
<1>1. MarkerInv(o) /\ PcInv(o) /\ RowInv(o)
  BY DEF IInv, OpInv
<1>2. plan[o] \in Plan \cup {None} /\ effects[o] \subseteq Effects /\ status[o] \in Statuses /\ pc[o] \in Steps
      /\ cleanup[o] \in Cleanups
  BY DEF IInv, TypeOK
<1>3. pc[o] # "idle" => plan[o] \in Plan
  BY <1>1, <1>2 DEF PcInv
<1> QED BY <1>1, <1>2, <1>3, NoneIsNoOp

LEMMA WriteIs ==
    ASSUME TypeOK, NEW o \in Ops, NEW v \in Value, NEW ref \in Ops \cup {None}, NEW did \in Effects,
           Write(o, v, ref, did)
    PROVE  /\ record' = v /\ pending' = ref /\ record' \in Value /\ pending' \in Ops \cup {None}
           /\ effects' \in [Ops -> SUBSET Effects] /\ effects'[o] = effects[o] \cup {did}
           /\ \A q \in Ops : q # o => effects'[q] = effects[q]
BY DEF Write, TypeOK

(* What each write does.                                                   *)
LEMMA StateMoves ==
    ASSUME IInv, NEW o \in Ops, StateMove(o)
    PROVE  /\ record' \in Value /\ pending' \in Ops \cup {None} /\ effects' \in [Ops -> SUBSET Effects]
           /\ \/ record' = record /\ pending' = pending /\ effects' = effects
              \/ /\ pc[o] = "commit" /\ pending = None /\ pending' = o
                 /\ record = plan[o].previous /\ record' = plan[o].candidate /\ record' # None
                 /\ effects[o] = {} /\ effects'[o] = {"began"}
              \/ /\ pc[o] = "finish" /\ pending = o /\ pending' = None /\ record' = plan[o].final
                 /\ effects[o] = {"began"} /\ effects'[o] = {"began", "finished"}
              \/ /\ pc[o] = "rewind" /\ pending = o /\ pending' = o
                 /\ record' = plan[o].previous /\ record' # None
                 /\ effects[o] = {"began"} /\ effects'[o] = {"began", "rewound"}
              \/ /\ pc[o] \in Past \cup {"rewind", "restore"} /\ pending = o /\ pending' = None
                 /\ record' = plan[o].previous
                 /\ "began" \in effects[o] /\ effects[o] \subseteq {"began", "rewound"}
                 /\ effects'[o] = effects[o] \cup {"restored"}
           /\ \A q \in Ops : q # o => effects'[q] = effects[q]
<1>1. TypeOK /\ OpInv(o) /\ MarkerInv(o) /\ PcInv(o)
  BY OpIs DEF IInv
<1>2. CASE UNCHANGED stateVars
  BY <1>1, <1>2 DEF stateVars, TypeOK
<1>3. CASE pc[o] = "commit" /\ Begin(o)
  <2>1. plan[o] \in Plan /\ effects[o] = {}
    BY <1>1, <1>3, OpIs DEF PcInv
  <2>2. plan[o].candidate \in Value /\ plan[o].candidate \in Record /\ "began" \in Effects
    BY <2>1 DEF Plan, Value, Effects
  <2>3. pending = None /\ record = plan[o].previous /\ Write(o, plan[o].candidate, o, "began")
    BY <1>3 DEF Begin, Unchanged
  <2> QED BY <1>1, <1>3, <2>1, <2>2, <2>3, WriteIs, NoneIsNoOp
<1>4. CASE Finishes(o)
  <2>1. plan[o] \in Plan /\ effects[o] = {"began"} /\ pc[o] = "finish" /\ pending = o
    BY <1>1, <1>4, OpIs DEF PcInv, Finishes, Begun
  <2>2. plan[o].final \in Value /\ "finished" \in Effects
    BY <2>1 DEF Plan, Effects
  <2> QED BY <1>1, <1>4, <2>1, <2>2, WriteIs DEF Finishes
<1>5. CASE Rewinds(o)
  <2>1. plan[o] \in Plan /\ effects[o] = {"began"} /\ pc[o] = "rewind" /\ pending = o /\ plan[o].previous # None
    BY <1>1, <1>5, OpIs DEF PcInv, Rewinds, Begun
  <2>2. plan[o].previous \in Value /\ "rewound" \in Effects
    BY <2>1 DEF Plan, Effects
  <2> QED BY <1>1, <1>5, <2>1, <2>2, WriteIs DEF Rewinds
<1>6. CASE Restores(o)
  <2>1. plan[o] \in Plan /\ "began" \in effects[o] /\ effects[o] \subseteq {"began", "rewound"}
        /\ pc[o] \in Past \cup {"rewind", "restore"} /\ pending = o
    BY <1>1, <1>6, OpIs DEF MarkerInv, Restores, Past
  <2>2. plan[o].previous \in Value /\ "restored" \in Effects
    BY <2>1 DEF Plan, Effects
  <2> QED BY <1>1, <1>6, <2>1, <2>2, WriteIs DEF Restores
<1> QED BY <1>2, <1>3, <1>4, <1>5, <1>6 DEF StateMove

(* Effects only grow, what is undone stays so, and the marker of another   *)
(* operation is left alone.                                                *)
LEMMA MovesKeep ==
    ASSUME IInv, NEW o \in Ops, StateMove(o), UNCHANGED plan
    PROVE  /\ \A q \in Ops : effects[q] \subseteq effects'[q]
           /\ \A q \in Ops : Undone(q) => Undone(q)'
           /\ \A q \in Ops : q # o => /\ effects'[q] = effects[q] /\ (pending' = q <=> pending = q)
                                     /\ (pending = q => record' = record)
<1>1. PcInv(o) /\ MarkerInv(o) /\ \A q \in Ops : q # None
  BY OpIs
<1>2. \A q \in Ops : q # o => /\ effects'[q] = effects[q] /\ (pending' = q <=> pending = q)
                             /\ (pending = q => record' = record)
  BY <1>1, StateMoves
<1>3. \A q \in Ops : effects[q] \subseteq effects'[q]
  BY <1>2, StateMoves
<1>4. \A q \in Ops : Undone(q) => Undone(q)'
  <2>1. \A q \in Ops : q # o /\ Undone(q) => Undone(q)'
    BY <1>2 DEF Undone
  <2>2. Undone(o) => record' = record /\ pending' = pending /\ effects' = effects
    BY StateMoves DEF Undone
  <2>3. Undone(o) => Undone(o)'
    BY <2>2 DEF Undone
  <2> QED BY <2>1, <2>3
<1> QED BY <1>2, <1>3, <1>4

(* What was begun stays open until it is finished or restored.             *)
LEMMA EffectsKeep ==
    ASSUME IInv, NEW o \in Ops, StateMove(o), UNCHANGED plan
    PROVE  \A q \in Ops : EffectInv(q)'
<1>1. \A q \in Ops : EffectInv(q)
  BY DEF IInv
<1>2. \A q \in Ops : q # o => EffectInv(q)'
  BY <1>1, MovesKeep DEF EffectInv
<1>3. EffectInv(o)'
  BY <1>1, StateMoves DEF EffectInv
<1> QED BY <1>2, <1>3

LEMMA EffectsStay ==
    ASSUME IInv, UNCHANGED <<pending, effects>>
    PROVE  \A q \in Ops : EffectInv(q)'
BY DEF IInv, EffectInv

-----------------------------------------------------------------------------
(* What a step leaves alone.                                               *)
Grows == \A q \in Ops : /\ effects[q] \subseteq effects'[q] /\ (Undone(q) => Undone(q)')
                       /\ (pc[q] \in Past => pc'[q] \in Past)
                       /\ (status[q] = "completed" => status'[q] = "completed")
                       /\ (plan[q] # None => plan'[q] = plan[q])

LEMMA ProcKeeps ==
    ASSUME IInv, NEW p \in Procs, Grows,
           phase'[p] = phase[p], seen'[p] = seen[p], listed'[p] = listed[p]
    PROVE  ProcInv(p)'
<1>1. ProcInv(p) /\ seen[p].pending \in Ops \cup {None} /\ listed[p].erase \subseteq Ops
  BY DEF IInv, TypeOK
<1>2. \A o \in listed'[p].erase : status'[o] = "completed" /\ plan'[o] # None /\ plan'[o].erase
  BY <1>1 DEF ProcInv, Grows, Erases
<1>3. seen[p].pending # None => seen[p].pending \in Ops
  BY <1>1
<1>4. /\ seen'[p].pending # None => "began" \in effects'[seen'[p].pending]
      /\ phase'[p] \in Recovering \cup {"owner"} => seen'[p].pending # None
      /\ phase'[p] \in Recovering => pc'[seen'[p].pending] \in Past
  BY <1>1, <1>3 DEF ProcInv, Grows, Recovering
<1>5. ASSUME phase'[p] = "settle"
      PROVE  Undone(seen[p].pending)'
  <2>1. PICK q \in Ops : seen[p].pending = q /\ Undone(q)
    BY <1>1, <1>3, <1>5 DEF ProcInv, Recovering
  <2>2. Undone(q)' /\ seen'[p].pending = q
    BY <2>1 DEF Grows
  <2> QED BY <2>2 DEF Undone
<1>6. phase'[p] = "tidy" => listed'[p].item # None
  BY <1>1 DEF ProcInv
<1> QED BY <1>2, <1>4, <1>5, <1>6 DEF ProcInv, Erases, Undone

LEMMA OpKeeps ==
    ASSUME IInv, NEW q \in Ops, pc'[q] = pc[q], plan'[q] = plan[q], host'[q] = host[q], report'[q] = report[q],
           status'[q] = status[q], cleanup'[q] = cleanup[q], effects'[q] = effects[q],
           pending' = q <=> pending = q, pending = q => record' = record
    PROVE  OpInv(q)'
<1>1. MarkerInv(q) /\ PcInv(q) /\ RowInv(q)
  BY OpIs
<1>2. MarkerInv(q)'
  BY <1>1 DEF MarkerInv
<1>3. (Begun(q) <=> Begun(q)') /\ (Undone(q) <=> Undone(q)') /\ (Erases(q) <=> Erases(q)')
  <2>1. Begun(q) <=> Begun(q)'
    BY DEF Begun
  <2>2. Undone(q) <=> Undone(q)'
    BY DEF Undone
  <2>3. Erases(q) <=> Erases(q)'
    BY DEF Erases
  <2> QED BY <2>1, <2>2, <2>3
<1>4. PcInv(q)'
  BY <1>1, <1>3 DEF PcInv
<1>5. RowInv(q)'
  BY <1>1, <1>3 DEF RowInv
<1> QED BY <1>2, <1>4, <1>5 DEF OpInv

(* A step of o changes what is o's, and keeps the invariant of o.          *)
Works(o) ==
    /\ StateMove(o) /\ UNCHANGED <<plan, host, phase, seen, listed>>
    /\ Fault \/ NoFault
    /\ data' \in BOOLEAN
    /\ pc' \in [Ops -> Steps] /\ report' \in [Ops -> Reports]
    /\ status' \in [Ops -> Statuses] /\ cleanup' \in [Ops -> Cleanups]
    /\ \A q \in Ops : q # o => /\ pc'[q] = pc[q] /\ report'[q] = report[q]
                              /\ status'[q] = status[q] /\ cleanup'[q] = cleanup[q]
    /\ pc[o] \in Past => pc'[o] \in Past
    /\ status[o] = "completed" => status'[o] = "completed"

LEMMA WorkStep ==
    ASSUME IInv, NEW o \in Ops, Works(o), OpInv(o)'
    PROVE  IInv'
<1>1. /\ UNCHANGED <<plan, host, phase, seen, listed>> /\ StateMove(o)
      /\ \A q \in Ops : q # o => /\ pc'[q] = pc[q] /\ report'[q] = report[q]
                                /\ status'[q] = status[q] /\ cleanup'[q] = cleanup[q]
  BY DEF Works
<1>2. /\ \A q \in Ops : effects[q] \subseteq effects'[q] /\ (Undone(q) => Undone(q)')
      /\ \A q \in Ops : q # o => /\ effects'[q] = effects[q] /\ (pending' = q <=> pending = q)
                                /\ (pending = q => record' = record)
  BY <1>1, MovesKeep
<1>3. faults' \in 0..MaxFaults
  BY FaultsTyped DEF Works, IInv, TypeOK
<1>4. TypeOK'
  BY <1>1, <1>3, StateMoves DEF Works, IInv, TypeOK
<1>5. \A q \in Ops : OpInv(q)'
  <2>1. ASSUME NEW q \in Ops, q # o
        PROVE  OpInv(q)'
    BY <1>1, <1>2, <2>1, OpKeeps
  <2> QED BY <2>1
<1>6. Grows
  BY <1>1, <1>2 DEF Grows, Works
<1>7. \A p \in Procs : ProcInv(p)'
  BY <1>1, <1>6, ProcKeeps
<1>8. \A q \in Ops : EffectInv(q)'
  BY <1>1, EffectsKeep
<1> QED BY <1>4, <1>5, <1>7, <1>8 DEF IInv

-----------------------------------------------------------------------------
(* The journal.                                                            *)
JournalTyped == status' \in [Ops -> Statuses] /\ cleanup' \in [Ops -> Cleanups]
OnlyRow(o) == \A q \in Ops : q # o => status'[q] = status[q] /\ cleanup'[q] = cleanup[q]

LEMMA SettleIs ==
    ASSUME IInv, NEW o \in Ops, NEW outcome \in Terminal, Settle(o, outcome)
    PROVE  /\ JournalTyped /\ OnlyRow(o)
           /\ status[o] \in {"prepared", "recovery-required", outcome} /\ status'[o] = outcome
           /\ cleanup'[o] \in {cleanup[o], "not-required"}
BY DEF IInv, TypeOK, Settle, MaySettle, JournalTyped, OnlyRow, Statuses, Cleanups

LEMMA MarkRecoveryIs ==
    ASSUME IInv, NEW o \in Ops, MarkRecovery(o)
    PROVE  /\ JournalTyped /\ OnlyRow(o) /\ cleanup'[o] = cleanup[o]
           /\ status'[o] = status[o] \/ (status[o] \notin Terminal /\ status'[o] = "recovery-required")
BY DEF IInv, TypeOK, MarkRecovery, JournalTyped, OnlyRow, Statuses

LEMMA MarkCleanupIs ==
    ASSUME IInv, NEW o \in Ops, NEW s \in Cleanups, MarkCleanup(o, s)
    PROVE  /\ JournalTyped /\ OnlyRow(o) /\ status'[o] = status[o]
           /\ cleanup'[o] # "not-required" => cleanup[o] # "not-required"
BY DEF IInv, TypeOK, MarkCleanup, JournalTyped, OnlyRow

LEMMA JournalKept ==
    ASSUME IInv, NEW o \in Ops, UNCHANGED journalVars
    PROVE  JournalTyped /\ OnlyRow(o) /\ status'[o] = status[o] /\ cleanup'[o] = cleanup[o]
BY DEF IInv, TypeOK, journalVars, JournalTyped, OnlyRow

LEMMA CleanupFailedIs ==
    ASSUME IInv, NEW o \in Ops, CleanupFailed(o)
    PROVE  /\ JournalTyped /\ OnlyRow(o) /\ status'[o] = status[o]
           /\ cleanup'[o] # "not-required" => cleanup[o] # "not-required"
<1>1. "recovery-required" \in Cleanups
  BY DEF Cleanups
<1> QED BY <1>1, MarkCleanupIs, JournalKept DEF CleanupFailed

(* The undoing of o: whoever gets past it knows that o is undone.          *)
LEMMA UndoMoves ==
    ASSUME IInv, NEW o \in Ops, NEW v, Undo(o, v, FALSE), UNCHANGED plan,
           pc[o] \in Past \cup {"restore"}, "began" \in effects[o]
    PROVE  StateMove(o) /\ Undone(o)'
<1>1. CASE pending = o /\ Write(o, plan[o].previous, None, "restored")
  <2>1. StateMove(o)
    BY <1>1 DEF StateMove, Restores
  <2>2. pending' = None /\ effects'[o] = effects[o] \cup {"restored"} /\ "finished" \notin effects[o]
    <3>1. pending' = None /\ o # None /\ "finished" \notin effects[o]
      BY <1>1, OpIs DEF Write, MarkerInv
    <3> QED BY <1>1, <2>1, <3>1, StateMoves DEF Past
  <2> QED BY <2>1, <2>2, OpIs DEF Undone
<1>2. CASE Absent(o) /\ UNCHANGED stateVars
  <2>1. pending # o
    BY <1>2, OpIs DEF MarkerInv, Absent
  <2> QED BY <1>2, <2>1 DEF StateMove, stateVars, Undone, Absent
<1> QED BY <1>1, <1>2 DEF Undo, Matches

LEMMA RewindMoves ==
    ASSUME IInv, NEW o \in Ops, NEW v, Undo(o, v, TRUE), pc[o] = "rewind"
    PROVE  StateMove(o)
<1>1. CASE Matches(o, v) /\ plan[o].previous # None /\ Write(o, plan[o].previous, o, "rewound")
  BY <1>1 DEF StateMove, Rewinds, Matches
<1>2. CASE Matches(o, v) /\ Write(o, plan[o].previous, None, "restored")
  BY <1>2 DEF StateMove, Restores, Matches
<1>3. CASE UNCHANGED stateVars
  BY <1>3 DEF StateMove
<1> QED BY <1>1, <1>2, <1>3 DEF Undo

-----------------------------------------------------------------------------
(* The steps of execute.                                                   *)
Moves(o, s) == /\ pc' \in [Ops -> Steps] /\ pc'[o] = s
               /\ \A q \in Ops : q # o => pc'[q] = pc[q]
Tells(o, r) == /\ report' \in [Ops -> Reports] /\ report'[o] = r
               /\ \A q \in Ops : q # o => report'[q] = report[q]

LEMMA GotoIs ==
    ASSUME IInv, NEW o \in Ops, NEW s \in Steps
    PROVE  /\ Goto(o, s) => Moves(o, s)
           /\ UNCHANGED report => Tells(o, report[o])
           /\ \A r \in Reports : Answer(o, r, s) => Moves(o, s) /\ Tells(o, r)
BY DEF IInv, TypeOK, Goto, Answer, Moves, Tells

LEMMA Known ==
    /\ {"reread", "reload", "finish", "complete", "commit", "mark", "done", "erase", "tidy",
        "rewind", "recheck", "restore", "rollback", "dead"} \subseteq Steps
    /\ {"none", "unchanged", "aborted", "changed", "rolled-back", "unsettled"} \subseteq Reports
BY DEF Steps, Reports

(* How a step that has been described leaves the invariant.                *)
LEMMA WorksStep ==
    ASSUME IInv, NEW o \in Ops, NEW s \in Steps, NEW r \in Reports, Moves(o, s), Tells(o, r),
           StateMove(o), UNCHANGED <<plan, host, phase, seen, listed>>, Fault \/ NoFault, data' \in BOOLEAN,
           JournalTyped, OnlyRow(o),
           pc[o] \in Past => s \in Past, status[o] = "completed" => status'[o] = "completed",
           OpInv(o)'
    PROVE  IInv'
<1>1. Works(o)
  BY DEF Works, Moves, Tells, JournalTyped, OnlyRow
<1> QED BY <1>1, WorkStep

LEMMA PrepareStep ==
    ASSUME IInv, NEW o \in Ops, Prepare(o)
    PROVE  IInv'
<1>0. /\ pc[o] = "prepare" /\ StateMove(o) /\ UNCHANGED <<plan, host, phase, seen, listed, record, pending, effects>>
      /\ data' \in BOOLEAN /\ (Fault \/ NoFault)
  BY DEF Prepare, StateMove, stateVars, procVars, IInv, TypeOK
<1>1. MarkerInv(o) /\ PcInv(o) /\ RowInv(o) /\ plan[o] \in Plan /\ effects[o] = {} /\ pending # o
      /\ status[o] = "missing" /\ report[o] = "none"
  BY <1>0, OpIs DEF PcInv, MarkerInv, RowInv, Past
<1> DEFINE stored == /\ status' = [status EXCEPT ![o] = "prepared"]
                     /\ cleanup' = [cleanup EXCEPT ![o] =
                          IF plan[o].erase THEN "pending-data-delete" ELSE "not-required"]
<1>2. stored => /\ JournalTyped /\ OnlyRow(o) /\ status'[o] = "prepared"
                /\ (cleanup'[o] # "not-required" => Erases(o))
  <2>1. plan[o] # None
    BY <1>0, <1>1 DEF PcInv
  <2>2. CASE plan[o].erase
    BY <2>1, <2>2 DEF JournalTyped, OnlyRow, IInv, TypeOK, Statuses, Cleanups, Erases
  <2>3. CASE ~plan[o].erase
    BY <2>3 DEF JournalTyped, OnlyRow, IInv, TypeOK, Statuses, Cleanups
  <2> QED BY <2>2, <2>3
<1> HIDE DEF stored
<1>3. CASE stored /\ Goto(o, "commit") /\ UNCHANGED report
  <2>1. Moves(o, "commit") /\ Tells(o, "none")
    BY <1>1, <1>3, GotoIs, Known
  <2>2. OpInv(o)'
    BY <1>0, <1>1, <1>2, <1>3, <2>1 DEF OpInv, MarkerInv, PcInv, RowInv, Begun, Undone, Erases, Moves, Tells, Working
  <2> QED BY <1>0, <1>1, <1>2, <1>3, <2>1, <2>2, WorksStep, Known DEF Past
<1>4. CASE (stored \/ UNCHANGED journalVars) /\ Answer(o, "unchanged", "done")
  <2>1. Moves(o, "done") /\ Tells(o, "unchanged")
    BY <1>4, GotoIs, Known
  <2>2. JournalTyped /\ OnlyRow(o) /\ status'[o] \in {"missing", "prepared"}
        /\ (cleanup'[o] # "not-required" => Erases(o))
    BY <1>1, <1>2, <1>4, JournalKept DEF RowInv
  <2>3. OpInv(o)'
    BY <1>0, <1>1, <2>1, <2>2 DEF OpInv, MarkerInv, PcInv, RowInv, Begun, Undone, Erases, Moves, Tells, Working, Past
  <2> QED BY <1>0, <1>1, <2>1, <2>2, <2>3, WorksStep, Known DEF Past
<1> QED BY <1>3, <1>4 DEF Prepare, stored

LEMMA WorkingIs ==
    ASSUME IInv, NEW o \in Ops, pc[o] \in Working
    PROVE  /\ MarkerInv(o) /\ PcInv(o) /\ RowInv(o) /\ plan[o] \in Plan /\ plan[o] # None /\ o # None
           /\ status[o] = "prepared" /\ report[o] = "none" /\ pc[o] \notin Past
           /\ plan[o].candidate \in Record /\ plan[o].previous \in Value /\ plan[o].final \in Value
<1>1. pc[o] \notin Past /\ pc[o] # "idle"
  BY DEF Working, Past
<1>2. plan[o] \in Plan /\ MarkerInv(o) /\ PcInv(o) /\ RowInv(o) /\ o # None
  BY <1>1, OpIs
<1>3. plan[o] # None /\ status[o] = "prepared" /\ report[o] = "none"
  BY <1>1, <1>2 DEF PcInv, RowInv
<1> QED BY <1>1, <1>2, <1>3 DEF Plan

(* Most steps do not write the journal.                                    *)
LEMMA QuietStep ==
    ASSUME IInv, NEW o \in Ops, pc[o] \in Working, NEW s \in Steps,
           NEW r \in {"none", "unchanged", "aborted", "unsettled"}, Moves(o, s), Tells(o, r), StateMove(o),
           UNCHANGED <<plan, host, phase, seen, listed, status, cleanup>>, Fault \/ NoFault, data' \in BOOLEAN,
           r # "none" => s = "done", r = "unchanged" => effects'[o] = {},
           r = "aborted" => "finished" \notin effects'[o], PcInv(o)'
    PROVE  IInv'
<1>1. /\ MarkerInv(o) /\ RowInv(o) /\ plan[o] \in Plan /\ status[o] = "prepared" /\ pc[o] \notin Past
      /\ plan[o].candidate # None /\ plan[o].candidate \in Record /\ o # None
  BY WorkingIs, NoneIsNoOp
<1>2. JournalTyped /\ OnlyRow(o) /\ status'[o] = "prepared" /\ cleanup'[o] = cleanup[o]
  BY <1>1, JournalKept DEF journalVars
<1>3. MarkerInv(o)'
  <2>1. CASE record' = record /\ pending' = pending /\ effects' = effects
    BY <1>1, <1>2, <2>1 DEF MarkerInv
  <2>2. CASE pending' = None
    BY <1>1, <2>2 DEF MarkerInv
  <2>3. CASE pending' = o /\ record' \in {plan[o].candidate, plan[o].previous} /\ record' # None
             /\ effects'[o] \in {{"began"}, {"began", "rewound"}}
    BY <1>1, <1>2, <2>3 DEF MarkerInv
  <2> QED BY <2>1, <2>2, <2>3, StateMoves
<1>4. RowInv(o)'
  BY <1>1, <1>2 DEF RowInv, Erases, Moves, Tells, Past
<1>5. r \in Reports
  BY Known
<1> QED BY <1>1, <1>2, <1>3, <1>4, <1>5, WorksStep DEF OpInv

LEMMA FirstCommitStep ==
    ASSUME IInv, NEW o \in Ops, FirstCommit(o)
    PROVE  IInv'
<1>0. /\ pc[o] = "commit" /\ UNCHANGED <<plan, host, phase, seen, listed, status, cleanup>>
      /\ data' \in BOOLEAN /\ (Fault \/ NoFault)
  BY DEF FirstCommit, journalVars, procVars, IInv, TypeOK
<1>1. /\ pc[o] \in Working /\ plan[o] # None /\ report[o] = "none" /\ effects[o] = {} /\ status[o] = "prepared"
      /\ PcInv(o)
  BY <1>0, WorkingIs DEF Working, PcInv
<1>2. Begin(o) => StateMove(o) /\ Begun(o)'
  <2>1. ASSUME Begin(o)
        PROVE  StateMove(o) /\ pending' = o /\ record' = plan[o].candidate
    BY <1>0, <2>1 DEF StateMove, Begin, Write
  <2>2. Begin(o) => effects'[o] = {"began"}
    BY <1>1 DEF Begin, Write, IInv, TypeOK
  <2> QED BY <1>0, <2>1, <2>2 DEF Begun
<1>3. UNCHANGED stateVars => StateMove(o) /\ effects'[o] = {}
  BY <1>1 DEF StateMove, stateVars
<1>4. CASE Begin(o) /\ Goto(o, "reload") /\ UNCHANGED report
  <2>1. Moves(o, "reload") /\ Tells(o, "none")
    BY <1>1, <1>4, GotoIs, Known
  <2>2. PcInv(o)'
    BY <1>0, <1>1, <1>2, <1>4, <2>1 DEF PcInv, Moves, Working
  <2> QED BY <1>0, <1>1, <1>2, <1>4, <2>1, <2>2, QuietStep, Known
<1>5. CASE Answer(o, "unchanged", "done") /\ UNCHANGED stateVars
  <2>1. Moves(o, "done") /\ Tells(o, "unchanged")
    BY <1>5, GotoIs, Known
  <2>2. PcInv(o)'
    BY <1>0, <1>1, <2>1 DEF PcInv, Moves, Working
  <2> QED BY <1>0, <1>1, <1>3, <1>5, <2>1, <2>2, QuietStep, Known
<1>6. CASE (Begin(o) \/ UNCHANGED stateVars) /\ Goto(o, "reread") /\ UNCHANGED report
  <2>1. Moves(o, "reread") /\ Tells(o, "none")
    BY <1>1, <1>6, GotoIs, Known
  <2>2. PcInv(o)'
    BY <1>0, <1>1, <1>2, <1>3, <1>6, <2>1 DEF PcInv, Moves, Working
  <2> QED BY <1>0, <1>1, <1>2, <1>3, <1>6, <2>1, <2>2, QuietStep, Known
<1> QED BY <1>4, <1>5, <1>6 DEF FirstCommit

LEMMA RereadStep ==
    ASSUME IInv, NEW o \in Ops, Reread(o)
    PROVE  IInv'
<1>0. /\ pc[o] = "reread" /\ UNCHANGED <<plan, host, phase, seen, listed, status, cleanup, record, pending, effects>>
      /\ data' \in BOOLEAN /\ (Fault \/ NoFault) /\ StateMove(o)
  BY DEF Reread, stateVars, journalVars, procVars, IInv, TypeOK, StateMove
<1>1. /\ pc[o] \in Working /\ plan[o] # None /\ report[o] = "none" /\ status[o] = "prepared" /\ PcInv(o)
      /\ (effects[o] = {} \/ Begun(o)) /\ MarkerInv(o)
  BY <1>0, WorkingIs DEF Working, PcInv
<1>2. CASE pending = o /\ Goto(o, "reload") /\ UNCHANGED report
  <2>1. Moves(o, "reload") /\ Tells(o, "none")
    BY <1>1, <1>2, GotoIs, Known
  <2>2. Begun(o)'
    BY <1>0, <1>1, <1>2 DEF Begun, MarkerInv
  <2>3. PcInv(o)'
    BY <1>0, <1>1, <2>1, <2>2 DEF PcInv, Moves, Working
  <2> QED BY <1>0, <1>1, <2>1, <2>3, QuietStep, Known
<1>3. CASE \E r \in {"unsettled", "aborted"} : Answer(o, r, "done")
  <2>1. PICK r \in {"unsettled", "aborted"} : Answer(o, r, "done")
    BY <1>3
  <2>2. Moves(o, "done") /\ Tells(o, r)
    BY <2>1, GotoIs, Known
  <2>3. PcInv(o)'
    BY <1>0, <1>1, <2>2 DEF PcInv, Moves, Working
  <2>4. "finished" \notin effects'[o]
    BY <1>0, <1>1 DEF Begun
  <2> QED BY <1>0, <1>1, <2>1, <2>2, <2>3, <2>4, QuietStep, Known
<1> QED BY <1>2, <1>3 DEF Reread

LEMMA ReloadStep ==
    ASSUME IInv, NEW o \in Ops, Reload(o)
    PROVE  IInv'
<1>0. /\ pc[o] = "reload" /\ UNCHANGED <<plan, host, phase, seen, listed, status, cleanup, record, pending, effects, report>>
      /\ (Fault \/ NoFault) /\ StateMove(o)
      /\ data' \in {data, Projected(plan[o].candidate)}
  BY DEF Reload, stateVars, journalVars, procVars, StateMove
<1>1. data' \in BOOLEAN
  BY <1>0, ProjectedTyped DEF IInv, TypeOK
<1>2. /\ pc[o] \in Working /\ plan[o] # None /\ report[o] = "none" /\ status[o] = "prepared" /\ PcInv(o) /\ Begun(o)
  BY <1>0, WorkingIs DEF Working, PcInv
<1>3. PICK s \in {"finish", "rewind"} : Goto(o, s)
  BY DEF Reload
<1>4. Moves(o, s) /\ Tells(o, "none") /\ s \in Steps
  BY <1>0, <1>2, <1>3, GotoIs, Known
<1>5. PcInv(o)'
  BY <1>0, <1>2, <1>4 DEF PcInv, Moves, Working, Begun
<1> QED BY <1>0, <1>1, <1>2, <1>4, <1>5, QuietStep

LEMMA FinishStep ==
    ASSUME IInv, NEW o \in Ops, Finish(o)
    PROVE  IInv'
<1>0. /\ pc[o] = "finish" /\ UNCHANGED <<plan, host, phase, seen, listed, status, cleanup>>
      /\ data' \in BOOLEAN /\ (Fault \/ NoFault)
  BY DEF Finish, journalVars, procVars, IInv, TypeOK
<1>1. /\ pc[o] \in Working /\ plan[o] # None /\ report[o] = "none" /\ status[o] = "prepared" /\ PcInv(o) /\ Begun(o)
  BY <1>0, WorkingIs DEF Working, PcInv
<1> DEFINE final == /\ pending = o /\ record = plan[o].candidate
                    /\ Write(o, plan[o].final, None, "finished")
<1>2. /\ final => StateMove(o)
      /\ UNCHANGED stateVars => StateMove(o)
  BY <1>0 DEF StateMove, Finishes
<1>3. CASE final /\ Goto(o, "complete") /\ UNCHANGED report
  <2>1. Moves(o, "complete") /\ Tells(o, "none")
    BY <1>1, <1>3, GotoIs, Known
  <2>2. effects'[o] = {"began", "finished"}
    BY <1>1, <1>3 DEF Write, IInv, TypeOK, Begun
  <2>3. PcInv(o)'
    BY <1>0, <1>1, <2>1, <2>2 DEF PcInv, Moves, Working
  <2> QED BY <1>0, <1>1, <1>2, <1>3, <2>1, <2>3, QuietStep, Known
<1>4. CASE (final \/ UNCHANGED stateVars) /\ Goto(o, "mark") /\ UNCHANGED report
  <2>1. Moves(o, "mark") /\ Tells(o, "none")
    BY <1>1, <1>4, GotoIs, Known
  <2>2. PcInv(o)'
    BY <1>0, <1>1, <2>1 DEF PcInv, Moves, Working
  <2> QED BY <1>0, <1>1, <1>2, <1>4, <2>1, <2>2, QuietStep, Known
<1>5. CASE (final \/ UNCHANGED stateVars) /\ Answer(o, "unsettled", "done")
  <2>1. Moves(o, "done") /\ Tells(o, "unsettled")
    BY <1>5, GotoIs, Known
  <2>2. PcInv(o)'
    BY <1>0, <1>1, <2>1 DEF PcInv, Moves, Working
  <2> QED BY <1>0, <1>1, <1>2, <1>5, <2>1, <2>2, QuietStep, Known
<1> QED BY <1>3, <1>4, <1>5 DEF Finish

LEMMA RewindStep ==
    ASSUME IInv, NEW o \in Ops, Rewind(o)
    PROVE  IInv'
<1>0. /\ pc[o] = "rewind" /\ UNCHANGED <<plan, host, phase, seen, listed, status, cleanup, report>>
      /\ data' \in BOOLEAN /\ (Fault \/ NoFault)
  BY DEF Rewind, journalVars, procVars, IInv, TypeOK
<1>1. /\ pc[o] \in Working /\ plan[o] # None /\ report[o] = "none" /\ status[o] = "prepared" /\ PcInv(o) /\ Begun(o)
  BY <1>0, WorkingIs DEF Working, PcInv
<1>2. StateMove(o)
  BY <1>0, RewindMoves DEF Rewind, StateMove
<1>3. PICK s \in {"recheck", "mark"} : Goto(o, s)
  BY DEF Rewind
<1>4. Moves(o, s) /\ Tells(o, "none") /\ s \in Steps
  BY <1>0, <1>1, <1>3, GotoIs, Known
<1>5. "began" \in effects'[o]
  BY <1>0, <1>1, <1>2, MovesKeep DEF Begun
<1>6. PcInv(o)'
  BY <1>0, <1>1, <1>4, <1>5 DEF PcInv, Moves, Working
<1> QED BY <1>0, <1>1, <1>2, <1>4, <1>6, QuietStep

LEMMA RecheckStep ==
    ASSUME IInv, NEW o \in Ops, Recheck(o)
    PROVE  IInv'
<1>0. /\ pc[o] = "recheck" /\ UNCHANGED <<plan, host, phase, seen, listed, status, cleanup, report, effects>>
      /\ (Fault \/ NoFault) /\ StateMove(o) /\ data' \in {data, Projected(plan[o].previous)}
  BY DEF Recheck, stateVars, journalVars, procVars, StateMove
<1>1. data' \in BOOLEAN
  BY <1>0, ProjectedTyped DEF IInv, TypeOK
<1>2. /\ pc[o] \in Working /\ plan[o] # None /\ report[o] = "none" /\ status[o] = "prepared" /\ PcInv(o)
      /\ "began" \in effects[o]
  BY <1>0, WorkingIs DEF Working, PcInv
<1>3. PICK s \in {"restore", "mark"} : Goto(o, s)
  BY DEF Recheck
<1>4. Moves(o, s) /\ Tells(o, "none") /\ s \in Steps
  BY <1>0, <1>2, <1>3, GotoIs, Known
<1>5. PcInv(o)'
  BY <1>0, <1>2, <1>4 DEF PcInv, Moves, Working
<1> QED BY <1>0, <1>1, <1>2, <1>4, <1>5, QuietStep

LEMMA RestoreStep ==
    ASSUME IInv, NEW o \in Ops, Restore(o)
    PROVE  IInv'
<1> DEFINE from == IF plan[o].previous = None THEN plan[o].candidate ELSE plan[o].previous
<1>0. /\ pc[o] = "restore" /\ UNCHANGED <<plan, host, phase, seen, listed, status, cleanup, report>>
      /\ data' \in BOOLEAN /\ (Fault \/ NoFault)
  BY DEF Restore, journalVars, procVars, IInv, TypeOK
<1>1. /\ pc[o] \in Working /\ plan[o] # None /\ report[o] = "none" /\ status[o] = "prepared" /\ PcInv(o)
      /\ "began" \in effects[o]
  BY <1>0, WorkingIs DEF Working, PcInv
<1>2. Undo(o, from, FALSE) => StateMove(o) /\ Undone(o)'
  BY <1>0, <1>1, UndoMoves
<1>3. CASE Undo(o, from, FALSE) /\ Goto(o, "rollback")
  <2>1. Moves(o, "rollback") /\ Tells(o, "none")
    BY <1>0, <1>1, <1>3, GotoIs, Known
  <2>2. PcInv(o)'
    BY <1>0, <1>1, <1>2, <1>3, <2>1 DEF PcInv, Moves, Working
  <2> QED BY <1>0, <1>1, <1>2, <1>3, <2>1, <2>2, QuietStep, Known
<1>4. CASE (Undo(o, from, FALSE) \/ UNCHANGED stateVars) /\ Goto(o, "mark")
  <2>1. Moves(o, "mark") /\ Tells(o, "none")
    BY <1>0, <1>1, <1>4, GotoIs, Known
  <2>2. PcInv(o)'
    BY <1>0, <1>1, <2>1 DEF PcInv, Moves, Working
  <2>3. StateMove(o)
    BY <1>2, <1>4 DEF StateMove
  <2> QED BY <1>0, <1>1, <2>1, <2>2, <2>3, QuietStep, Known
<1> HIDE DEF from
<1>5. \/ Undo(o, from, FALSE) /\ Goto(o, "rollback")
      \/ (Undo(o, from, FALSE) \/ UNCHANGED stateVars) /\ Goto(o, "mark")
  BY Zenon DEF Restore, from
<1> QED BY <1>3, <1>4, <1>5

(* The steps that write the journal leave the record alone.                *)
LEMMA JournalStep ==
    ASSUME IInv, NEW o \in Ops, NEW s \in Past, NEW r \in Reports, Moves(o, s), Tells(o, r),
           UNCHANGED <<plan, host, phase, seen, listed, record, pending, effects>>, Fault \/ NoFault, data' \in BOOLEAN,
           JournalTyped, OnlyRow(o), pc[o] # "idle",
           status[o] = "completed" => status'[o] = "completed",
           cleanup'[o] # "not-required" => cleanup[o] # "not-required",
           \/ status'[o] = status[o]
           \/ status'[o] \in {"recovery-required", "abandoned"}
           \/ status'[o] = "completed" /\ effects[o] = {"began", "finished"}
           \/ status'[o] = "rolled-back" /\ Undone(o),
           r = "unchanged" => effects[o] = {}, r = "changed" => status'[o] = "completed", r = "rolled-back" => status'[o] = "rolled-back",
           r = "aborted" => "finished" \notin effects[o],
           s = "erase" => status'[o] = "completed" /\ Erases(o)
    PROVE  IInv'
<1>1. StateMove(o) /\ s \in Steps
  BY Known DEF StateMove, stateVars, Past
<1>2. MarkerInv(o) /\ PcInv(o) /\ RowInv(o) /\ plan[o] # None
  BY OpIs DEF PcInv
<1>3. MarkerInv(o)'
  BY <1>2 DEF MarkerInv, Undone
<1>4. PcInv(o)'
  BY <1>2 DEF PcInv, Moves, Working, Past, Erases
<1>5. RowInv(o)'
  BY <1>2 DEF RowInv, Moves, Tells, Past, Erases, Undone
<1> QED BY <1>1, <1>3, <1>4, <1>5, WorksStep DEF OpInv

LEMMA CompleteStep ==
    ASSUME IInv, NEW o \in Ops, Complete(o)
    PROVE  IInv'
<1>0. /\ pc[o] = "complete" /\ UNCHANGED <<plan, host, phase, seen, listed, record, pending, effects>>
      /\ data' \in BOOLEAN /\ (Fault \/ NoFault)
  BY DEF Complete, stateVars, procVars, IInv, TypeOK
<1>1. /\ pc[o] \in Working /\ pc[o] # "idle" /\ plan[o] # None /\ report[o] = "none" /\ status[o] = "prepared"
      /\ effects[o] = {"began", "finished"}
  BY <1>0, WorkingIs DEF Working, PcInv
<1>2. Settle(o, "completed") => /\ JournalTyped /\ OnlyRow(o) /\ status'[o] = "completed"
                                /\ (cleanup'[o] # "not-required" => cleanup[o] # "not-required")
  BY SettleIs DEF Terminal
<1>3. CASE Settle(o, "completed") /\ Answer(o, "changed", IF plan[o].erase THEN "erase" ELSE "done")
  <2>1. PICK s \in {"erase", "done"} : Answer(o, "changed", s) /\ (s = "erase" => plan[o].erase)
    BY <1>3
  <2>2. Moves(o, s) /\ Tells(o, "changed")
    BY <2>1, GotoIs, Known
  <2> QED BY <1>0, <1>1, <1>2, <1>3, <2>1, <2>2, JournalStep, Known DEF Past, Erases
<1>4. CASE (Settle(o, "completed") \/ UNCHANGED journalVars) /\ Goto(o, "mark") /\ UNCHANGED report
  <2>1. Moves(o, "mark") /\ Tells(o, "none")
    BY <1>1, <1>4, GotoIs, Known
  <2>2. /\ JournalTyped /\ OnlyRow(o) /\ status'[o] \in {"prepared", "completed"}
        /\ (cleanup'[o] # "not-required" => cleanup[o] # "not-required")
    BY <1>1, <1>2, <1>4, JournalKept
  <2> QED BY <1>0, <1>1, <2>1, <2>2, JournalStep, Known DEF Past
<1> QED BY <1>3, <1>4 DEF Complete

LEMMA RollbackStep ==
    ASSUME IInv, NEW o \in Ops, Rollback(o)
    PROVE  IInv'
<1>0. /\ pc[o] = "rollback" /\ UNCHANGED <<plan, host, phase, seen, listed, record, pending, effects>>
      /\ data' \in BOOLEAN /\ (Fault \/ NoFault)
  BY DEF Rollback, stateVars, procVars, IInv, TypeOK
<1>1. /\ pc[o] \in Working /\ pc[o] # "idle" /\ plan[o] # None /\ report[o] = "none" /\ status[o] = "prepared"
      /\ Undone(o)
  BY <1>0, WorkingIs DEF Working, PcInv
<1>2. Settle(o, "rolled-back") => /\ JournalTyped /\ OnlyRow(o) /\ status'[o] = "rolled-back"
                                  /\ (cleanup'[o] # "not-required" => cleanup[o] # "not-required")
  BY SettleIs DEF Terminal
<1>3. CASE Settle(o, "rolled-back") /\ Answer(o, "rolled-back", "done")
  <2>1. Moves(o, "done") /\ Tells(o, "rolled-back")
    BY <1>3, GotoIs, Known
  <2> QED BY <1>0, <1>1, <1>2, <1>3, <2>1, JournalStep, Known DEF Past
<1>4. CASE (Settle(o, "rolled-back") \/ UNCHANGED journalVars) /\ Goto(o, "mark") /\ UNCHANGED report
  <2>1. Moves(o, "mark") /\ Tells(o, "none")
    BY <1>1, <1>4, GotoIs, Known
  <2>2. /\ JournalTyped /\ OnlyRow(o) /\ status'[o] \in {"prepared", "rolled-back"}
        /\ (cleanup'[o] # "not-required" => cleanup[o] # "not-required")
    BY <1>1, <1>2, <1>4, JournalKept
  <2> QED BY <1>0, <1>1, <2>1, <2>2, JournalStep, Known DEF Past
<1> QED BY <1>3, <1>4 DEF Rollback

LEMMA MarkStep ==
    ASSUME IInv, NEW o \in Ops, Mark(o)
    PROVE  IInv'
<1>0. /\ pc[o] = "mark" /\ UNCHANGED <<plan, host, phase, seen, listed, record, pending, effects>>
      /\ data' \in BOOLEAN /\ (Fault \/ NoFault) /\ Answer(o, "unsettled", "done")
  BY DEF Mark, stateVars, procVars, IInv, TypeOK
<1>1. Moves(o, "done") /\ Tells(o, "unsettled")
  BY <1>0, GotoIs, Known
<1>2. /\ JournalTyped /\ OnlyRow(o) /\ cleanup'[o] = cleanup[o]
      /\ status'[o] = status[o] \/ (status[o] \notin Terminal /\ status'[o] = "recovery-required")
  BY MarkRecoveryIs, JournalKept DEF Mark
<1> QED BY <1>0, <1>1, <1>2, JournalStep, Known DEF Past, Terminal

LEMMA EraseStep ==
    ASSUME IInv, NEW o \in Ops, Erase(o)
    PROVE  IInv'
<1>0. /\ pc[o] = "erase" /\ UNCHANGED <<plan, host, phase, seen, listed, record, pending, effects, report>>
      /\ (Fault \/ NoFault) /\ data' \in {data, FALSE}
  BY DEF Erase, stateVars, procVars
<1>1. data' \in BOOLEAN
  BY <1>0 DEF IInv, TypeOK
<1>2. PICK s \in {"done", "tidy"} : Goto(o, s)
  BY DEF Erase
<1>3. Moves(o, s) /\ Tells(o, report[o]) /\ report[o] \in Reports /\ RowInv(o)
  BY <1>0, <1>2, GotoIs, Known, OpIs DEF IInv, TypeOK
<1>4. /\ JournalTyped /\ OnlyRow(o) /\ status'[o] = status[o]
      /\ cleanup'[o] # "not-required" => cleanup[o] # "not-required"
  BY JournalKept, CleanupFailedIs DEF Erase
<1> QED BY <1>0, <1>1, <1>3, <1>4, JournalStep, Known DEF Past, RowInv

LEMMA TidyStep ==
    ASSUME IInv, NEW o \in Ops, Tidy(o)
    PROVE  IInv'
<1>0. /\ pc[o] = "tidy" /\ UNCHANGED <<plan, host, phase, seen, listed, record, pending, effects, report>>
      /\ (Fault \/ NoFault) /\ data' \in BOOLEAN /\ Goto(o, "done")
  BY DEF Tidy, stateVars, procVars, IInv, TypeOK
<1>1. Moves(o, "done") /\ Tells(o, report[o]) /\ report[o] \in Reports /\ RowInv(o)
  BY <1>0, GotoIs, Known, OpIs DEF IInv, TypeOK
<1>2. /\ JournalTyped /\ OnlyRow(o) /\ status'[o] = status[o]
      /\ cleanup'[o] # "not-required" => cleanup[o] # "not-required"
  <2>1. "completed" \in Cleanups
    BY DEF Cleanups
  <2> QED BY <2>1, MarkCleanupIs, CleanupFailedIs DEF Tidy
<1> QED BY <1>0, <1>1, <1>2, JournalStep, Known DEF Past, RowInv

LEMMA StartStep ==
    ASSUME IInv, NEW o \in Ops, NEW p \in Procs, NEW k \in Kinds, Start(o, p, k)
    PROVE  IInv'
<1>1. PICK q \in Plans(k) : plan' = [plan EXCEPT ![o] = q]
  BY DEF Start
<1>2. /\ pc[o] = "idle" /\ host' = [host EXCEPT ![o] = p] /\ pc' = [pc EXCEPT ![o] = "prepare"]
      /\ UNCHANGED <<record, pending, effects, status, cleanup, data, report, phase, seen, listed, faults>>
  BY DEF Start, stateVars, journalVars, procVars, NoFault, Goto
<1>3. q \in Plan /\ q # None
  <2>1. q \in Plan
    BY <1>1, PlansTyped DEF IInv, TypeOK
  <2>2. plan[o] = None
    BY <1>2, OpIs DEF PcInv
  <2> QED BY <2>1, NoneIsNoOp
<1>4. TypeOK'
  <2>1. plan' \in [Ops -> Plan \cup {None}] /\ host' \in [Ops -> Procs \cup {None}] /\ pc' \in [Ops -> Steps]
    BY <1>1, <1>2, <1>3 DEF IInv, TypeOK, Steps
  <2> QED BY <1>2, <2>1 DEF IInv, TypeOK
<1>5. /\ pc'[o] = "prepare" /\ plan'[o] = q /\ host'[o] = p
      /\ \A r \in Ops : r # o => pc'[r] = pc[r] /\ plan'[r] = plan[r] /\ host'[r] = host[r]
  BY <1>1, <1>2 DEF IInv, TypeOK
<1>6. \A r \in Ops : OpInv(r)'
  <2>1. ASSUME NEW r \in Ops, r # o
        PROVE  OpInv(r)'
    BY <1>2, <1>5, <2>1, OpKeeps
  <2>2. OpInv(o)'
    <3>1. /\ MarkerInv(o) /\ PcInv(o) /\ RowInv(o) /\ plan[o] = None /\ effects[o] = {} /\ status[o] = "missing"
          /\ report[o] = "none" /\ cleanup[o] = "not-required" /\ pending # o
      BY <1>2, OpIs DEF PcInv, RowInv, MarkerInv, Past, Erases
    <3> QED BY <1>2, <1>3, <1>5, <3>1 DEF OpInv, MarkerInv, PcInv, RowInv, Working, Past
  <2> QED BY <2>1, <2>2
<1>7. Grows
  <2>1. plan[o] = None /\ effects[o] = {}
    BY <1>2, OpIs DEF PcInv
  <2>2. \A r \in Ops : Undone(r) => r # o
    BY <2>1 DEF Undone
  <2>3. \A r \in Ops : r # o /\ Undone(r) => Undone(r)'
    BY <1>2, <1>5 DEF Undone
  <2> QED BY <1>2, <1>5, <2>1, <2>2, <2>3 DEF Grows, Past
<1> QED BY <1>2, <1>4, <1>6, <1>7, ProcKeeps, EffectsStay DEF IInv

LEMMA ExitStep ==
    ASSUME IInv, NEW p \in Procs, Exit(p), Fault \/ NoFault
    PROVE  IInv'
<1>1. /\ pc' = [o \in Ops |-> IF o \in Hosted(p) THEN "dead" ELSE pc[o]]
      /\ host' = [o \in Ops |-> IF o \in Hosted(p) THEN None ELSE host[o]]
      /\ phase' = [phase EXCEPT ![p] = "down"] /\ seen' = [seen EXCEPT ![p] = Nothing]
      /\ listed' = [listed EXCEPT ![p] = NoRows]
      /\ UNCHANGED <<record, pending, effects, status, cleanup, data, plan, report>>
  BY DEF Exit, Enter, stateVars, journalVars
<1>2. TypeOK'
  <2>1. Nothing \in [record : Value, pending : Ops \cup {None}]
    BY DEF Nothing, Value
  <2>2. NoRows \in [erase : SUBSET Ops, prepared : SUBSET Ops, item : Ops \cup {None}]
    BY DEF NoRows
  <2>3. pc' \in [Ops -> Steps] /\ host' \in [Ops -> Procs \cup {None}] /\ phase' \in [Procs -> Phases]
    BY <1>1 DEF IInv, TypeOK, Steps, Phases
  <2>4. faults' \in 0..MaxFaults
    BY FaultsTyped DEF IInv, TypeOK
  <2> QED BY <1>1, <2>1, <2>2, <2>3, <2>4 DEF IInv, TypeOK
<1>3. ASSUME NEW o \in Ops
      PROVE  OpInv(o)'
  <2>1. CASE o \notin Hosted(p)
    BY <1>1, <2>1, OpKeeps
  <2>2. CASE o \in Hosted(p)
    <3>1. MarkerInv(o) /\ PcInv(o) /\ RowInv(o) /\ host[o] # None
      BY <2>2, OpIs, NoneIsNoOp DEF Hosted
    <3>2. pc'[o] = "dead" /\ host'[o] = None
      BY <1>1, <2>2
    <3> QED BY <1>1, <3>1, <3>2 DEF OpInv, MarkerInv, PcInv, RowInv, Working, Past, Undone, Erases
  <2> QED BY <2>1, <2>2
<1>4. Grows
  BY <1>1 DEF Grows, Undone, Past
<1>5. ASSUME NEW q \in Procs
      PROVE  ProcInv(q)'
  <2>1. CASE q # p
    BY <1>1, <1>4, <2>1, ProcKeeps DEF IInv, TypeOK
  <2>2. CASE q = p
    <3>1. phase'[p] = "down" /\ seen'[p].pending = None /\ listed'[p].erase = {}
      BY <1>1 DEF IInv, TypeOK, Nothing, NoRows
    <3> QED BY <2>2, <3>1 DEF ProcInv, Recovering
  <2> QED BY <2>1, <2>2
<1>6. \A o \in Ops : EffectInv(o)'
  BY <1>1, EffectsStay
<1> QED BY <1>2, <1>3, <1>5, <1>6 DEF IInv

-----------------------------------------------------------------------------
(* The recovery of process p: what it changes besides the record and the   *)
(* journal is its own.                                                     *)
Recovers(p) ==
    /\ UNCHANGED <<plan, pc, host, report>> /\ (Fault \/ NoFault) /\ data' \in BOOLEAN
    /\ phase' \in [Procs -> Phases] /\ seen' \in [Procs -> [record : Value, pending : Ops \cup {None}]]
    /\ listed' \in [Procs -> [erase : SUBSET Ops, prepared : SUBSET Ops, item : Ops \cup {None}]]
    /\ \A q \in Procs : q # p => phase'[q] = phase[q] /\ seen'[q] = seen[q] /\ listed'[q] = listed[q]

LEMMA RecoveryStep ==
    ASSUME IInv, NEW p \in Procs, Recovers(p), NEW o \in Ops, StateMove(o), OpInv(o)',
           JournalTyped, OnlyRow(o), status[o] = "completed" => status'[o] = "completed", ProcInv(p)'
    PROVE  IInv'
<1>1. UNCHANGED <<plan, pc, host, report>>
  BY DEF Recovers
<1>2. /\ \A q \in Ops : effects[q] \subseteq effects'[q] /\ (Undone(q) => Undone(q)')
      /\ \A q \in Ops : q # o => /\ effects'[q] = effects[q] /\ (pending' = q <=> pending = q)
                                /\ (pending = q => record' = record)
  BY <1>1, MovesKeep
<1>3. faults' \in 0..MaxFaults
  BY FaultsTyped DEF Recovers, IInv, TypeOK
<1>4. TypeOK'
  BY <1>1, <1>3, StateMoves DEF Recovers, JournalTyped, IInv, TypeOK
<1>5. \A q \in Ops : OpInv(q)'
  <2>1. ASSUME NEW q \in Ops, q # o
        PROVE  OpInv(q)'
    BY <1>1, <1>2, <2>1, OpKeeps DEF OnlyRow
  <2> QED BY <2>1
<1>6. Grows
  BY <1>1, <1>2 DEF Grows, OnlyRow
<1>7. ASSUME NEW q \in Procs
      PROVE  ProcInv(q)'
  <2>1. CASE q # p
    BY <1>6, <2>1, ProcKeeps DEF Recovers
  <2>2. CASE q = p
    BY <2>2
  <2> QED BY <2>1, <2>2
<1>8. \A q \in Ops : EffectInv(q)'
  BY <1>1, EffectsKeep
<1> QED BY <1>4, <1>5, <1>7, <1>8 DEF IInv

(* A step that only reads the record and the journal.                      *)
LEMMA ReadingStep ==
    ASSUME IInv, NEW p \in Procs, Recovers(p), UNCHANGED <<record, pending, effects, status, cleanup>>, ProcInv(p)'
    PROVE  IInv'
<1>1. UNCHANGED <<plan, pc, host, report>>
  BY DEF Recovers
<1>2. faults' \in 0..MaxFaults
  BY FaultsTyped DEF Recovers, IInv, TypeOK
<1>3. TypeOK'
  BY <1>1, <1>2 DEF Recovers, IInv, TypeOK
<1>4. \A q \in Ops : OpInv(q)'
  BY <1>1, OpKeeps
<1>5. Grows
  BY <1>1 DEF Grows, Undone
<1>6. \A q \in Procs : q # p => ProcInv(q)'
  BY <1>5, ProcKeeps DEF Recovers
<1> QED BY <1>3, <1>4, <1>6, EffectsStay DEF IInv

(* A step that writes the journal row of an operation that has stopped.    *)
LEMMA RowStep ==
    ASSUME IInv, NEW p \in Procs, Recovers(p), NEW o \in Ops, UNCHANGED <<record, pending, effects>>,
           JournalTyped, OnlyRow(o), status[o] = "completed" => status'[o] = "completed",
           cleanup'[o] # "not-required" => cleanup[o] # "not-required",
           \/ status'[o] = status[o]
           \/ /\ pc[o] \in Past /\ status[o] # "completed" /\ status[o] # "rolled-back"
              /\ status'[o] \in {"recovery-required", "abandoned"}
           \/ pc[o] \in Past /\ status[o] # "completed" /\ status'[o] = "rolled-back" /\ Undone(o),
           ProcInv(p)'
    PROVE  IInv'
<1>1. UNCHANGED <<plan, pc, host, report>>
  BY DEF Recovers
<1>2. MarkerInv(o) /\ PcInv(o) /\ RowInv(o)
  BY OpIs
<1>3. MarkerInv(o)'
  BY <1>1, <1>2 DEF MarkerInv, Undone
<1>4. PcInv(o)'
  BY <1>1, <1>2 DEF PcInv, Working, Past, Erases, Begun, Undone
<1>5. RowInv(o)'
  BY <1>1, <1>2 DEF RowInv, Past, Erases, Undone
<1>6. StateMove(o)
  BY DEF StateMove, stateVars
<1> QED BY <1>3, <1>4, <1>5, <1>6, RecoveryStep DEF OpInv

LEMMA PhasesAre == {"ready", "sweep", "tidy", "owner", "list"} \cup Recovering \subseteq Phases
BY DEF Phases, Recovering

LEMMA EnterIs ==
    ASSUME IInv, NEW p \in Procs, NEW s \in Phases, Enter(p, s)
    PROVE  phase' \in [Procs -> Phases] /\ phase'[p] = s /\ \A q \in Procs : q # p => phase'[q] = phase[q]
BY DEF IInv, TypeOK, Enter

LEMMA SweepIs ==
    ASSUME IInv, NEW p \in Procs, Sweep(p)
    PROVE  /\ phase' \in [Procs -> Phases] /\ phase'[p] = "sweep"
           /\ seen' \in [Procs -> [record : Value, pending : Ops \cup {None}]] /\ seen'[p].pending = None
           /\ \A q \in Procs : q # p => phase'[q] = phase[q] /\ seen'[q] = seen[q]
<1>1. Nothing \in [record : Value, pending : Ops \cup {None}] /\ Nothing.pending = None
  BY DEF Nothing, Value
<1> QED BY <1>1 DEF IInv, TypeOK, Sweep, Enter, Phases

(* The operation whose marker the recovery of p saw.                       *)
LEMMA SeenIs ==
    ASSUME IInv, NEW p \in Procs, phase[p] \in Recovering \cup {"owner"}
    PROVE  /\ seen[p].pending \in Ops /\ seen[p].pending # None /\ "began" \in effects[seen[p].pending]
           /\ phase[p] \in Recovering => pc[seen[p].pending] \in Past
           /\ plan[seen[p].pending] \in Plan
<1>1. ProcInv(p) /\ seen[p].pending \in Ops \cup {None}
  BY DEF IInv, TypeOK
<1>2. seen[p].pending \in Ops /\ seen[p].pending # None
  BY <1>1 DEF ProcInv
<1>3. pc[seen[p].pending] # "idle"
  BY <1>1, <1>2, OpIs DEF PcInv, ProcInv
<1> QED BY <1>1, <1>2, <1>3, OpIs DEF ProcInv

(* What the recovery of p relies on after a step of it.                    *)
LEMMA StillRecovering ==
    ASSUME IInv, NEW p \in Procs, NEW s \in Phases, phase'[p] = s, UNCHANGED <<plan, pc>>,
           listed'[p].erase \subseteq listed[p].erase,
           \A q \in Ops : effects[q] \subseteq effects'[q] /\ (status[q] = "completed" => status'[q] = "completed"),
           \/ seen'[p].pending = None /\ s \notin Recovering \cup {"owner"}
           \/ /\ seen'[p].pending = seen[p].pending
              /\ s \in Recovering \cup {"owner"} => seen[p].pending # None
              /\ s \in Recovering => pc[seen[p].pending] \in Past,
           s = "settle" => Undone(seen[p].pending)',
           s = "tidy" => listed'[p].item # None
    PROVE  ProcInv(p)'
<1>1. ProcInv(p) /\ seen[p].pending \in Ops \cup {None} /\ listed[p].erase \subseteq Ops
  BY DEF IInv, TypeOK
<1>2. \A o \in listed'[p].erase : status'[o] = "completed" /\ plan'[o] # None /\ plan'[o].erase
  BY <1>1 DEF ProcInv, Erases
<1>3. "settle" \in Recovering
  BY DEF Recovering
<1>4. seen'[p].pending # None => "began" \in effects'[seen'[p].pending]
  BY <1>1 DEF ProcInv
<1> QED BY <1>1, <1>2, <1>3, <1>4 DEF ProcInv, Erases

LEMMA BootStep ==
    ASSUME IInv, NEW p \in Procs, Boot(p)
    PROVE  IInv'
<1> DEFINE now == [record |-> record, pending |-> pending]
<1>1. /\ seen' = [seen EXCEPT ![p] = now] /\ Enter(p, "list") /\ NoFault
      /\ UNCHANGED <<record, pending, effects, status, cleanup, data, plan, pc, host, report, listed>>
  BY DEF Boot, stateVars, journalVars, opVars
<1>2. now \in [record : Value, pending : Ops \cup {None}]
  BY DEF IInv, TypeOK
<1>3. /\ phase' \in [Procs -> Phases] /\ phase'[p] = "list"
      /\ \A q \in Procs : q # p => phase'[q] = phase[q]
  BY <1>1, EnterIs, PhasesAre
<1>4. Recovers(p)
  BY <1>1, <1>2, <1>3 DEF Recovers, IInv, TypeOK
<1>5. seen'[p].pending = pending
  BY <1>1 DEF IInv, TypeOK
<1>6. pending # None => "began" \in effects'[pending]
  BY <1>1, OpIs DEF MarkerInv, IInv, TypeOK
<1>7. ProcInv(p)'
  <2>1. ProcInv(p)
    BY DEF IInv
  <2>2. \A o \in listed'[p].erase : status'[o] = "completed" /\ Erases(o)'
    BY <1>1, <2>1 DEF ProcInv, Erases
  <2> QED BY <1>3, <1>5, <1>6, <2>2 DEF ProcInv, Recovering
<1> QED BY <1>1, <1>4, <1>7, ReadingStep

LEMMA ListJournalStep ==
    ASSUME IInv, NEW p \in Procs, ListJournal(p)
    PROVE  IInv'
<1>1. /\ (Fault \/ NoFault)
      /\ UNCHANGED <<record, pending, effects, status, cleanup, data, plan, pc, host, report, seen>>
  BY DEF ListJournal, stateVars, journalVars, opVars
<1> DEFINE rows == [erase |-> {o \in Ops : Erasable(o)},
                    prepared |-> {o \in Ops : status[o] = "prepared" /\ o # seen[p].pending},
                    item |-> None]
<1>2. rows \in [erase : SUBSET Ops, prepared : SUBSET Ops, item : Ops \cup {None}]
  OBVIOUS
<1>3. \A o \in rows.erase : status[o] = "completed" /\ Erases(o)
  BY OpIs DEF Erasable, RowInv
<1>4. \A o \in rows.erase : status'[o] = "completed" /\ Erases(o)'
  BY <1>1, <1>3 DEF Erases
<1>5. ProcInv(p)
  BY DEF IInv
<1> HIDE DEF rows
<1>6. CASE listed' = [listed EXCEPT ![p] = rows] /\ Enter(p, IF seen[p].pending = None THEN "sweep" ELSE "owner")
  <2>1. PICK s \in {"sweep", "owner"} : Enter(p, s) /\ (s = "owner" => seen[p].pending # None)
    BY <1>6
  <2>2. phase' \in [Procs -> Phases] /\ phase'[p] = s /\ \A q \in Procs : q # p => phase'[q] = phase[q]
    BY <2>1, EnterIs, PhasesAre
  <2>3. /\ listed' \in [Procs -> [erase : SUBSET Ops, prepared : SUBSET Ops, item : Ops \cup {None}]]
        /\ listed'[p] = rows /\ \A q \in Procs : q # p => listed'[q] = listed[q]
    BY <1>2, <1>6 DEF IInv, TypeOK
  <2>4. Recovers(p)
    BY <1>1, <2>2, <2>3 DEF Recovers, IInv, TypeOK
  <2>5. ProcInv(p)'
    BY <1>1, <1>4, <1>5, <2>1, <2>2, <2>3 DEF ProcInv, Recovering
  <2> QED BY <1>1, <2>4, <2>5, ReadingStep
<1>7. CASE Enter(p, "ready") /\ UNCHANGED listed
  <2>1. phase' \in [Procs -> Phases] /\ phase'[p] = "ready" /\ \A q \in Procs : q # p => phase'[q] = phase[q]
    BY <1>7, EnterIs, PhasesAre
  <2>2. Recovers(p)
    BY <1>1, <1>7, <2>1 DEF Recovers, IInv, TypeOK
  <2>3. ProcInv(p)'
    BY <1>1, <1>7, <2>1, StillRecovering, PhasesAre DEF Recovering
  <2> QED BY <1>1, <2>2, <2>3, ReadingStep
<1> QED BY <1>6, <1>7 DEF ListJournal, rows

(* A step that moves p on, the record and the journal left alone.          *)
LEMMA MovingOn ==
    ASSUME IInv, NEW p \in Procs, NEW s \in Phases \ {"settle", "tidy"}, Enter(p, s), Fault \/ NoFault,
           UNCHANGED <<record, pending, effects, status, cleanup, plan, pc, host, report>>,
           data' \in BOOLEAN,
           listed' \in [Procs -> [erase : SUBSET Ops, prepared : SUBSET Ops, item : Ops \cup {None}]],
           listed'[p].erase \subseteq listed[p].erase,
           \A q \in Procs : q # p => listed'[q] = listed[q],
           seen' \in [Procs -> [record : Value, pending : Ops \cup {None}]],
           \A q \in Procs : q # p => seen'[q] = seen[q],
           seen'[p].pending = seen[p].pending,
           s \in Recovering \cup {"owner"} => seen[p].pending # None,
           s \in Recovering => pc[seen[p].pending] \in Past
    PROVE  IInv'
<1>1. s \in Phases
  OBVIOUS
<1>2. phase' \in [Procs -> Phases] /\ phase'[p] = s /\ \A q \in Procs : q # p => phase'[q] = phase[q]
  BY <1>1, EnterIs
<1>3. Recovers(p)
  BY <1>2 DEF Recovers
<1>4. \A q \in Ops : effects[q] \subseteq effects'[q] /\ (status[q] = "completed" => status'[q] = "completed")
  OBVIOUS
<1>5. ProcInv(p)'
  BY <1>1, <1>2, <1>4, StillRecovering
<1> QED BY <1>3, <1>5, ReadingStep

LEMMA CheckOwnerStep ==
    ASSUME IInv, NEW p \in Procs, CheckOwner(p)
    PROVE  IInv'
<1> DEFINE o == seen[p].pending
<1>1. /\ phase[p] = "owner" /\ NoFault
      /\ UNCHANGED <<record, pending, effects, status, cleanup, data, plan, pc, host, report, listed>>
  BY DEF CheckOwner, stateVars, journalVars, opVars
<1>2. o \in Ops /\ o # None /\ "began" \in effects[o]
  BY <1>1, SeenIs
<1>3. CASE Sweep(p)
  <2>1. Recovers(p) /\ phase'[p] = "sweep" /\ seen'[p].pending = None
    BY <1>1, <1>3, SweepIs DEF Recovers, IInv, TypeOK
  <2>2. ProcInv(p)'
    BY <1>1, <2>1, StillRecovering, PhasesAre DEF Recovering
  <2> QED BY <1>1, <2>1, <2>2, ReadingStep
<1>4. CASE ~Owned(o) /\ Enter(p, "load") /\ UNCHANGED seen
  <2>1. pc[o] \in Past
    <3>1. status[o] # "missing"
      BY <1>2, OpIs DEF RowInv
    <3> QED BY <1>2, <1>4, <3>1, OpIs DEF Owned, RowInv, Past
  <2> QED BY <1>1, <1>2, <1>4, <2>1, MovingOn, PhasesAre DEF Recovering, IInv, TypeOK
<1> QED BY <1>3, <1>4 DEF CheckOwner

LEMMA LoadCurrentStep ==
    ASSUME IInv, NEW p \in Procs, LoadCurrent(p)
    PROVE  IInv'
<1> DEFINE o == seen[p].pending
<1>0. TypeOK
  BY DEF IInv
<1>1. /\ phase[p] = "load" /\ NoFault
      /\ UNCHANGED <<record, pending, effects, status, cleanup, data, plan, pc, host, report, listed>>
  BY DEF LoadCurrent, stateVars, journalVars, opVars
<1>2. o \in Ops /\ o # None /\ pc[o] \in Past
  BY <1>1, SeenIs DEF Recovering
<1>3. \/ seen' = [seen EXCEPT ![p].record = record] /\ Enter(p, "local")
      \/ Enter(p, "mark") /\ UNCHANGED seen
  BY DEF LoadCurrent
<1>4. PICK s \in {"local", "mark"} : Enter(p, s)
  BY <1>3
<1>5. /\ seen' \in [Procs -> [record : Value, pending : Ops \cup {None}]]
      /\ seen'[p].pending = seen[p].pending /\ \A q \in Procs : q # p => seen'[q] = seen[q]
  BY <1>0, <1>3 DEF TypeOK
<1>6. s \in Phases \ {"settle", "tidy"}
  BY DEF Phases
<1>7. /\ data' \in BOOLEAN
      /\ listed' \in [Procs -> [erase : SUBSET Ops, prepared : SUBSET Ops, item : Ops \cup {None}]]
      /\ listed'[p].erase \subseteq listed[p].erase /\ \A q \in Procs : q # p => listed'[q] = listed[q]
  BY <1>0, <1>1 DEF TypeOK
<1> QED BY <1>1, <1>2, <1>4, <1>5, <1>6, <1>7, MovingOn

LEMMA ReconcileLocalStep ==
    ASSUME IInv, NEW p \in Procs, ReconcileLocal(p)
    PROVE  IInv'
<1> DEFINE o == seen[p].pending
<1>1. /\ phase[p] = "local" /\ (Fault \/ NoFault)
      /\ UNCHANGED <<record, pending, effects, status, cleanup, plan, pc, host, report, seen, listed>>
  BY DEF ReconcileLocal, stateVars, journalVars, opVars
<1>2. o \in Ops /\ o # None /\ pc[o] \in Past
  BY <1>1, SeenIs DEF Recovering
<1>3. data \in BOOLEAN
  BY DEF IInv, TypeOK
<1>4. data' \in BOOLEAN
  BY <1>3, ProjectedTyped DEF ReconcileLocal
<1>5. PICK s \in {"mutate", "mark"} : Enter(p, s)
  BY DEF ReconcileLocal
<1>6. s \in Phases \ {"settle", "tidy"}
  BY DEF Phases
<1> QED BY <1>1, <1>2, <1>4, <1>5, <1>6, MovingOn DEF IInv, TypeOK

LEMMA ServeStep ==
    ASSUME IInv, NEW p \in Procs, Serve(p)
    PROVE  IInv'
<1>1. /\ NoFault /\ Enter(p, "ready") /\ listed' = [listed EXCEPT ![p] = NoRows]
      /\ UNCHANGED <<record, pending, effects, status, cleanup, plan, pc, host, report, seen>>
      /\ data' = IF pending = None THEN Projected(record) ELSE data
  BY DEF Serve, stateVars, journalVars, opVars
<1>2. data \in BOOLEAN /\ Projected(record) \in BOOLEAN
  BY ProjectedTyped DEF IInv, TypeOK
<1>3. data' \in BOOLEAN
  <2>1. CASE pending = None
    BY <1>1, <1>2, <2>1
  <2>2. CASE pending # None
    BY <1>1, <1>2, <2>2
  <2> QED BY <2>1, <2>2
<1>4. NoRows \in [erase : SUBSET Ops, prepared : SUBSET Ops, item : Ops \cup {None}] /\ NoRows.erase = {}
  BY DEF NoRows
<1>5. /\ listed' \in [Procs -> [erase : SUBSET Ops, prepared : SUBSET Ops, item : Ops \cup {None}]]
      /\ listed'[p].erase \subseteq listed[p].erase
      /\ \A q \in Procs : q # p => listed'[q] = listed[q]
  BY <1>1, <1>4 DEF IInv, TypeOK
<1>6. "ready" \in Phases \ {"settle", "tidy"} /\ "ready" \notin Recovering \cup {"owner"}
  BY DEF Phases, Recovering
<1> QED BY <1>1, <1>3, <1>5, <1>6, MovingOn DEF IInv, TypeOK

LEMMA RestorePreviousStep ==
    ASSUME IInv, NEW p \in Procs, RestorePrevious(p)
    PROVE  IInv'
<1>0. /\ phase[p] = "mutate" /\ (Fault \/ NoFault)
      /\ UNCHANGED <<status, cleanup, data, plan, pc, host, report, seen, listed>>
  BY DEF RestorePrevious, journalVars, opVars
<1>1. seen[p].pending \in Ops /\ seen[p].pending # None /\ "began" \in effects[seen[p].pending]
      /\ pc[seen[p].pending] \in Past
  BY <1>0, SeenIs DEF Recovering
<1>2. PICK o \in Ops : o = seen[p].pending
  BY <1>1
<1>3. PICK s \in {"settle", "mark"} :
         /\ Enter(p, s)
         /\ Undo(o, seen[p].record, FALSE) \/ (s = "mark" /\ UNCHANGED stateVars)
  BY <1>2 DEF RestorePrevious
<1>4. Undo(o, seen[p].record, FALSE) => StateMove(o) /\ Undone(o)'
  BY <1>0, <1>1, <1>2, UndoMoves
<1>5. StateMove(o)
  BY <1>3, <1>4 DEF StateMove
<1>6. s \in Phases /\ s \in Recovering /\ s # "tidy"
  BY DEF Phases, Recovering
<1>7. phase' \in [Procs -> Phases] /\ phase'[p] = s /\ \A q \in Procs : q # p => phase'[q] = phase[q]
  BY <1>3, <1>6, EnterIs
<1>8. Recovers(p)
  BY <1>0, <1>7 DEF Recovers, IInv, TypeOK
<1>9. \A q \in Ops : effects[q] \subseteq effects'[q] /\ (status[q] = "completed" => status'[q] = "completed")
  BY <1>0, <1>5, MovesKeep
<1>10. s = "settle" => Undone(seen[p].pending)'
  <2>1. s = "settle" => Undone(o)'
    BY <1>3, <1>4
  <2> QED BY <1>0, <1>2, <2>1 DEF Undone
<1>11. ProcInv(p)'
  BY <1>0, <1>1, <1>6, <1>7, <1>9, <1>10, StillRecovering
<1>12. /\ MarkerInv(o) /\ PcInv(o) /\ RowInv(o) /\ plan[o] \in Plan /\ pc[o] \in Past /\ o # None
       /\ pc[o] \notin {"commit", "finish", "rewind"}
  BY <1>1, <1>2, OpIs DEF Past
<1>13. \/ record' = record /\ pending' = pending /\ effects' = effects
       \/ /\ pending = o /\ pending' = None /\ "began" \in effects[o] /\ effects[o] \subseteq {"began", "rewound"}
          /\ effects'[o] = effects[o] \cup {"restored"}
  BY <1>5, <1>12, StateMoves
<1>14. OpInv(o)'
  <2>1. MarkerInv(o)'
    BY <1>0, <1>12, <1>13 DEF MarkerInv
  <2>2. PcInv(o)'
    BY <1>0, <1>12 DEF PcInv, Past, Working, Erases
  <2>3. RowInv(o)'
    <3>1. status[o] # "completed" \/ effects' = effects
      BY <1>12, <1>13 DEF RowInv, MarkerInv
    <3>2. report[o] = "unchanged" => effects'[o] = {}
      BY <1>12, <1>13 DEF RowInv
    <3>3. Undone(o) => Undone(o)'
      BY <1>0, <1>5, MovesKeep
    <3> QED BY <1>0, <1>12, <1>13, <3>1, <3>2, <3>3 DEF RowInv, Erases
  <2> QED BY <2>1, <2>2, <2>3 DEF OpInv
<1>15. JournalTyped /\ OnlyRow(o)
  BY <1>0, JournalKept DEF journalVars
<1> QED BY <1>0, <1>5, <1>8, <1>11, <1>14, <1>15, RecoveryStep

LEMMA SettleRestoredStep ==
    ASSUME IInv, NEW p \in Procs, SettleRestored(p)
    PROVE  IInv'
<1>0. /\ phase[p] = "settle" /\ (Fault \/ NoFault)
      /\ UNCHANGED <<record, pending, effects, data, plan, pc, host, report, listed>>
  BY DEF SettleRestored, stateVars, opVars
<1>1. seen[p].pending \in Ops /\ seen[p].pending # None /\ pc[seen[p].pending] \in Past /\ Undone(seen[p].pending)
  BY <1>0, SeenIs DEF Recovering, IInv, ProcInv
<1>2. PICK o \in Ops : o = seen[p].pending
  BY <1>1
<1>3. \/ Settle(o, "rolled-back") /\ Sweep(p)
      \/ (Settle(o, "rolled-back") \/ UNCHANGED journalVars) /\ Enter(p, "mark") /\ UNCHANGED seen
  BY <1>2 DEF SettleRestored
<1>4. /\ JournalTyped /\ OnlyRow(o) /\ (status[o] = "completed" => status'[o] = "completed")
      /\ (cleanup'[o] # "not-required" => cleanup[o] # "not-required")
      /\ status'[o] = status[o] \/ (status[o] # "completed" /\ status'[o] = "rolled-back")
  BY <1>3, SettleIs, JournalKept DEF Terminal
<1>5. "mark" \in Recovering /\ "mark" \in Phases
  BY DEF Recovering, Phases
<1>6. /\ phase' \in [Procs -> Phases] /\ seen' \in [Procs -> [record : Value, pending : Ops \cup {None}]]
      /\ \A q \in Procs : q # p => phase'[q] = phase[q] /\ seen'[q] = seen[q]
      /\ \/ phase'[p] = "sweep" /\ seen'[p].pending = None
         \/ phase'[p] = "mark" /\ seen' = seen
  BY <1>3, <1>5, SweepIs, EnterIs DEF IInv, TypeOK
<1>7. Recovers(p)
  BY <1>0, <1>6 DEF Recovers, IInv, TypeOK
<1>8. \A q \in Ops : effects[q] \subseteq effects'[q] /\ (status[q] = "completed" => status'[q] = "completed")
  BY <1>0, <1>4 DEF OnlyRow
<1>9. ProcInv(p)'
  <2>1. CASE phase'[p] = "sweep" /\ seen'[p].pending = None
    BY <1>0, <1>8, <2>1, StillRecovering, PhasesAre DEF Recovering
  <2>2. CASE phase'[p] = "mark" /\ seen' = seen
    BY <1>0, <1>1, <1>5, <1>8, <2>2, StillRecovering
  <2> QED BY <1>6, <2>1, <2>2
<1> QED BY <1>0, <1>1, <1>2, <1>4, <1>7, <1>9, RowStep

LEMMA MarkBlockedStep ==
    ASSUME IInv, NEW p \in Procs, MarkBlocked(p)
    PROVE  IInv'
<1>0. /\ phase[p] = "mark" /\ (Fault \/ NoFault) /\ Sweep(p)
      /\ UNCHANGED <<record, pending, effects, data, plan, pc, host, report, listed>>
  BY DEF MarkBlocked, stateVars, opVars
<1>1. seen[p].pending \in Ops /\ pc[seen[p].pending] \in Past
  BY <1>0, SeenIs DEF Recovering
<1>2. PICK o \in Ops : o = seen[p].pending
  BY <1>1
<1>3. /\ JournalTyped /\ OnlyRow(o) /\ cleanup'[o] = cleanup[o]
      /\ status'[o] = status[o] \/ (status[o] \notin Terminal /\ status'[o] = "recovery-required")
  BY <1>2, MarkRecoveryIs, JournalKept DEF MarkBlocked
<1>4. Recovers(p) /\ phase'[p] = "sweep" /\ seen'[p].pending = None
  BY <1>0, SweepIs DEF Recovers, IInv, TypeOK
<1>5. \A q \in Ops : effects[q] \subseteq effects'[q] /\ (status[q] = "completed" => status'[q] = "completed")
  BY <1>0, <1>3 DEF OnlyRow, Terminal
<1>6. ProcInv(p)'
  BY <1>0, <1>4, <1>5, StillRecovering, PhasesAre DEF Recovering
<1> QED BY <1>0, <1>1, <1>2, <1>3, <1>4, <1>6, RowStep DEF Terminal

(* A deletion, or its note, of a row that recovery listed.                 *)
LEMMA NotingStep ==
    ASSUME IInv, NEW p \in Procs, NEW o \in Ops, NEW s \in {"sweep", "tidy"}, phase[p] \in {"sweep", "tidy"},
           phase' \in [Procs -> Phases], phase'[p] = s, \A q \in Procs : q # p => phase'[q] = phase[q],
           UNCHANGED <<record, pending, effects, plan, pc, host, report, seen>>, Fault \/ NoFault,
           data' \in BOOLEAN, JournalTyped, OnlyRow(o), status'[o] = status[o],
           cleanup'[o] # "not-required" => cleanup[o] # "not-required",
           listed' \in [Procs -> [erase : SUBSET Ops, prepared : SUBSET Ops, item : Ops \cup {None}]],
           listed'[p].erase \subseteq listed[p].erase, s = "tidy" => listed'[p].item # None,
           \A q \in Procs : q # p => listed'[q] = listed[q]
    PROVE  IInv'
<1>1. Recovers(p)
  BY DEF Recovers, IInv, TypeOK
<1>2. \A q \in Ops : effects[q] \subseteq effects'[q] /\ (status[q] = "completed" => status'[q] = "completed")
  BY DEF OnlyRow
<1>3. s \in Phases /\ s \notin Recovering \cup {"owner"}
  BY DEF Phases, Recovering
<1>4. ProcInv(p)'
  BY <1>2, <1>3, StillRecovering DEF Recovering
<1> QED BY <1>1, <1>4, RowStep

LEMMA EraseListedStep ==
    ASSUME IInv, NEW p \in Procs, EraseListed(p)
    PROVE  IInv'
<1>0. phase[p] = "sweep" /\ (Fault \/ NoFault) /\ UNCHANGED <<record, pending, effects, plan, pc, host, report, seen>>
  BY DEF EraseListed, stateVars, opVars
<1>1. PICK o \in listed[p].erase :
         /\ listed' = [listed EXCEPT ![p].erase = @ \ {o}, ![p].item = o]
         /\ \/ NoFault /\ data' = FALSE /\ Enter(p, "tidy") /\ UNCHANGED journalVars
            \/ Fault /\ data' \in {data, FALSE} /\ CleanupFailed(o) /\ UNCHANGED phase
  BY DEF EraseListed
<1>2. o \in Ops /\ o # None
  BY NoneIsNoOp DEF IInv, TypeOK
<1>3. /\ listed' \in [Procs -> [erase : SUBSET Ops, prepared : SUBSET Ops, item : Ops \cup {None}]]
      /\ listed'[p].erase \subseteq listed[p].erase /\ listed'[p].item = o
      /\ \A q \in Procs : q # p => listed'[q] = listed[q]
  BY <1>1, <1>2 DEF IInv, TypeOK
<1>4. /\ JournalTyped /\ OnlyRow(o) /\ status'[o] = status[o]
      /\ (cleanup'[o] # "not-required" => cleanup[o] # "not-required") /\ data' \in BOOLEAN
  BY <1>1, <1>2, JournalKept, CleanupFailedIs DEF IInv, TypeOK
<1>5. PICK s \in {"sweep", "tidy"} :
         phase' \in [Procs -> Phases] /\ phase'[p] = s /\ \A q \in Procs : q # p => phase'[q] = phase[q]
  BY <1>0, <1>1, EnterIs, PhasesAre DEF IInv, TypeOK
<1> QED BY <1>0, <1>2, <1>3, <1>4, <1>5, NotingStep

LEMMA TidyListedStep ==
    ASSUME IInv, NEW p \in Procs, TidyListed(p)
    PROVE  IInv'
<1>0. /\ phase[p] = "tidy" /\ (Fault \/ NoFault) /\ Enter(p, "sweep")
      /\ UNCHANGED <<record, pending, effects, data, plan, pc, host, report, seen, listed>>
  BY DEF TidyListed, stateVars, opVars
<1>1. listed[p].item \in Ops
  BY <1>0 DEF IInv, TypeOK, ProcInv
<1>2. PICK o \in Ops : o = listed[p].item
  BY <1>1
<1>3. /\ JournalTyped /\ OnlyRow(o) /\ status'[o] = status[o]
      /\ (cleanup'[o] # "not-required" => cleanup[o] # "not-required")
  <2>1. "completed" \in Cleanups
    BY DEF Cleanups
  <2> QED BY <1>2, <2>1, MarkCleanupIs, CleanupFailedIs DEF TidyListed
<1>4. phase' \in [Procs -> Phases] /\ phase'[p] = "sweep" /\ \A q \in Procs : q # p => phase'[q] = phase[q]
  BY <1>0, EnterIs, PhasesAre
<1> QED BY <1>0, <1>3, <1>4, NotingStep DEF IInv, TypeOK

LEMMA AbandonStep ==
    ASSUME IInv, NEW p \in Procs, Abandon(p)
    PROVE  IInv'
<1>0. /\ phase[p] = "sweep" /\ NoFault
      /\ UNCHANGED <<record, pending, effects, data, plan, pc, host, report, phase, seen>>
  BY DEF Abandon, stateVars, opVars
<1>1. PICK o \in listed[p].prepared :
         /\ listed' = [listed EXCEPT ![p].prepared = @ \ {o}]
         /\ (~Owned(o) /\ Settle(o, "abandoned")) \/ UNCHANGED journalVars
  BY DEF Abandon
<1>2. o \in Ops
  BY DEF IInv, TypeOK
<1>3. /\ listed' \in [Procs -> [erase : SUBSET Ops, prepared : SUBSET Ops, item : Ops \cup {None}]]
      /\ listed'[p].erase = listed[p].erase /\ \A q \in Procs : q # p => listed'[q] = listed[q]
  BY <1>1 DEF IInv, TypeOK
<1>4. /\ JournalTyped /\ OnlyRow(o) /\ (cleanup'[o] # "not-required" => cleanup[o] # "not-required")
      /\ \/ status'[o] = status[o]
         \/ pc[o] \in Past /\ status[o] \notin {"completed", "rolled-back"} /\ status'[o] = "abandoned"
  <2>1. CASE ~Owned(o) /\ Settle(o, "abandoned")
    <3>1. /\ JournalTyped /\ OnlyRow(o) /\ (cleanup'[o] # "not-required" => cleanup[o] # "not-required")
          /\ status[o] \in {"prepared", "recovery-required", "abandoned"} /\ status'[o] = "abandoned"
      BY <1>2, <2>1, SettleIs DEF Terminal
    <3>2. status[o] = "prepared" => pc[o] \in Past
      BY <2>1 DEF Owned, Past
    <3>3. status[o] # "prepared" => pc[o] \in Past
      BY <1>2, <3>1, OpIs DEF RowInv
    <3> QED BY <3>1, <3>2, <3>3
  <2>2. CASE UNCHANGED journalVars
    BY <1>2, <2>2, JournalKept
  <2> QED BY <1>1, <2>1, <2>2
<1>5. Recovers(p)
  BY <1>0, <1>3 DEF Recovers, IInv, TypeOK
<1>6. \A q \in Ops : effects[q] \subseteq effects'[q] /\ (status[q] = "completed" => status'[q] = "completed")
  BY <1>0, <1>2, <1>4 DEF OnlyRow
<1>7. ProcInv(p)'
  <2>1. phase'[p] = "sweep" /\ "sweep" \in Phases /\ "sweep" \notin Recovering \cup {"owner", "settle", "tidy"}
        /\ listed'[p].erase \subseteq listed[p].erase /\ seen'[p].pending = seen[p].pending
    BY <1>0, <1>3 DEF Phases, Recovering
  <2> QED BY <1>0, <1>6, <2>1, StillRecovering
<1> QED BY <1>0, <1>2, <1>4, <1>5, <1>7, RowStep

-----------------------------------------------------------------------------
(* The invariant.                                                          *)
LEMMA InitIInv == Init => IInv
<1> SUFFICES ASSUME Init PROVE IInv
  OBVIOUS
<1>1. /\ Nothing \in [record : Value, pending : Ops \cup {None}] /\ Nothing.pending = None
      /\ NoRows \in [erase : SUBSET Ops, prepared : SUBSET Ops, item : Ops \cup {None}] /\ NoRows.erase = {}
  BY DEF Nothing, NoRows, Value
<1>2. TypeOK
  <2>1. data \in BOOLEAN /\ faults \in 0..MaxFaults
    BY NoneIsNoOp DEF Init
  <2> QED BY <1>1, <2>1 DEF Init, TypeOK, Statuses, Cleanups, Steps, Reports, Phases, Effects
<1>3. ASSUME NEW o \in Ops
      PROVE  OpInv(o)
  BY NoneIsNoOp DEF Init, OpInv, MarkerInv, PcInv, RowInv, Working, Past, Erases
<1>4. ASSUME NEW p \in Procs
      PROVE  ProcInv(p)
  BY <1>1 DEF Init, ProcInv, Recovering
<1>5. \A o \in Ops : EffectInv(o)
  BY DEF Init, EffectInv
<1> QED BY <1>2, <1>3, <1>4, <1>5 DEF IInv

LEMMA StutterIInv == IInv /\ UNCHANGED vars => IInv'
<1> SUFFICES ASSUME IInv, UNCHANGED vars PROVE IInv'
  OBVIOUS
<1>1. UNCHANGED <<record, pending, effects, status, cleanup, data, plan, pc, host, report, phase, seen, listed, faults>>
  BY DEF vars, stateVars, journalVars, opVars, procVars
<1>2. TypeOK'
  BY <1>1 DEF IInv, TypeOK
<1>3. \A o \in Ops : OpInv(o)'
  BY <1>1, OpKeeps
<1>4. Grows
  BY <1>1 DEF Grows, Undone
<1>5. \A p \in Procs : ProcInv(p)'
  BY <1>1, <1>4, ProcKeeps
<1> QED BY <1>1, <1>2, <1>3, <1>5, EffectsStay DEF IInv

LEMMA NextIInv == IInv /\ [Next]_vars => IInv'
<1> SUFFICES ASSUME IInv, [Next]_vars PROVE IInv'
  OBVIOUS
<1>1. ASSUME NEW o \in Ops, NEW p \in Procs, NEW k \in Kinds, Start(o, p, k)
      PROVE  IInv'
  BY <1>1, StartStep
<1>2. ASSUME NEW o \in Ops, Work(o)
      PROVE  IInv'
  BY <1>2, PrepareStep, FirstCommitStep, RereadStep, ReloadStep, FinishStep, CompleteStep, RewindStep,
     RecheckStep, RestoreStep, RollbackStep, MarkStep, EraseStep, TidyStep DEF Work
<1>3. ASSUME NEW p \in Procs, Recover(p)
      PROVE  IInv'
  BY <1>3, ListJournalStep, CheckOwnerStep, LoadCurrentStep, ReconcileLocalStep, RestorePreviousStep,
     SettleRestoredStep, MarkBlockedStep, EraseListedStep, TidyListedStep, AbandonStep, ServeStep DEF Recover
<1>4. ASSUME NEW p \in Procs, Boot(p)
      PROVE  IInv'
  BY <1>4, BootStep
<1>5. ASSUME NEW p \in Procs, Quit(p) \/ Crash(p)
      PROVE  IInv'
  BY <1>5, ExitStep DEF Quit, Crash
<1>6. CASE UNCHANGED vars
  BY <1>6, StutterIInv
<1> QED BY <1>1, <1>2, <1>3, <1>4, <1>5, <1>6 DEF Next

-----------------------------------------------------------------------------
(* What a step may do to the record and to the data.                       *)
LEMMA StepsMoveTheRecord ==
    ASSUME IInv, [Next]_vars
    PROVE  \/ \E o \in Ops, p \in Procs, k \in Kinds : Start(o, p, k)
           \/ UNCHANGED <<stateVars, plan>>
           \/ UNCHANGED plan /\ \E o \in Ops : StateMove(o)
<1>1. ASSUME NEW o \in Ops, Work(o)
      PROVE  UNCHANGED plan /\ (UNCHANGED stateVars \/ StateMove(o))
  <2>1. CASE Prepare(o) \/ Reread(o) \/ Reload(o) \/ Complete(o)
    BY <2>1 DEF Prepare, Reread, Reload, Complete
  <2>2. CASE Recheck(o) \/ Rollback(o) \/ Mark(o) \/ Erase(o) \/ Tidy(o)
    BY <2>2 DEF Recheck, Rollback, Mark, Erase, Tidy
  <2>3. CASE FirstCommit(o)
    BY <2>3 DEF FirstCommit, StateMove
  <2>4. CASE Finish(o)
    BY <2>4 DEF Finish, StateMove, Finishes
  <2>5. CASE Rewind(o)
    <3>1. pc[o] = "rewind" /\ UNCHANGED plan /\ (Undo(o, plan[o].candidate, TRUE) \/ UNCHANGED stateVars)
      BY <2>5 DEF Rewind
    <3> QED BY <3>1, RewindMoves
  <2>6. CASE Restore(o)
    <3> DEFINE from == IF plan[o].previous = None THEN plan[o].candidate ELSE plan[o].previous
    <3>1. pc[o] = "restore" /\ UNCHANGED plan /\ (Undo(o, from, FALSE) \/ UNCHANGED stateVars)
      BY <2>6, Zenon DEF Restore
    <3>2. "began" \in effects[o]
      BY <3>1, OpIs DEF PcInv
    <3> HIDE DEF from
    <3> QED BY <3>1, <3>2, UndoMoves
  <2> QED BY <1>1, <2>1, <2>2, <2>3, <2>4, <2>5, <2>6 DEF Work
<1>2. ASSUME NEW p \in Procs, Recover(p) \/ Boot(p)
      PROVE  UNCHANGED plan /\ (UNCHANGED stateVars \/ \E o \in Ops : StateMove(o))
  <2>1. CASE ListJournal(p) \/ CheckOwner(p) \/ LoadCurrent(p) \/ ReconcileLocal(p) \/ Boot(p)
    BY <2>1 DEF ListJournal, CheckOwner, LoadCurrent, ReconcileLocal, Boot, opVars
  <2>2. CASE SettleRestored(p) \/ MarkBlocked(p) \/ EraseListed(p) \/ TidyListed(p) \/ Abandon(p) \/ Serve(p)
    BY <2>2 DEF SettleRestored, MarkBlocked, EraseListed, TidyListed, Abandon, Serve, opVars
  <2>3. CASE RestorePrevious(p)
    <3>1. /\ phase[p] = "mutate" /\ UNCHANGED plan
          /\ Undo(seen[p].pending, seen[p].record, FALSE) \/ UNCHANGED stateVars
      BY <2>3 DEF RestorePrevious, opVars
    <3>2. /\ seen[p].pending \in Ops /\ pc[seen[p].pending] \in Past /\ "began" \in effects[seen[p].pending]
      BY <3>1, SeenIs DEF Recovering
    <3> QED BY <3>1, <3>2, UndoMoves
  <2> QED BY <1>2, <2>1, <2>2, <2>3 DEF Recover
<1>3. ASSUME NEW p \in Procs, Quit(p) \/ Crash(p)
      PROVE  UNCHANGED <<stateVars, plan>>
  BY <1>3 DEF Quit, Crash, Exit
<1>4. CASE UNCHANGED vars
  BY <1>4 DEF vars, opVars
<1> QED BY <1>1, <1>2, <1>3, <1>4 DEF Next

LEMMA DeletionsAreConfirmed ==
    ASSUME IInv, [Next]_vars, data, ~data'
    PROVE  \E o \in Ops : Erases(o) /\ "finished" \in effects[o]
<1>0. data \in BOOLEAN /\ \A v : data => Projected(v)
  BY ProjectedTyped DEF IInv, TypeOK
<1>1. ASSUME NEW o \in Ops, status[o] = "completed", Erases(o)
      PROVE  Erases(o) /\ "finished" \in effects[o]
  BY <1>1, OpIs DEF RowInv
<1>2. ASSUME NEW o \in Ops, NEW p \in Procs, NEW k \in Kinds, Start(o, p, k)
      PROVE  FALSE
  BY <1>2 DEF Start
<1>3. ASSUME NEW o \in Ops, Work(o)
      PROVE  status[o] = "completed" /\ Erases(o)
  <2>1. CASE Prepare(o) \/ FirstCommit(o) \/ Reread(o) \/ Finish(o) \/ Complete(o) \/ Rewind(o)
    BY <2>1 DEF Prepare, FirstCommit, Reread, Finish, Complete, Rewind
  <2>2. CASE Restore(o) \/ Rollback(o) \/ Mark(o) \/ Tidy(o)
    BY <2>2 DEF Restore, Rollback, Mark, Tidy
  <2>3. CASE Reload(o) \/ Recheck(o)
    <3>1. PICK v : data' \in {data, Projected(v)}
      BY <2>3 DEF Reload, Recheck
    <3> QED BY <1>0, <3>1
  <2>4. CASE Erase(o)
    BY <2>4, OpIs DEF Erase, PcInv
  <2> QED BY <1>3, <2>1, <2>2, <2>3, <2>4 DEF Work
<1>4. ASSUME NEW p \in Procs, Recover(p) \/ Boot(p)
      PROVE  \E o \in Ops : status[o] = "completed" /\ Erases(o)
  <2>1. CASE ListJournal(p) \/ CheckOwner(p) \/ LoadCurrent(p) \/ RestorePrevious(p) \/ Boot(p)
    BY <2>1 DEF ListJournal, CheckOwner, LoadCurrent, RestorePrevious, Boot
  <2>2. CASE SettleRestored(p) \/ MarkBlocked(p) \/ TidyListed(p) \/ Abandon(p)
    BY <2>2 DEF SettleRestored, MarkBlocked, TidyListed, Abandon
  <2>3. CASE ReconcileLocal(p) \/ Serve(p)
    <3>1. PICK v : data' \in {data, Projected(v)}
      BY <2>3 DEF ReconcileLocal, Serve
    <3> QED BY <1>0, <3>1
  <2>4. CASE EraseListed(p)
    <3>1. PICK o \in listed[p].erase : TRUE
      BY <2>4 DEF EraseListed
    <3> QED BY <3>1 DEF IInv, TypeOK, ProcInv
  <2> QED BY <1>4, <2>1, <2>2, <2>3, <2>4 DEF Recover
<1>5. ASSUME NEW p \in Procs, Quit(p) \/ Crash(p)
      PROVE  FALSE
  BY <1>5 DEF Quit, Crash, Exit
<1>6. CASE UNCHANGED vars
  BY <1>6 DEF vars
<1> QED BY <1>1, <1>2, <1>3, <1>4, <1>5, <1>6 DEF Next

-----------------------------------------------------------------------------
(* The abstract transaction.                                               *)
Settled == IF pending = None THEN record ELSE plan[pending].previous
Goal == [o \in Ops |-> IF plan[o] = None THEN None ELSE plan[o].final]
Spent == {o \in Ops : effects[o] # {}}

LEMMA InitIsTransaction == Init => Transaction!Init
BY DEF Init, Transaction!Init

(* The first write opens it, finishing or undoing closes it, and putting   *)
(* the previous record under the marker is no step of it.                  *)
LEMMA WriteIsTransaction ==
    ASSUME IInv, NEW o \in Ops, StateMove(o), UNCHANGED plan
    PROVE  [Transaction!Next]_(Transaction!vars)
<1>1. o # None /\ (pc[o] # "idle" => plan[o] \in Plan /\ plan[o] # None)
  BY OpIs DEF PcInv
<1>2. Goal' = Goal
  BY DEF Goal
<1>3. \A q \in Ops : q # o => effects'[q] = effects[q]
  BY StateMoves
<1>4. CASE record' = record /\ pending' = pending /\ effects' = effects
  BY <1>4 DEF Transaction!vars
<1>5. CASE /\ pc[o] = "commit" /\ pending = None /\ pending' = o /\ record = plan[o].previous
           /\ effects[o] = {} /\ effects'[o] = {"began"}
  <2>1. Settled' = Settled /\ Spent' = Spent \cup {o} /\ o \notin Spent
    BY <1>1, <1>3, <1>5 DEF Settled, Spent
  <2>2. Transaction!Open(o)
    BY <1>2, <1>5, <2>1 DEF Transaction!Open, Settled, Spent, Goal
  <2> QED BY <2>2 DEF Transaction!Next
<1>6. CASE /\ pc[o] = "finish" /\ pending = o /\ pending' = None /\ record' = plan[o].final
           /\ effects[o] = {"began"} /\ effects'[o] = {"began", "finished"}
  <2>1. Settled' = Goal[o] /\ Spent' = Spent
    BY <1>1, <1>3, <1>6 DEF Settled, Spent, Goal
  <2>2. Transaction!Close
    BY <1>1, <1>2, <1>6, <2>1 DEF Transaction!Close, Settled, Spent, Goal
  <2> QED BY <2>2 DEF Transaction!Next
<1>7. CASE pc[o] = "rewind" /\ pending = o /\ pending' = o /\ effects[o] = {"began"} /\ effects'[o] = {"began", "rewound"}
  <2>1. Settled' = Settled /\ Spent' = Spent
    BY <1>1, <1>3, <1>7 DEF Settled, Spent
  <2> QED BY <1>2, <1>7, <2>1 DEF Transaction!vars, Settled, Spent, Goal
<1>8. CASE /\ pending = o /\ pending' = None /\ record' = plan[o].previous
           /\ "began" \in effects[o] /\ effects'[o] = effects[o] \cup {"restored"}
  <2>1. Settled' = Settled /\ Spent' = Spent
    BY <1>1, <1>3, <1>8 DEF Settled, Spent
  <2>2. Transaction!Close
    BY <1>1, <1>2, <1>8, <2>1 DEF Transaction!Close, Settled, Spent, Goal
  <2> QED BY <2>2 DEF Transaction!Next
<1> QED BY <1>4, <1>5, <1>6, <1>7, <1>8, StateMoves

LEMMA StepIsTransaction == IInv /\ [Next]_vars => [Transaction!Next]_(Transaction!vars)
<1> SUFFICES ASSUME IInv, [Next]_vars PROVE [Transaction!Next]_(Transaction!vars)
  OBVIOUS
<1>1. ASSUME NEW o \in Ops, NEW p \in Procs, NEW k \in Kinds, Start(o, p, k)
      PROVE  Transaction!Next
  <2>1. /\ pc[o] = "idle" /\ pending = None /\ UNCHANGED <<record, pending, effects>>
        /\ \E q \in Plans(k) : plan' = [plan EXCEPT ![o] = q]
    BY <1>1 DEF Start, stateVars
  <2>2. effects[o] = {} /\ \A q \in Ops \ {o} : plan'[q] = plan[q]
    BY <2>1, OpIs DEF PcInv, IInv, TypeOK
  <2>3. Transaction!Plan(o)
    BY <2>1, <2>2 DEF Transaction!Plan
  <2> QED BY <2>3 DEF Transaction!Next
<1>2. CASE UNCHANGED <<stateVars, plan>>
  BY <1>2 DEF stateVars, Transaction!vars
<1>3. ASSUME NEW o \in Ops, StateMove(o), UNCHANGED plan
      PROVE  [Transaction!Next]_(Transaction!vars)
  BY <1>3, WriteIsTransaction
<1> QED BY <1>1, <1>2, <1>3, StepsMoveTheRecord

-----------------------------------------------------------------------------
(* Theorems.                                                               *)
\* The invariant of operations and recoveries: what each await of
\* plugin-lifecycle-service.ts and each step of recovery-service.ts may take
\* for granted, although others wrote the record and the journal meanwhile.
THEOREM InductiveInvariant == Spec => []IInv
<1>1. Init => IInv
  BY InitIInv
<1>2. IInv /\ [Next]_vars => IInv'
  BY NextIInv
<1> QED BY <1>1, <1>2, PTL DEF Spec

\* Every variable keeps its type.
THEOREM TypeCorrect == Spec => []TypeOK
<1>1. IInv => TypeOK
  BY DEF IInv
<1> QED BY <1>1, InductiveInvariant, PTL

\* A marker on the record always leads recovery (recovery-service.ts) to a
\* journal row that is not settled as completed or rolled back, and to a plan
\* whose candidate or previous record is the one installed.
THEOREM MarkersAreRecoverableHolds == Spec => []MarkersAreRecoverable
<1>1. IInv => MarkersAreRecoverable
  <2> SUFFICES ASSUME IInv, pending # None
               PROVE  /\ status[pending] \notin {"missing", "completed", "rolled-back"}
                      /\ record \in {plan[pending].candidate, plan[pending].previous}
                      /\ record # None
    BY DEF MarkersAreRecoverable
  <2>1. pending \in Ops
    BY DEF IInv, TypeOK
  <2> QED BY <2>1, OpIs DEF MarkerInv
<1> QED BY <1>1, InductiveInvariant, PTL

\* A row that the journal (sqlite-transition-journal.ts) settles as completed
\* or rolled back tells what happened to the record, whichever of the operation
\* and the recoveries of other processes settled it.
THEOREM JournalIsTrueHolds == Spec => []JournalIsTrue
<1>1. IInv => JournalIsTrue
  BY OpIs DEF JournalIsTrue, RowInv, Undone
<1> QED BY <1>1, InductiveInvariant, PTL

\* What execute of plugin-lifecycle-service.ts told its caller stays true of
\* the record and the journal: also an operation rejected because of its signal,
\* which may have committed its candidate, never takes effect in the end.
THEOREM AnswersAreTrueHolds == Spec => []AnswersAreTrue
<1>1. IInv => AnswersAreTrue
  <2> SUFFICES ASSUME IInv, NEW o \in Ops
               PROVE  /\ report[o] = "unchanged" => effects[o] = {}
                      /\ report[o] = "changed" => status[o] = "completed"
                      /\ report[o] = "rolled-back" => status[o] = "rolled-back"
                      /\ report[o] = "aborted" =>
                           /\ status[o] # "completed" /\ "finished" \notin effects[o]
                           /\ effects[o] = {} \/ pending = o \/ "restored" \in effects[o]
    BY DEF AnswersAreTrue
  <2>1. RowInv(o) /\ EffectInv(o)
    BY OpIs DEF IInv
  <2> QED BY <2>1 DEF RowInv, EffectInv
<1> QED BY <1>1, InductiveInvariant, PTL

\* native-uninstall-cleanup.ts removes persistent data, for the operation or
\* for a later start, only when an uninstall confirmed with deletion took
\* effect.
THEOREM DeletionIsConfirmedHolds == Spec => DeletionIsConfirmed
<1>1. IInv /\ [Next]_vars => [Deletes => Confirmed]_vars
  BY DeletionsAreConfirmed DEF Deletes, Confirmed, Erases
<1> QED BY <1>1, InductiveInvariant, PTL DEF Spec, DeletionIsConfirmed

\* Through crashes, restores and the recoveries of any number of processes a
\* transition is atomic: the settled record becomes its goal or stays.
THEOREM TransitionsAreAtomicHolds == Spec => TransitionsAreAtomic
BY InitIsTransaction, StepIsTransaction, InductiveInvariant, PTL DEF Spec, TransitionsAreAtomic, Transaction!Spec
=============================================================================
