------------------------ MODULE UpdateNoticesProofs ------------------------
(***************************************************************************)
(* Proofs about UpdateNotices, for any revisions, snapshots, policies,     *)
(* processes and commands, size of the record and number of faults.        *)
(*                                                                         *)
(* A run decides on one state of the world and writes to a later one, so   *)
(* the inductive invariant (TaskInv) says what it may still rely on: of an *)
(* update between its commit and its end, that the world is its own.       *)
(* That a notice survives is argued by positions in the record: whatever   *)
(* a step does, the notice at each one is found again or may go.           *)
(***************************************************************************)
EXTENDS UpdateNotices, SequenceTheorems, FiniteSetTheorems, TLAPS

Unique(s) == \A i, j \in DOMAIN s : s[i].rev = s[j].rev => i = j

(* Between its commit and its end an automatic update has the plugin for   *)
(* itself: others see the pending transition.                              *)
TaskInv ==
    \A w \in Workers :
        /\ task[w].at = "commit" => task[w].previous # None
        /\ task[w].at = "settle" => task[w].outcome # None
        /\ task[w].at = "finish" =>
              /\ pending # None /\ selected = task[w].rev
              /\ \A v \in Workers : task[v].at = "finish" => v = w

IInv == TypeOK /\ TaskInv

Tasks == [at : {"reconcile", "idle", "dispatch", "mark", "commit", "finish", "settle"},
          rev : Revisions \cup {None},
          outcome : Outcomes, previous : Revisions \cup {None}]

-----------------------------------------------------------------------------
(* The record as a sequence                                                *)

LEMMA Constants ==
    /\ Catalog \in [Snapshots -> Revisions] /\ MaxFaults \in Nat /\ ResolvedPerPlugin \in Nat
    /\ None \notin Revisions \cup {"waiting", "retryable", "applied"}
BY ConstantsAreTyped

LEMMA RecordIsFunction ==
    ASSUME NEW s \in Seq(Notices)
    PROVE  Len(s) \in Nat /\ DOMAIN s = 1..Len(s) /\ s \in [1..Len(s) -> Notices]
BY LenProperties

LEMMA FunctionIsRecord ==
    ASSUME NEW n \in Nat, NEW f \in [1..n -> Notices]
    PROVE  f \in Seq(Notices) /\ DOMAIN f = 1..n
BY SeqDef

(* A revision leads to the one notice that has it.                         *)
LEMMA ChooseNotice ==
    ASSUME NEW s, Unique(s), NEW i \in DOMAIN s
    PROVE  s[CHOOSE j \in DOMAIN s : s[j].rev = s[i].rev] = s[i]
<1> DEFINE j == CHOOSE j \in DOMAIN s : s[j].rev = s[i].rev
<1>1. j \in DOMAIN s /\ s[j].rev = s[i].rev
  OBVIOUS
<1>2. j = i
  BY <1>1 DEF Unique
<1> QED BY <1>2

LEMMA KnownAreRevisions == ASSUME TypeOK PROVE Known \subseteq Revisions
<1>1. \A i \in DOMAIN notices : notices[i] \in Notices
  BY RecordIsFunction DEF TypeOK
<1> QED BY <1>1 DEF Known, Notices

(* The revisions of the record, and the open ones, by their positions.     *)
LEMMA ByPosition ==
    ASSUME Unique(notices)
    PROVE  /\ \A i \in DOMAIN notices : notices[i].rev \in Known /\ Notice(notices[i].rev) = notices[i]
           /\ \A i \in DOMAIN notices : notices[i].rev \in Open <=> notices[i].resolution = None
           /\ \A r \in Known : \E i \in DOMAIN notices : notices[i].rev = r
<1>1. \A i \in DOMAIN notices : notices[i].rev \in Known /\ Notice(notices[i].rev) = notices[i]
  BY ChooseNotice DEF Known, Notice
<1> QED BY <1>1 DEF Known, Open

LEMMA ByPositionNext ==
    ASSUME Unique(notices')
    PROVE  /\ \A i \in DOMAIN notices' : \A r : notices'[i].rev = r =>
                 /\ r \in Known' /\ Notice(r)' = notices'[i]
                 /\ r \in Open' <=> notices'[i].resolution = None
           /\ \A r \in Known' : \E i \in DOMAIN notices' : notices'[i].rev = r
<1>1. \A i \in DOMAIN notices' : \A r : notices'[i].rev = r =>
         r \in Known' /\ Notice(r)' = notices'[i]
  <2> SUFFICES ASSUME NEW i \in DOMAIN notices', NEW r, notices'[i].rev = r
               PROVE  r \in Known' /\ Notice(r)' = notices'[i]
    OBVIOUS
  <2>1. notices'[CHOOSE j \in DOMAIN notices' : notices'[j].rev = r] = notices'[i]
    BY ChooseNotice
  <2> QED BY <2>1 DEF Known, Notice
<1> QED BY <1>1 DEF Known, Open

(* What is pruned: the rest keeps its order, and all that may not go is    *)
(* there.  As many places as there are notices to stay, and no notice at   *)
(* two of them: so each has its place.                                     *)
LEMMA PruneKeeps ==
    ASSUME NEW n \in Nat, NEW old \in [1..n -> Notices], NEW new, Prunes(old, new), Unique(old)
    PROVE  /\ new \in Seq(Notices) /\ Unique(new)
           /\ \A k \in DOMAIN new : \E i \in 1..n : new[k] = old[i]
           /\ \A i \in 1..n : MayGo(old[i]) \/ \E k \in DOMAIN new : new[k] = old[i]
<1> DEFINE tombstones == {i \in 1..n : MayGo(old[i])}
<1>1. PICK kept \in SUBSET tombstones :
         LET stay == (1..n \ tombstones) \cup kept
         IN \E place \in [1..Cardinality(stay) -> stay] :
              /\ \A i, j \in DOMAIN place : i < j => place[i] < place[j]
              /\ new = [i \in DOMAIN place |-> old[place[i]]]
  BY DEF Prunes, kSubset
<1> DEFINE stay == (1..n \ tombstones) \cup kept
           c == Cardinality(stay)
<1>2. PICK place \in [1..c -> stay] :
         /\ \A i, j \in 1..c : i < j => place[i] < place[j]
         /\ new = [i \in 1..c |-> old[place[i]]]
  BY <1>1
<1>3. stay \subseteq 1..n /\ \A i \in 1..n : i \in stay \/ MayGo(old[i])
  OBVIOUS
<1> HIDE DEF stay
<1>4. IsFiniteSet(stay) /\ c \in Nat
  <2>1. IsFiniteSet(1..n)
    BY FS_Interval
  <2>2. IsFiniteSet(stay)
    BY <1>3, <2>1, FS_Subset
  <2> QED BY <2>2, FS_CardinalityType
<1> HIDE DEF c, tombstones
<1>5. \A i, j \in 1..c : place[i] = place[j] => i = j
  <2> SUFFICES ASSUME NEW i \in 1..c, NEW j \in 1..c, place[i] = place[j], i # j
               PROVE  FALSE
    OBVIOUS
  <2>1. place[i] \in 1..n /\ place[j] \in 1..n
    BY <1>3
  <2>2. i < j \/ j < i
    BY <1>4
  <2> QED BY <1>2, <2>1, <2>2
<1>6. \A i \in stay : \E k \in 1..c : place[k] = i
  <2>1. place \in Injection(1..c, stay)
    BY <1>2, <1>5 DEF Injection, IsInjective
  <2>2. Cardinality(1..c) = c
    BY <1>4, FS_Interval
  <2>3. place \in Surjection(1..c, stay)
    BY <1>4, <2>1, <2>2, FS_Injection DEF c
  <2> QED BY <2>3 DEF Surjection
<1>7. DOMAIN new = 1..c /\ \A k \in 1..c : new[k] = old[place[k]] /\ place[k] \in 1..n
  BY <1>2, <1>3
<1>8. new \in Seq(Notices)
  <2>1. new \in [1..c -> Notices]
    BY <1>2, <1>7
  <2> QED BY <1>4, <2>1, FunctionIsRecord
<1>9. Unique(new)
  BY <1>5, <1>7 DEF Unique
<1> QED BY <1>3, <1>6, <1>7, <1>8, <1>9

-----------------------------------------------------------------------------
(* What each step writes to the record                                     *)

(* A step that only edits: every notice keeps its place and its revision.  *)
Edits(s, t) == t \in [DOMAIN s -> Notices] /\ \A i \in DOMAIN s : t[i].rev = s[i].rev

LEMMA EditKeeps ==
    ASSUME NEW s \in Seq(Notices), Unique(s), NEW t, Edits(s, t)
    PROVE  t \in Seq(Notices) /\ Unique(t) /\ DOMAIN t = DOMAIN s
<1>1. Len(s) \in Nat /\ DOMAIN s = 1..Len(s)
  BY RecordIsFunction
<1>2. t \in [1..Len(s) -> Notices]
  BY <1>1 DEF Edits
<1> QED BY <1>1, <1>2, FunctionIsRecord DEF Edits, Unique

LEMMA AcknowledgeEdits ==
    ASSUME TypeOK, Acknowledge
    PROVE  /\ Edits(notices, notices')
           /\ \A i \in DOMAIN notices : notices'[i].resolution = notices[i].resolution
<1>1. notices \in [DOMAIN notices -> Notices]
  BY RecordIsFunction DEF TypeOK
<1>2. PICK r \in Known : Rewrite(r, LAMBDA n : [n EXCEPT !.unread = FALSE])
  BY DEF Acknowledge
<1>3. notices' = [i \in DOMAIN notices |->
                     IF notices[i].rev = r THEN [notices[i] EXCEPT !.unread = FALSE] ELSE notices[i]]
  BY <1>2 DEF Rewrite
<1> QED BY <1>1, <1>3 DEF Edits, Notices

LEMMA MarkEdits ==
    ASSUME TypeOK, NEW w \in Workers, Mark(w)
    PROVE  /\ Edits(notices, notices')
           /\ \A i \in DOMAIN notices : notices'[i].resolution = notices[i].resolution
<1>1. notices \in [DOMAIN notices -> Notices]
  BY RecordIsFunction DEF TypeOK
<1>2. notices' = [i \in DOMAIN notices |->
                     IF notices[i].rev = task[w].rev THEN [notices[i] EXCEPT !.published = TRUE]
                     ELSE notices[i]]
  BY DEF Mark, Rewrite
<1> QED BY <1>1, <1>2 DEF Edits, Notices

(* Only a run that applied the update of a notice resolves it.             *)
LEMMA SettleEdits ==
    ASSUME IInv, NEW w \in Workers, Settle(w)
    PROVE  /\ Edits(notices, notices')
           /\ \A i \in DOMAIN notices :
                 \/ notices'[i].resolution = notices[i].resolution
                 \/ SaysApplied(w) /\ task[w].rev = notices[i].rev
<1>1. notices \in [DOMAIN notices -> Notices]
  BY RecordIsFunction DEF IInv, TypeOK
<1>2. notices' = [i \in DOMAIN notices |->
                     IF notices[i].rev = task[w].rev THEN Settled(notices[i], task[w].outcome)
                     ELSE notices[i]]
  BY DEF Settle, Rewrite
<1>3. task[w].outcome \in {"waiting", "retryable", "applied"}
  <2>1. task[w].outcome \in Outcomes
    BY DEF IInv, TypeOK
  <2>2. task[w].outcome # None
    BY DEF IInv, TaskInv, Settle
  <2> QED BY <2>1, <2>2 DEF Outcomes
<1>4. ASSUME NEW n \in Notices
      PROVE  /\ Settled(n, task[w].outcome) \in Notices
             /\ Settled(n, task[w].outcome).rev = n.rev
             /\ Settled(n, task[w].outcome).resolution = n.resolution \/ SaysApplied(w)
  BY <1>3 DEF Settled, Notices, SaysApplied
<1> QED BY <1>1, <1>2, <1>4 DEF Edits

LEMMA RefreshAppends ==
    ASSUME TypeOK, Refresh
    PROVE  /\ market' \in Snapshots /\ notices' \in Seq(Notices) /\ Unique(notices')
           /\ DOMAIN notices \subseteq DOMAIN notices'
           /\ \A i \in DOMAIN notices : notices'[i] = notices[i]
<1>1. notices \in Seq(Notices) /\ Len(notices) \in Nat /\ DOMAIN notices = 1..Len(notices)
  BY RecordIsFunction DEF TypeOK
<1>2. PICK s \in Snapshots :
        /\ market' = s
        /\ \/ UNCHANGED notices
           \/ Catalog[s] \notin Known /\ notices' = Append(notices, NewNotice(Catalog[s], s))
  BY DEF Refresh
<1>3. CASE UNCHANGED notices
  BY <1>1, <1>2, <1>3 DEF TypeOK, Unique
<1>4. CASE Catalog[s] \notin Known /\ notices' = Append(notices, NewNotice(Catalog[s], s))
  <2> DEFINE new == NewNotice(Catalog[s], s)
  <2>1. new \in Notices /\ new.rev = Catalog[s]
    BY Constants DEF NewNotice, Notices
  <2> HIDE DEF new
  <2>2. /\ notices' \in Seq(Notices) /\ DOMAIN notices' = 1..Len(notices) + 1
        /\ \A i \in 1..Len(notices) : notices'[i] = notices[i]
        /\ notices'[Len(notices) + 1] = new
    BY <1>1, <1>4, <2>1, RecordIsFunction DEF new
  <2>3. \A i \in 1..Len(notices) : notices[i].rev # Catalog[s]
    BY <1>1, <1>4 DEF Known
  <2>4. Unique(notices')
    BY <1>1, <2>1, <2>2, <2>3 DEF Unique, TypeOK
  <2> QED BY <1>1, <1>2, <2>2, <2>4
<1> QED BY <1>2, <1>3, <1>4

(* What maintenance resolves is over, and what it prunes was read, too.    *)
LEMMA ReconcileKeeps ==
    ASSUME TypeOK, NEW w \in Workers, Reconcile(w)
    PROVE  /\ notices' \in Seq(Notices) /\ Unique(notices')
           /\ \A i \in DOMAIN notices :
                 \/ \E k \in DOMAIN notices' :
                       /\ notices'[k].rev = notices[i].rev
                       /\ notices'[k].resolution = None \/ IsOver(notices[i].rev)
                 \/ ~notices[i].unread /\ IsOver(notices[i].rev)
<1> DEFINE resolved == [i \in DOMAIN notices |-> [notices[i] EXCEPT !.resolution = ResolutionOf(i)]]
<1>1. /\ notices \in Seq(Notices) /\ Unique(notices) /\ Len(notices) \in Nat
      /\ DOMAIN notices = 1..Len(notices) /\ notices \in [1..Len(notices) -> Notices]
  BY RecordIsFunction DEF TypeOK, Unique
<1>2. ASSUME NEW i \in DOMAIN notices
      PROVE  /\ ResolutionOf(i) \in {"installed", "gone", None}
             /\ ResolutionOf(i) = None \/ IsOver(notices[i].rev)
  <2>1. CASE notices[i].resolution # None
    BY <1>1, <2>1, ByPosition DEF ResolutionOf, IsOver, Notices
  <2>2. CASE notices[i].resolution = None
    <3>1. CASE Newest(i)
      BY <2>2, <3>1 DEF ResolutionOf, IsOver
    <3>2. CASE ~Newest(i)
      <4>1. \E j \in DOMAIN notices : notices[j].resolution = None /\ i < j
        BY <1>1, <3>2 DEF Newest
      <4>2. IsOver(notices[i].rev)
        BY <4>1 DEF IsOver
      <4> QED BY <2>2, <4>2 DEF ResolutionOf
    <3> QED BY <3>1, <3>2
  <2> QED BY <2>1, <2>2
<1>3. \A i \in DOMAIN notices :
         /\ resolved[i] \in Notices /\ resolved[i].rev = notices[i].rev
         /\ resolved[i].resolution = ResolutionOf(i) /\ resolved[i].unread = notices[i].unread
  BY <1>1, <1>2 DEF Notices
<1>4. Prunes(resolved, notices')
  BY DEF Reconcile
<1> HIDE DEF resolved
<1>5. resolved \in [1..Len(notices) -> Notices] /\ Unique(resolved)
  BY <1>1, <1>3 DEF Unique, resolved
<1>6. /\ notices' \in Seq(Notices) /\ Unique(notices')
      /\ \A i \in 1..Len(notices) :
            MayGo(resolved[i]) \/ \E k \in DOMAIN notices' : notices'[k] = resolved[i]
  BY <1>1, <1>4, <1>5, PruneKeeps
<1>7. ASSUME NEW i \in DOMAIN notices
      PROVE  \/ \E k \in DOMAIN notices' :
                   /\ notices'[k].rev = notices[i].rev
                   /\ notices'[k].resolution = None \/ IsOver(notices[i].rev)
             \/ ~notices[i].unread /\ IsOver(notices[i].rev)
  <2>1. CASE MayGo(resolved[i])
    BY <1>2, <1>3, <2>1 DEF MayGo
  <2>2. CASE \E k \in DOMAIN notices' : notices'[k] = resolved[i]
    BY <1>2, <1>3, <2>2
  <2> QED BY <1>1, <1>6, <2>1, <2>2
<1> QED BY <1>6, <1>7

-----------------------------------------------------------------------------
(* What each step does to the tasks                                        *)

LEMMA FaultStep == ASSUME faults \in 0..MaxFaults, Fault \/ NoFault PROVE faults' \in 0..MaxFaults
BY Constants DEF Fault, NoFault

LEMMA RestIsTask ==
    ASSUME NEW w \in Workers
    PROVE  Rest(w) \in Tasks /\ Rest(w).at \in {"reconcile", "idle"} /\ Rest(w).outcome = None
BY DEF Rest, Tasks, Outcomes

(* One worker goes on: its task becomes t.                                 *)
Becomes(w, t) == t \in Tasks /\ task' = [task EXCEPT ![w] = t]

LEMMA BecomesOf ==
    ASSUME TypeOK, NEW w \in Workers, NEW t, Becomes(w, t)
    PROVE  /\ task' \in [Workers -> Tasks] /\ task'[w] = t
           /\ \A v \in Workers \ {w} : task'[v] = task[v]
BY DEF TypeOK, Tasks, Becomes

LEMMA EndsBecomes ==
    ASSUME NEW w \in Workers, NEW r \in Revisions \cup {None}, NEW outcome \in Outcomes,
           Ends(w, r, outcome)
    PROVE  \E t : /\ Becomes(w, t) /\ t.at = "settle" /\ t.rev = r /\ t.outcome = outcome
<1> DEFINE t == [Rest(w) EXCEPT !.at = "settle", !.rev = r, !.outcome = outcome]
<1>1. t \in Tasks /\ t.at = "settle" /\ t.rev = r /\ t.outcome = outcome
  BY RestIsTask DEF Tasks
<1>2. Becomes(w, t)
  BY <1>1 DEF Ends, Becomes
<1> QED BY <1>1, <1>2

LEMMA GoesBecomes ==
    ASSUME TypeOK, NEW w \in Workers, NEW at \in {"dispatch", "finish"}, Goes(w, at)
    PROVE  \E t : /\ Becomes(w, t) /\ t.at = at /\ t.rev = task[w].rev
                 /\ t.outcome = task[w].outcome
<1> DEFINE t == [task[w] EXCEPT !.at = at]
<1>1. t \in Tasks /\ t.at = at /\ t.rev = task[w].rev /\ t.outcome = task[w].outcome
  BY DEF TypeOK, Tasks
<1>2. Becomes(w, t)
  BY <1>1 DEF Goes, Becomes
<1> QED BY <1>1, <1>2

LEMMA RestsBecomes ==
    ASSUME NEW w \in Workers, Rests(w)
    PROVE  \E t : Becomes(w, t) /\ t.at \in {"reconcile", "idle"} /\ t.outcome = None
<1>1. Becomes(w, Rest(w))
  BY RestIsTask DEF Rests, Becomes
<1> QED BY <1>1, RestIsTask

LEMMA RunEndsBecomes ==
    ASSUME NEW w \in Workers, RunEnds(w)
    PROVE  \E t : Becomes(w, t) /\ t.at \in {"reconcile", "idle", "dispatch"} /\ t.outcome = None
<1> DEFINE t == IF w \in Background THEN [Rest(w) EXCEPT !.at = "dispatch"] ELSE Rest(w)
<1>1. t \in Tasks /\ t.at \in {"reconcile", "idle", "dispatch"} /\ t.outcome = None
  BY RestIsTask DEF Tasks
<1>2. Becomes(w, t)
  BY <1>1 DEF RunEnds, Becomes
<1> QED BY <1>1, <1>2

(* A step of a worker that leaves the world alone and comes to no task     *)
(* that relies on it.                                                      *)
LEMMA QuietStep ==
    ASSUME IInv, NEW w \in Workers, NEW t, Becomes(w, t), UNCHANGED <<selected, pending>>,
           t.at \in {"reconcile", "idle", "dispatch", "mark", "commit", "settle"},
           t.at = "commit" => t.previous # None,
           t.at = "settle" => t.outcome # None
    PROVE  task' \in [Workers -> Tasks] /\ TaskInv'
<1>1. /\ task' \in [Workers -> Tasks] /\ task'[w] = t
      /\ \A v \in Workers \ {w} : task'[v] = task[v]
  BY BecomesOf DEF IInv
<1> QED BY <1>1 DEF IInv, TaskInv

LEMMA TypesNext ==
    ASSUME notices' \in Seq(Notices), Unique(notices'), market' \in Snapshots,
           selected' \in Revisions \cup {None}, pending' \in Revisions \cup {None},
           policy' \in Policies, task' \in [Workers -> Tasks], faults' \in 0..MaxFaults
    PROVE  TypeOK'
BY DEF TypeOK, Unique, Tasks

LEMMA InitIInv == Init => IInv
<1> SUFFICES ASSUME Init PROVE IInv
  OBVIOUS
<1>1. task \in [Workers -> Tasks] /\ \A w \in Workers : task[w].at \in {"reconcile", "idle"}
  BY RestIsTask DEF Init
<1>2. TypeOK
  <2>1. notices \in Seq(Notices) /\ DOMAIN notices = {}
    BY DEF Init
  <2>2. selected \in Revisions /\ faults \in 0..MaxFaults
    BY Constants DEF Init
  <2> QED BY <1>1, <2>1, <2>2 DEF Init, TypeOK, Tasks
<1>3. TaskInv
  BY <1>1 DEF TaskInv
<1> QED BY <1>2, <1>3 DEF IInv

-----------------------------------------------------------------------------
(* The invariant is kept by every step                                     *)

(* While an update is between its commit and its end, the others who write *)
(* what is selected are kept off by the pending transition.                *)
LEMMA OutsideKeeps ==
    ASSUME IInv, Refresh \/ InstallByHand \/ Uninstall \/ SetPolicy \/ Acknowledge \/ Recover
    PROVE  IInv'
<1>1. /\ notices \in Seq(Notices) /\ Unique(notices) /\ market \in Snapshots
      /\ selected \in Revisions \cup {None} /\ pending \in Revisions \cup {None}
      /\ policy \in Policies /\ task \in [Workers -> Tasks] /\ faults \in 0..MaxFaults
      /\ Catalog[market] \in Revisions
  BY Constants DEF IInv, TypeOK, Unique, Tasks
<1>2. task' = task /\ faults' = faults
  BY DEF Refresh, InstallByHand, Uninstall, SetPolicy, Acknowledge, Recover, world, NoFault
<1>3. notices' \in Seq(Notices) /\ Unique(notices') /\ market' \in Snapshots
  <2>1. CASE Refresh
    BY <2>1, RefreshAppends DEF IInv
  <2>2. CASE Acknowledge
    BY <1>1, <2>2, AcknowledgeEdits, EditKeeps DEF IInv, Acknowledge, world
  <2>3. CASE InstallByHand \/ Uninstall \/ SetPolicy \/ Recover
    BY <1>1, <2>3 DEF InstallByHand, Uninstall, SetPolicy, Recover
  <2> QED BY <2>1, <2>2, <2>3
<1>4. /\ selected' \in Revisions \cup {None} /\ pending' \in Revisions \cup {None}
      /\ policy' \in Policies
      /\ UNCHANGED <<selected, pending>> \/ \A w \in Workers : task[w].at # "finish"
  <2>1. CASE Refresh \/ SetPolicy \/ Acknowledge
    BY <1>1, <2>1 DEF Refresh, SetPolicy, Acknowledge, world
  <2>2. CASE InstallByHand \/ Uninstall
    BY <1>1, <2>2 DEF InstallByHand, Uninstall, IInv, TaskInv
  <2>3. CASE Recover
    BY <1>1, <2>3 DEF Recover
  <2> QED BY <2>1, <2>2, <2>3
<1>5. TypeOK'
  BY <1>1, <1>2, <1>3, <1>4, TypesNext
<1>6. TaskInv'
  BY <1>2, <1>4 DEF IInv, TaskInv
<1> QED BY <1>5, <1>6 DEF IInv

LEMMA EvaluateKeeps ==
    ASSUME IInv, NEW w \in Workers, Evaluate(w)
    PROVE  IInv'
<1>1. PICK r \in Open :
        IF ~Eligible(r) THEN Ends(w, r, "waiting") /\ NoFault
        ELSE IF selected = r THEN Ends(w, r, "applied") /\ NoFault
        ELSE \/ task' = [task EXCEPT ![w] = [@ EXCEPT !.at = "commit", !.rev = r,
                                                     !.previous = selected]]
                /\ NoFault
             \/ \E outcome \in {"waiting", "retryable"} : Ends(w, r, outcome) /\ Fault
  BY DEF Evaluate
<1>2. r \in Revisions
  BY KnownAreRevisions DEF IInv, Open
<1>3. task' \in [Workers -> Tasks] /\ TaskInv' /\ faults' \in 0..MaxFaults
  <2>1. CASE \E outcome \in {"waiting", "applied", "retryable"} : Ends(w, r, outcome) /\ (Fault \/ NoFault)
    <3>1. PICK outcome \in {"waiting", "applied", "retryable"} : Ends(w, r, outcome) /\ (Fault \/ NoFault)
      BY <2>1
    <3>2. outcome \in Outcomes /\ outcome # None
      BY <3>1, Constants DEF Outcomes
    <3>3. PICK t : Becomes(w, t) /\ t.at = "settle" /\ t.outcome = outcome
      BY <1>2, <3>1, <3>2, EndsBecomes
    <3>4. UNCHANGED <<selected, pending>>
      BY DEF Evaluate, world
    <3>5. task' \in [Workers -> Tasks] /\ TaskInv'
      BY <3>2, <3>3, <3>4, QuietStep
    <3> QED BY <3>1, <3>5, FaultStep DEF IInv, TypeOK
  <2>2. CASE /\ Eligible(r) /\ NoFault
             /\ task' = [task EXCEPT ![w] = [@ EXCEPT !.at = "commit", !.rev = r, !.previous = selected]]
    <3> DEFINE t == [task[w] EXCEPT !.at = "commit", !.rev = r, !.previous = selected]
    <3>1. t \in Tasks /\ t.at = "commit" /\ t.previous = selected
      BY <1>2 DEF IInv, TypeOK, Tasks
    <3>2. selected # None
      BY <2>2 DEF Eligible
    <3>3. Becomes(w, t)
      BY <2>2, <3>1 DEF Becomes
    <3> HIDE DEF t
    <3> QED BY <2>2, <3>1, <3>2, <3>3, QuietStep, FaultStep DEF IInv, TypeOK, Evaluate, world
  <2> QED BY <1>1, <2>1, <2>2
<1>4. TypeOK'
  BY <1>3, TypesNext DEF IInv, TypeOK, Unique, Evaluate, world
<1> QED BY <1>3, <1>4 DEF IInv

LEMMA CommitKeeps ==
    ASSUME IInv, NEW w \in Workers, Commit(w)
    PROVE  IInv'
<1> DEFINE r == task[w].rev
<1>1. r \in Revisions \cup {None} /\ task[w].previous \in Revisions \cup {None} /\ task[w].previous # None
  BY DEF IInv, TypeOK, TaskInv, Commit
<1>2. UNCHANGED <<notices, market, policy>> /\ faults' \in 0..MaxFaults
  BY FaultStep DEF Commit, IInv, TypeOK
<1>3. CASE selected = task[w].previous /\ pending = None
  <2>1. selected' = r /\ pending' = task[w].previous /\ Goes(w, "finish")
    BY <1>3 DEF Commit
  <2>2. PICK t : Becomes(w, t) /\ t.at = "finish" /\ t.rev = r
    BY <2>1, GoesBecomes DEF IInv
  <2>3. /\ task' \in [Workers -> Tasks] /\ task'[w] = t
        /\ \A v \in Workers \ {w} : task'[v] = task[v]
    BY <2>2, BecomesOf DEF IInv
  <2>4. \A v \in Workers : task[v].at # "finish"
    BY <1>3 DEF IInv, TaskInv
  <2>5. TaskInv'
    BY <1>1, <2>1, <2>2, <2>3, <2>4 DEF IInv, TaskInv
  <2>6. TypeOK'
    BY <1>1, <1>2, <2>1, <2>3, TypesNext DEF IInv, TypeOK, Unique
  <2> QED BY <2>5, <2>6 DEF IInv
<1>4. CASE ~(selected = task[w].previous /\ pending = None)
  <2>1. UNCHANGED <<selected, pending>> /\ Ends(w, r, "waiting")
    BY <1>4 DEF Commit
  <2>2. PICK t : Becomes(w, t) /\ t.at = "settle" /\ t.outcome = "waiting"
    BY <1>1, <2>1, EndsBecomes DEF Outcomes
  <2>3. task' \in [Workers -> Tasks] /\ TaskInv'
    BY <2>1, <2>2, QuietStep, Constants
  <2>4. TypeOK'
    BY <1>2, <2>1, <2>3, TypesNext DEF IInv, TypeOK, Unique
  <2> QED BY <2>3, <2>4 DEF IInv
<1> QED BY <1>3, <1>4

LEMMA FinishKeeps ==
    ASSUME IInv, NEW w \in Workers, Finish(w)
    PROVE  IInv'
<1> DEFINE r == task[w].rev
<1>1. r \in Revisions \cup {None} /\ selected \in Revisions \cup {None} /\ pending \in Revisions \cup {None}
  BY DEF IInv, TypeOK
<1>2. UNCHANGED <<notices, market, policy>> /\ faults' \in 0..MaxFaults
  BY FaultStep DEF Finish, IInv, TypeOK
<1>3. PICK outcome \in {"waiting", "retryable", "applied"} :
        /\ Ends(w, r, outcome)
        /\ pending' \in {pending, None} /\ selected' \in {selected, pending}
  BY DEF Finish
<1>4. PICK t : Becomes(w, t) /\ t.at = "settle" /\ t.outcome = outcome
  BY <1>1, <1>3, EndsBecomes DEF Outcomes
<1>5. /\ task' \in [Workers -> Tasks] /\ task'[w] = t
      /\ \A v \in Workers \ {w} : task'[v] = task[v]
  BY <1>4, BecomesOf DEF IInv
<1>6. \A v \in Workers \ {w} : task[v].at # "finish"
  BY DEF IInv, TaskInv, Finish
<1>7. outcome # None
  BY <1>3, Constants
<1>8. TaskInv'
  BY <1>4, <1>5, <1>6, <1>7 DEF IInv, TaskInv
<1>9. TypeOK'
  BY <1>1, <1>2, <1>3, <1>5, TypesNext DEF IInv, TypeOK, Unique
<1> QED BY <1>8, <1>9 DEF IInv

LEMMA SettleKeeps ==
    ASSUME IInv, NEW w \in Workers, Settle(w)
    PROVE  IInv'
<1>1. notices' \in Seq(Notices) /\ Unique(notices')
  BY SettleEdits, EditKeeps DEF IInv, TypeOK, Unique
<1>2. PICK t : Becomes(w, t) /\ t.at \in {"reconcile", "idle", "dispatch"}
  BY RunEndsBecomes DEF Settle
<1>3. task' \in [Workers -> Tasks] /\ TaskInv'
  BY <1>2, QuietStep DEF Settle, world
<1>4. TypeOK'
  BY <1>1, <1>3, TypesNext, FaultStep DEF IInv, TypeOK, Settle, world
<1> QED BY <1>3, <1>4 DEF IInv

LEMMA ReconcileStep ==
    ASSUME IInv, NEW w \in Workers, Reconcile(w)
    PROVE  IInv'
<1>1. notices' \in Seq(Notices) /\ Unique(notices')
  BY ReconcileKeeps DEF IInv
<1>2. PICK t : Becomes(w, t) /\ t.at \in {"dispatch", "settle"} /\ (t.at = "settle" => t.outcome # None)
  <2>1. CASE Goes(w, "dispatch")
    BY <2>1, GoesBecomes DEF IInv
  <2>2. CASE \E r \in Open' : Ends(w, r, "waiting")
    <3>1. PICK r \in Open' : Ends(w, r, "waiting")
      BY <2>2
    <3>2. \A i \in DOMAIN notices' : notices'[i] \in Notices
      BY <1>1, RecordIsFunction
    <3>3. r \in Revisions
      BY <3>2 DEF Open, Known, Notices
    <3> QED BY <3>1, <3>3, EndsBecomes, Constants DEF Outcomes
  <2> QED BY <2>1, <2>2 DEF Reconcile
<1>3. task' \in [Workers -> Tasks] /\ TaskInv'
  BY <1>2, QuietStep DEF Reconcile, world
<1>4. TypeOK'
  BY <1>1, <1>3, TypesNext, FaultStep DEF IInv, TypeOK, Reconcile, world
<1> QED BY <1>3, <1>4 DEF IInv

(* The dispatch, and the death of a process, write no notice but Mark.     *)
LEMMA DispatchKeeps ==
    ASSUME IInv, NEW w \in Workers, Publish(w) \/ DispatchEnds(w) \/ Mark(w) \/ Stop(w)
    PROVE  IInv'
<1>1. UNCHANGED world /\ faults' \in 0..MaxFaults
  BY FaultStep DEF Publish, DispatchEnds, Mark, Stop, IInv, TypeOK
<1>2. notices' \in Seq(Notices) /\ Unique(notices')
  <2>1. CASE Mark(w)
    BY <2>1, MarkEdits, EditKeeps DEF IInv, TypeOK, Unique
  <2>2. CASE Publish(w) \/ DispatchEnds(w) \/ Stop(w)
    BY <2>2 DEF Publish, DispatchEnds, Stop, IInv, TypeOK, Unique
  <2> QED BY <2>1, <2>2
<1>3. PICK t : Becomes(w, t) /\ t.at \in {"reconcile", "idle", "dispatch", "mark"}
  <2>1. CASE Publish(w)
    <3>1. PICK r \in Unpublished : task' = [task EXCEPT ![w] = [@ EXCEPT !.at = "mark", !.rev = r]]
      BY <2>1 DEF Publish
    <3>2. r \in Revisions
      BY KnownAreRevisions DEF IInv, Unpublished
    <3> DEFINE t == [task[w] EXCEPT !.at = "mark", !.rev = r]
    <3>3. t \in Tasks /\ t.at = "mark"
      BY <3>2 DEF IInv, TypeOK, Tasks
    <3>4. Becomes(w, t)
      BY <3>1, <3>3 DEF Becomes
    <3> QED BY <3>3, <3>4
  <2>2. CASE Mark(w)
    <3> DEFINE t == [task[w] EXCEPT !.at = "dispatch", !.rev = None]
    <3>1. t \in Tasks /\ t.at = "dispatch"
      BY DEF IInv, TypeOK, Tasks
    <3>2. Becomes(w, t)
      BY <2>2, <3>1 DEF Becomes, Mark
    <3> QED BY <3>1, <3>2
  <2>3. CASE DispatchEnds(w) \/ Stop(w)
    BY <2>3, RestsBecomes DEF DispatchEnds, Stop
  <2> QED BY <2>1, <2>2, <2>3
<1>4. task' \in [Workers -> Tasks] /\ TaskInv'
  BY <1>1, <1>3, QuietStep DEF world
<1>5. TypeOK'
  BY <1>1, <1>2, <1>4, TypesNext DEF IInv, TypeOK, world
<1> QED BY <1>4, <1>5 DEF IInv

LEMMA StepIInv == IInv /\ [Next]_vars => IInv'
<1> SUFFICES ASSUME IInv, [Next]_vars PROVE IInv'
  OBVIOUS
<1>1. CASE Refresh \/ InstallByHand \/ Uninstall \/ SetPolicy \/ Acknowledge \/ Recover
  BY <1>1, OutsideKeeps
<1>2. ASSUME NEW w \in Workers, Evaluate(w) \/ Run(w) \/ Maintain(w) \/ Stop(w)
      PROVE  IInv'
  BY <1>2, EvaluateKeeps, CommitKeeps, FinishKeeps, SettleKeeps, ReconcileStep, DispatchKeeps
     DEF Run, Maintain
<1>3. CASE UNCHANGED vars
  BY <1>3 DEF vars, world, IInv, TypeOK, TaskInv
<1> QED BY <1>1, <1>2, <1>3 DEF Next

(* A plugin is in the hands of one automatic update at a time, from its    *)
(* commit to its end, and no task is without what it needs.                *)
THEOREM InductiveInvariant == Spec => []IInv
<1> QED BY InitIInv, StepIInv, PTL DEF Spec

(* Notices of the right shape, none of a revision twice, whatever the      *)
(* processes, the commands and the user do.                                *)
THEOREM TypeCorrect == Spec => []TypeOK
<1>1. IInv => TypeOK
  BY DEF IInv
<1> QED BY <1>1, InductiveInvariant, PTL

-----------------------------------------------------------------------------
(* Runs that call an update applied                                        *)

(* A step of w, if it says applied at all, says it of what is selected.    *)
Truthful(w) ==
    /\ \A v \in Workers \ {w} : task'[v] = task[v]
    /\ task'[w].outcome = "applied" /\ task[w].outcome # "applied" =>
          selected' = task'[w].rev /\ pending' = None

LEMMA TruthfulUnlessApplied ==
    ASSUME IInv, NEW w \in Workers, NEW t, Becomes(w, t), t.outcome \in {task[w].outcome, None, "waiting", "retryable"}
    PROVE  Truthful(w)
<1>1. task'[w] = t /\ \A v \in Workers \ {w} : task'[v] = task[v]
  BY BecomesOf DEF IInv
<1> QED BY <1>1, Constants DEF Truthful

LEMMA EvaluateIsTruthful ==
    ASSUME IInv, NEW w \in Workers, Evaluate(w)
    PROVE  Truthful(w)
<1>1. PICK r \in Open :
        IF ~Eligible(r) THEN Ends(w, r, "waiting") /\ NoFault
        ELSE IF selected = r THEN Ends(w, r, "applied") /\ NoFault
        ELSE \/ task' = [task EXCEPT ![w] = [@ EXCEPT !.at = "commit", !.rev = r,
                                                     !.previous = selected]]
                /\ NoFault
             \/ \E outcome \in {"waiting", "retryable"} : Ends(w, r, outcome) /\ Fault
  BY DEF Evaluate
<1>2. r \in Revisions
  BY KnownAreRevisions DEF IInv, Open
<1>3. CASE \E outcome \in {"waiting", "retryable"} : Ends(w, r, outcome)
  BY <1>2, <1>3, EndsBecomes, TruthfulUnlessApplied DEF Outcomes
<1>4. CASE Eligible(r) /\ selected = r /\ Ends(w, r, "applied")
  <2>1. PICK t : Becomes(w, t) /\ t.rev = r
    BY <1>2, <1>4, EndsBecomes DEF Outcomes
  <2>2. task'[w] = t /\ \A v \in Workers \ {w} : task'[v] = task[v]
    BY <2>1, BecomesOf DEF IInv
  <2>3. selected' = r /\ pending' = None
    BY <1>4 DEF Eligible, Evaluate, world
  <2> QED BY <2>1, <2>2, <2>3 DEF Truthful
<1>5. CASE task' = [task EXCEPT ![w] = [@ EXCEPT !.at = "commit", !.rev = r, !.previous = selected]]
  <2>1. task'[w].outcome = task[w].outcome /\ \A v \in Workers \ {w} : task'[v] = task[v]
    BY <1>5 DEF IInv, TypeOK
  <2> QED BY <2>1 DEF Truthful
<1> QED BY <1>1, <1>3, <1>4, <1>5

(* The end of an update finds the world as its commit left it.             *)
LEMMA RunIsTruthful ==
    ASSUME IInv, NEW w \in Workers, Run(w)
    PROVE  Truthful(w)
<1> DEFINE r == task[w].rev
<1>1. r \in Revisions \cup {None}
  BY DEF IInv, TypeOK
<1>2. CASE Commit(w)
  <2>1. Goes(w, "finish") \/ Ends(w, r, "waiting")
    BY <1>2 DEF Commit
  <2>2. PICK t : Becomes(w, t) /\ t.outcome \in {task[w].outcome, "waiting"}
    BY <1>1, <2>1, GoesBecomes, EndsBecomes DEF IInv, Outcomes
  <2> QED BY <2>2, TruthfulUnlessApplied
<1>3. CASE Finish(w)
  <2>1. CASE pending' = None /\ UNCHANGED selected /\ Ends(w, r, "applied")
    <3>1. PICK t : Becomes(w, t) /\ t.rev = r
      BY <1>1, <2>1, EndsBecomes DEF Outcomes
    <3>2. task'[w] = t /\ \A v \in Workers \ {w} : task'[v] = task[v]
      BY <3>1, BecomesOf DEF IInv
    <3>3. selected = r
      BY <1>3 DEF Finish, IInv, TaskInv
    <3> QED BY <2>1, <3>1, <3>2, <3>3 DEF Truthful
  <2>2. CASE \E outcome \in {"waiting", "retryable"} : Ends(w, r, outcome)
    BY <1>1, <2>2, EndsBecomes, TruthfulUnlessApplied DEF Outcomes
  <2> QED BY <1>3, <2>1, <2>2 DEF Finish
<1>4. CASE Settle(w)
  BY <1>4, RunEndsBecomes, TruthfulUnlessApplied DEF Settle
<1> QED BY <1>2, <1>3, <1>4 DEF Run

LEMMA MaintenanceIsTruthful ==
    ASSUME IInv, NEW w \in Workers, Maintain(w) \/ Stop(w)
    PROVE  Truthful(w)
<1>1. CASE Reconcile(w)
  <2>1. CASE Goes(w, "dispatch")
    BY <2>1, GoesBecomes, TruthfulUnlessApplied DEF IInv
  <2>2. CASE \E r \in Open' : Ends(w, r, "waiting")
    <3>1. PICK r : Ends(w, r, "waiting")
      BY <2>2
    <3>2. task'[w].outcome = "waiting" /\ \A v \in Workers \ {w} : task'[v] = task[v]
      BY <3>1 DEF Ends, Rest, IInv, TypeOK
    <3> QED BY <3>2 DEF Truthful
  <2> QED BY <1>1, <2>1, <2>2 DEF Reconcile
<1>2. CASE Publish(w) \/ Mark(w)
  <2>1. task'[w].outcome = task[w].outcome /\ \A v \in Workers \ {w} : task'[v] = task[v]
    BY <1>2 DEF Publish, Mark, IInv, TypeOK
  <2> QED BY <2>1 DEF Truthful
<1>3. CASE DispatchEnds(w) \/ Stop(w)
  BY <1>3, RestsBecomes, TruthfulUnlessApplied DEF DispatchEnds, Stop
<1> QED BY <1>1, <1>2, <1>3 DEF Maintain

(* A run calls an update applied only when its revision is selected and    *)
(* nothing is pending that could take it back.                             *)
THEOREM AppliedIsFinalHolds == Spec => AppliedIsFinal
<1> DEFINE Final == \A w \in Workers : ~SaysApplied(w) /\ SaysApplied(w)' =>
                       selected' = task'[w].rev /\ pending' = None
<1>1. ASSUME IInv, [Next]_vars
      PROVE  [Final]_vars
  <2>1. CASE UNCHANGED task
    BY <2>1 DEF SaysApplied
  <2>2. ASSUME NEW v \in Workers, Truthful(v)
        PROVE  Final
    BY <2>2 DEF SaysApplied, Truthful
  <2>3. CASE Next
    <3>1. CASE Refresh \/ InstallByHand \/ Uninstall \/ SetPolicy \/ Acknowledge \/ Recover
      BY <2>1, <3>1 DEF Refresh, InstallByHand, Uninstall, SetPolicy, Acknowledge, Recover
    <3>2. ASSUME NEW w \in Workers, Evaluate(w) \/ Run(w) \/ Maintain(w) \/ Stop(w)
          PROVE  Final
      BY <1>1, <2>2, <3>2, EvaluateIsTruthful, RunIsTruthful, MaintenanceIsTruthful
    <3> QED BY <2>3, <3>1, <3>2 DEF Next
  <2> QED BY <1>1, <2>3
<1> QED BY <1>1, InductiveInvariant, PTL DEF Spec, AppliedIsFinal

-----------------------------------------------------------------------------
(* Notices that leave                                                      *)

(* What a step did with the notice at a position: it is found again, open  *)
(* as before or over or applied by a run that says so; or it may go.       *)
Accounted(i) ==
    LET r == notices[i].rev IN
    \/ \E k \in DOMAIN notices' :
          /\ notices'[k].rev = r
          /\ \/ notices'[k].resolution = None
             \/ IsOver(r)
             \/ \E w \in Workers : SaysApplied(w) /\ task[w].rev = r
    \/ ~notices[i].unread /\ IsOver(r)

(* An edit that resolves nothing accounts for every notice.                *)
LEMMA KeptIsAccounted ==
    ASSUME IInv, NEW i \in DOMAIN notices, i \in DOMAIN notices',
           notices'[i].rev = notices[i].rev,
           \/ notices'[i].resolution = notices[i].resolution
           \/ \E w \in Workers : SaysApplied(w) /\ task[w].rev = notices[i].rev
    PROVE  Accounted(i)
<1>1. notices[i].resolution # None => IsOver(notices[i].rev)
  BY ByPosition DEF IsOver, IInv, TypeOK, Unique
<1> QED BY <1>1 DEF Accounted

LEMMA AllAreAccounted ==
    ASSUME IInv, [Next]_vars, NEW i \in DOMAIN notices
    PROVE  Accounted(i)
<1>1. CASE UNCHANGED notices
  BY <1>1, KeptIsAccounted
<1>2. CASE Refresh
  BY <1>2, RefreshAppends, KeptIsAccounted DEF IInv
<1>3. CASE Acknowledge
  <2>1. Edits(notices, notices') /\ notices'[i].resolution = notices[i].resolution
    BY <1>3, AcknowledgeEdits DEF IInv
  <2> QED BY <2>1, KeptIsAccounted DEF Edits
<1>4. ASSUME NEW w \in Workers, Mark(w)
      PROVE  Accounted(i)
  <2>1. Edits(notices, notices') /\ notices'[i].resolution = notices[i].resolution
    BY <1>4, MarkEdits DEF IInv
  <2> QED BY <2>1, KeptIsAccounted DEF Edits
<1>5. ASSUME NEW w \in Workers, Settle(w)
      PROVE  Accounted(i)
  <2>1. /\ Edits(notices, notices')
        /\ \/ notices'[i].resolution = notices[i].resolution
           \/ SaysApplied(w) /\ task[w].rev = notices[i].rev
    BY <1>5, SettleEdits
  <2> QED BY <2>1, KeptIsAccounted DEF Edits
<1>6. ASSUME NEW w \in Workers, Reconcile(w)
      PROVE  Accounted(i)
  BY <1>6, ReconcileKeeps DEF IInv, Accounted
<1>7. CASE InstallByHand \/ Uninstall \/ SetPolicy \/ Recover
  BY <1>1, <1>7 DEF InstallByHand, Uninstall, SetPolicy, Recover
<1>8. ASSUME NEW w \in Workers, Evaluate(w) \/ Commit(w) \/ Finish(w)
                                 \/ Publish(w) \/ DispatchEnds(w) \/ Stop(w)
      PROVE  Accounted(i)
  BY <1>1, <1>8 DEF Evaluate, Commit, Finish, Publish, DispatchEnds, Stop
<1> QED BY <1>1, <1>2, <1>3, <1>4, <1>5, <1>6, <1>7, <1>8 DEF Next, Run, Maintain, vars

(* No notice leaves the record unread or while its update is open, and     *)
(* none is resolved but with its update over or applied.                   *)
THEOREM NoticesSurviveHolds == Spec => NoticesSurvive
<1> DEFINE Survive ==
       \A r \in Known :
          /\ r \notin Known' => ~Notice(r).unread /\ IsOver(r)
          /\ r \in Open \ Open' =>
                IsOver(r) \/ \E w \in Workers : SaysApplied(w) /\ task[w].rev = r
<1>1. ASSUME IInv, [Next]_vars
      PROVE  [Survive]_vars
  <2> SUFFICES ASSUME NEW r \in Known
               PROVE  /\ r \notin Known' => ~Notice(r).unread /\ IsOver(r)
                      /\ r \in Open \ Open' =>
                            IsOver(r) \/ \E w \in Workers : SaysApplied(w) /\ task[w].rev = r
    OBVIOUS
  <2>1. Unique(notices) /\ Unique(notices')
    BY <1>1, StepIInv DEF IInv, TypeOK, Unique
  <2>2. PICK i \in DOMAIN notices : notices[i].rev = r /\ Notice(r) = notices[i]
    BY <2>1, ByPosition
  <2>3. Accounted(i)
    BY <1>1, AllAreAccounted
  <2>4. CASE ~notices[i].unread /\ IsOver(r)
    BY <2>2, <2>4
  <2>5. CASE \E k \in DOMAIN notices' :
               /\ notices'[k].rev = r
               /\ \/ notices'[k].resolution = None
                  \/ IsOver(r)
                  \/ \E w \in Workers : SaysApplied(w) /\ task[w].rev = r
    BY <2>1, <2>5, ByPositionNext
  <2> QED BY <2>2, <2>3, <2>4, <2>5 DEF Accounted
<1> QED BY <1>1, InductiveInvariant, PTL DEF Spec, NoticesSurvive
=============================================================================
