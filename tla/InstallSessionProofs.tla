-------------------------- MODULE InstallSessionProofs --------------------------
(***************************************************************************)
(* Proofs about InstallSession, for any number of calls at a time.         *)
(*                                                                         *)
(* That content which was taken back is not installed does not follow from *)
(* the state of the lease alone, which stays owned until the discard has   *)
(* ended.  It rests on the order of the two: whoever takes content back    *)
(* has aborted the session before (ReclaimInv), an aborted session claims  *)
(* nothing, and nobody installs while the lease is owned (LeaseInv).       *)
(*                                                                         *)
(* That a close leaves nothing behind rests on somebody who answers for    *)
(* staged content at every moment (Answered).                              *)
(***************************************************************************)
EXTENDS InstallSession, TLAPS

Places == {"idle"} \cup Working \cup Waiting
NoneInstalls == content # "installed" /\ \A c \in Callers : pc[c] # "installing"

LeaseInv ==
    /\ lease # "none" => content # "none"
    /\ lease \in {"none", "owned"} => NoneInstalls
ReclaimInv == reclaimed => session.aborted /\ lease \in {"owned", "released"} /\ NoneInstalls

IInv == TypeOK /\ LeaseInv /\ ReclaimInv

LEMMA InitIInv == Init => IInv
<1> SUFFICES ASSUME Init PROVE IInv
  OBVIOUS
<1>1. session \in Session
  BY DEF Init, Session
<1>2. TypeOK
  BY <1>1 DEF Init, TypeOK, Discarding
<1> QED BY <1>2 DEF Init, IInv, LeaseInv, ReclaimInv, NoneInstalls

-----------------------------------------------------------------------------
(* What the registry's operations make of an entry.                        *)
LEMMA Entries ==
    ASSUME NEW s \in Session
    PROVE  /\ Ended(s) \in Session /\ Ended(s).aborted = s.aborted
           /\ Restored(s) \in Session /\ Restored(s).aborted = s.aborted
           /\ [s EXCEPT !.state = "recovery-required", !.result = "paused", !.terminal = FALSE] \in Session
           /\ [s EXCEPT !.state = "recovery-required", !.result = "paused", !.terminal = FALSE].aborted = s.aborted
BY DEF Ended, Restored, Session

LEMMA Changes ==
    ASSUME NEW s \in Session, NEW more \in SUBSET {"configuration", "trust"}, NEW b \in BOOLEAN
    PROVE  /\ [s EXCEPT !.retained = @ \cup more] \in Session
           /\ [s EXCEPT !.retained = @ \cup more].aborted = s.aborted
           /\ [s EXCEPT !.recovery = b] \in Session
           /\ [s EXCEPT !.recovery = b].aborted = s.aborted
           /\ [s EXCEPT !.recovery = b, !.retained = @ \cup more] \in Session
           /\ [s EXCEPT !.recovery = b, !.retained = @ \cup more].aborted = s.aborted
           /\ [s EXCEPT !.trustPending = b] \in Session
           /\ [s EXCEPT !.trustPending = b].aborted = s.aborted
BY DEF Session

(* Where a call goes that neither claims the content nor installs it.      *)
Moves(c) ==
    \/ \E w \in (Places \ Discarding) \ {"installing", "opening"} : Goes(c, w) /\ UNCHANGED discarding
    \/ \E w \in Discarding : Releases(c, w)
\* It leaves the content alone and aborts nothing.
Quiet(c) == /\ pc[c] \notin Discarding /\ Moves(c) /\ Kept
            /\ session' \in Session /\ (session.aborted => session'.aborted)

LEMMA ReleasesGo ==
    ASSUME IInv, NEW c \in Callers, pc[c] \notin Discarding, NEW w \in Discarding, Releases(c, w)
    PROVE  /\ lease = "owned" => discarding'
           /\ \E v \in (Discarding \cup {"idle"}) \ {"installing", "opening"} :
                 /\ v \in Places /\ v \in {"idle", w}
                 /\ pc' = [pc EXCEPT ![c] = v] /\ discarding' = (discarding \/ v \in Discarding)
<1>1. w \in Places \ {"installing", "opening"} /\ "idle" \in Places \ {"installing", "opening"} /\ "idle" \notin Discarding
  BY DEF Places, Discarding, Waiting
<1>2. CASE lease = "owned" \/ discarding
  <2>1. pc' = [pc EXCEPT ![c] = w] /\ discarding' = TRUE
    BY <1>2 DEF Releases
  <2> QED BY <1>1, <2>1
<1>3. CASE ~(lease = "owned" \/ discarding)
  <2>1. pc' = [pc EXCEPT ![c] = "idle"] /\ discarding' = FALSE
    BY <1>3 DEF Releases
  <2> QED BY <1>1, <1>3, <2>1
<1> QED BY <1>2, <1>3

LEMMA QuietGoes ==
    ASSUME IInv, NEW c \in Callers, Quiet(c)
    PROVE  \E w \in Places \ {"installing", "opening"} :
              pc' = [pc EXCEPT ![c] = w] /\ discarding' = (discarding \/ w \in Discarding)
<1>1. CASE \E w \in (Places \ Discarding) \ {"installing", "opening"} : Goes(c, w) /\ UNCHANGED discarding
  BY <1>1 DEF Goes, IInv, TypeOK
<1>2. CASE \E w \in Discarding : Releases(c, w)
  BY <1>2, ReleasesGo DEF Quiet
<1> QED BY <1>1, <1>2 DEF Quiet, Moves

LEMMA QuietStep ==
    ASSUME IInv, NEW c \in Callers, Quiet(c)
    PROVE  IInv'
<1>2. PICK w \in Places \ {"installing", "opening"} :
         pc' = [pc EXCEPT ![c] = w] /\ discarding' = (discarding \/ w \in Discarding)
  BY QuietGoes
<1>3. TypeOK'
  <2>1. pc' \in [Callers -> Places] /\ discarding' \in BOOLEAN
    BY <1>2 DEF IInv, TypeOK, Places
  <2>2. discarding' <=> \E d \in Callers : pc'[d] \in Discarding
    BY <1>2 DEF IInv, TypeOK, Quiet
  <2> QED BY <2>1, <2>2 DEF IInv, TypeOK, Quiet, Kept, Untouched, Places
<1>4. NoneInstalls => NoneInstalls'
  <2>1. \A d \in Callers : pc'[d] = pc[d] \/ pc'[d] # "installing"
    BY <1>2 DEF IInv, TypeOK
  <2> QED BY <2>1 DEF NoneInstalls, Quiet, Kept, Untouched
<1>5. LeaseInv' /\ ReclaimInv'
  BY <1>4 DEF IInv, LeaseInv, ReclaimInv, Quiet, Kept, Untouched
<1> QED BY <1>3, <1>5 DEF IInv

-----------------------------------------------------------------------------
(* The ways in which an activation goes on are quiet.                      *)
LEMMA FinishIsQuiet ==
    ASSUME IInv, NEW c \in Callers, pc[c] \notin Discarding, Kept,
           NEW s \in Session, session.aborted => s.aborted, Finish(c, s)
    PROVE  Quiet(c)
BY Entries DEF Finish, Quiet, Moves, Discarding

LEMMA PauseIsQuiet ==
    ASSUME IInv, NEW c \in Callers, pc[c] \notin Discarding, Kept,
           NEW s \in Session, session.aborted => s.aborted, Pause(c, s)
    PROVE  Quiet(c)
BY Entries DEF Pause, Quiet, Moves, Discarding, Places, Working, Waiting

LEMMA ProceedIsQuiet ==
    ASSUME IInv, NEW c \in Callers, pc[c] \notin Discarding, Kept,
           NEW s \in Session, session.aborted => s.aborted,
           NEW w \in (Places \ Discarding) \ {"installing", "opening"}, Proceed(c, s, w)
    PROVE  Quiet(c)
BY FinishIsQuiet DEF Proceed, Quiet, Moves

\* Where a call may go on its own.
LEMMA PlacesApart ==
    /\ {"idle", "saving", "settling", "trusting", "checking", "executing", "validating",
        "recovering", "resuming"} \subseteq (Places \ Discarding) \ {"installing", "opening"}
    /\ {"opening", "validating", "saving", "settling", "trusting", "checking", "executing",
        "installing", "recovering", "resuming", "idle"} \cap Discarding = {}
BY DEF Places, Discarding, Working, Waiting

LEMMA OpenedIsQuiet ==
    ASSUME IInv, NEW c \in Callers, Opened(c)
    PROVE  Quiet(c)
<1>1. [session EXCEPT !.kept = "yes"] \in Session /\ [session EXCEPT !.kept = "yes"].aborted = session.aborted
  BY DEF IInv, TypeOK, Session
<1>2. "returning" \in Discarding /\ session \in Session
  BY DEF Discarding, IInv, TypeOK
<1> QED BY <1>1, <1>2, PlacesApart DEF Opened, Quiet, Moves

LEMMA ActivateIsQuiet ==
    ASSUME IInv, NEW c \in Callers, Activate(c)
    PROVE  Quiet(c)
<1>1. /\ [session EXCEPT !.state = "activating"] \in Session
      /\ [session EXCEPT !.state = "activating"].aborted = session.aborted
  BY DEF IInv, TypeOK, Session
<1> QED BY <1>1, PlacesApart DEF Activate, Quiet, Moves

LEMMA ValidateIsQuiet ==
    ASSUME IInv, NEW c \in Callers, Validate(c)
    PROVE  Quiet(c)
<1>1. session \in Session /\ pc[c] \notin Discarding /\ Kept
  BY PlacesApart DEF IInv, TypeOK, Validate
<1>2. CASE Finish(c, session)
  BY <1>1, <1>2, FinishIsQuiet
<1>3. CASE session' = Restored(session) /\ Goes(c, "idle") /\ UNCHANGED discarding
  BY <1>1, <1>3, Entries, PlacesApart DEF Quiet, Moves
<1>4. ASSUME NEW stored \in SUBSET {"configuration"}, NEW w \in {"trusting", "saving"},
             Proceed(c, [session EXCEPT !.retained = @ \cup stored], w)
      PROVE  Quiet(c)
  <2>1. stored \in SUBSET {"configuration", "trust"}
    OBVIOUS
  <2>2. /\ [session EXCEPT !.retained = @ \cup stored] \in Session
        /\ [session EXCEPT !.retained = @ \cup stored].aborted = session.aborted
    BY <1>1, <2>1, Changes
  <2>3. w \in (Places \ Discarding) \ {"installing", "opening"}
    BY PlacesApart
  <2> QED BY <1>1, <1>4, <2>2, <2>3, ProceedIsQuiet
<1>5. CASE \E stored \in SUBSET {"configuration"} :
              LET s == [session EXCEPT !.retained = @ \cup stored]
              IN  Proceed(c, s, IF "configuration" \in s.retained THEN "trusting" ELSE "saving")
  BY <1>4, <1>5
<1> QED BY <1>2, <1>3, <1>5 DEF Validate

LEMMA SaveIsQuiet ==
    ASSUME IInv, NEW c \in Callers, Save(c)
    PROVE  Quiet(c)
<1>1. session \in Session /\ pc[c] \notin Discarding /\ Kept
  BY PlacesApart DEF IInv, TypeOK, Save
<1>2. CASE Finish(c, session)
  BY <1>1, <1>2, FinishIsQuiet
<1>3. CASE Pause(c, [session EXCEPT !.recovery = TRUE])
  BY <1>1, <1>3, Changes, PauseIsQuiet
<1>4. CASE session' = [session EXCEPT !.recovery = TRUE] /\ Goes(c, "settling") /\ UNCHANGED discarding
  BY <1>1, <1>4, Changes, PlacesApart DEF Quiet, Moves
<1>5. CASE Proceed(c, [session EXCEPT !.retained = @ \cup {"configuration"}], "trusting")
  BY <1>1, <1>5, Changes, PlacesApart, ProceedIsQuiet
<1> QED BY <1>2, <1>3, <1>4, <1>5 DEF Save

LEMMA SettleIsQuiet ==
    ASSUME IInv, NEW c \in Callers, Settle(c)
    PROVE  Quiet(c)
<1>1. session \in Session /\ pc[c] \notin Discarding /\ Kept
  BY PlacesApart DEF IInv, TypeOK, Settle
<1>2. CASE Pause(c, session)
  BY <1>1, <1>2, PauseIsQuiet
<1>3. CASE Finish(c, [session EXCEPT !.recovery = FALSE])
  BY <1>1, <1>3, Changes, FinishIsQuiet
<1>4. CASE Proceed(c, [session EXCEPT !.recovery = FALSE, !.retained = @ \cup {"configuration"}], "trusting")
  BY <1>1, <1>4, Changes, PlacesApart, ProceedIsQuiet
<1> QED BY <1>2, <1>3, <1>4 DEF Settle

LEMMA GrantIsQuiet ==
    ASSUME IInv, NEW c \in Callers, Grant(c)
    PROVE  Quiet(c)
<1>1. session \in Session /\ pc[c] \notin Discarding /\ Kept
  BY PlacesApart DEF IInv, TypeOK, Grant
<1>2. CASE Proceed(c, [session EXCEPT !.retained = @ \cup {"trust"}], "checking")
  BY <1>1, <1>2, Changes, PlacesApart, ProceedIsQuiet
<1>3. CASE Finish(c, session)
  BY <1>1, <1>3, FinishIsQuiet
<1>4. CASE Pause(c, [session EXCEPT !.trustPending = TRUE])
  BY <1>1, <1>4, Changes, PauseIsQuiet
<1> QED BY <1>2, <1>3, <1>4 DEF Grant

LEMMA CheckIsQuiet ==
    ASSUME IInv, NEW c \in Callers, Check(c)
    PROVE  Quiet(c)
<1>1. session \in Session /\ pc[c] \notin Discarding /\ Kept
  BY PlacesApart DEF IInv, TypeOK, Check
<1>2. CASE Proceed(c, session, "executing")
  BY <1>1, <1>2, PlacesApart, ProceedIsQuiet
<1>3. CASE Finish(c, session)
  BY <1>1, <1>3, FinishIsQuiet
<1> QED BY <1>2, <1>3 DEF Check

LEMMA RecoverIsQuiet ==
    ASSUME IInv, NEW c \in Callers, Recover(c)
    PROVE  Quiet(c)
<1>1. session \in Session /\ pc[c] \notin Discarding
  BY PlacesApart DEF IInv, TypeOK, Recover
<1>2. /\ Restored([session EXCEPT !.trustPending = FALSE]) \in Session
      /\ Restored([session EXCEPT !.trustPending = FALSE]).aborted = session.aborted
  BY <1>1, Entries, Changes
<1> QED BY <1>1, <1>2, PlacesApart DEF Recover, Quiet, Moves

LEMMA RecoveredIsQuiet ==
    ASSUME IInv, NEW c \in Callers, Recovered(c)
    PROVE  Quiet(c)
<1>1. session \in Session /\ pc[c] \notin Discarding /\ Kept
  BY PlacesApart DEF IInv, TypeOK, Recovered
<1>2. CASE Pause(c, session)
  BY <1>1, <1>2, PauseIsQuiet
<1>3. CASE Finish(c, [session EXCEPT !.recovery = FALSE])
  BY <1>1, <1>3, Changes, FinishIsQuiet
<1>4. ASSUME NEW stored \in SUBSET {"configuration"},
             session' = Restored([session EXCEPT !.recovery = FALSE, !.retained = @ \cup stored]),
             Goes(c, "resuming"), UNCHANGED discarding
      PROVE  Quiet(c)
  <2>1. stored \in SUBSET {"configuration", "trust"}
    OBVIOUS
  <2>2. /\ [session EXCEPT !.recovery = FALSE, !.retained = @ \cup stored] \in Session
        /\ [session EXCEPT !.recovery = FALSE, !.retained = @ \cup stored].aborted = session.aborted
    BY <1>1, <2>1, Changes
  <2> QED BY <1>1, <1>4, <2>2, Entries, PlacesApart DEF Quiet, Moves
<1>5. CASE \E stored \in SUBSET {"configuration"} :
              session' = Restored([session EXCEPT !.recovery = FALSE, !.retained = @ \cup stored])
           /\ Goes(c, "resuming") /\ UNCHANGED discarding
  BY <1>4, <1>5
<1> QED BY <1>2, <1>3, <1>5 DEF Recovered

LEMMA GiveUpIsQuiet ==
    ASSUME IInv, NEW c \in Callers, GiveUp(c)
    PROVE  Quiet(c)
BY PlacesApart DEF GiveUp, Quiet, Moves, IInv, TypeOK

-----------------------------------------------------------------------------
(* The other steps.                                                        *)
\* Content is staged once, before anybody could have taken it back.
LEMMA OpenStep ==
    ASSUME IInv, NEW c \in Callers, Open(c)
    PROVE  IInv'
<1>1. lease = "none" /\ ~reclaimed
  BY DEF IInv, LeaseInv, ReclaimInv, Open
<1>2. pc' \in [Callers -> Places] /\ (\A d \in Callers : pc'[d] = pc[d] \/ pc'[d] = "opening")
      /\ (pc'[c] = pc[c] \/ pc[c] = "idle")
  BY DEF IInv, TypeOK, Open, Goes, Places, Waiting
<1>3. (\E d \in Callers : pc[d] \in Discarding) <=> (\E d \in Callers : pc'[d] \in Discarding)
  BY <1>2, PlacesApart DEF Open, Goes, IInv, TypeOK
<1>4. TypeOK'
  BY <1>2, <1>3 DEF IInv, TypeOK, Open, Places
<1>5. NoneInstalls'
  BY <1>1, <1>2 DEF IInv, LeaseInv, NoneInstalls, Open
<1> QED BY <1>1, <1>4, <1>5 DEF IInv, LeaseInv, ReclaimInv, Open

\* Whoever takes content back has aborted the session.
LEMMA ReclaimStep ==
    ASSUME IInv, NEW c \in Callers, pc[c] \notin Discarding, NEW w \in Discarding, Reclaims(c, w),
           session' \in Session, session'.aborted, Untouched
    PROVE  IInv'
<1>2. PICK v \in Places \ {"installing", "opening"} :
         pc' = [pc EXCEPT ![c] = v] /\ discarding' = (discarding \/ v \in Discarding)
  BY ReleasesGo DEF Reclaims
<1>3. TypeOK'
  <2>1. pc' \in [Callers -> Places] /\ discarding' \in BOOLEAN /\ reclaimed' \in BOOLEAN
    BY <1>2 DEF IInv, TypeOK, Places, Reclaims
  <2>2. discarding' <=> \E d \in Callers : pc'[d] \in Discarding
    BY <1>2 DEF IInv, TypeOK
  <2> QED BY <2>1, <2>2 DEF IInv, TypeOK, Untouched, Places
<1>4. NoneInstalls => NoneInstalls'
  <2>1. \A d \in Callers : pc'[d] = pc[d] \/ pc'[d] # "installing"
    BY <1>2 DEF IInv, TypeOK
  <2> QED BY <2>1 DEF NoneInstalls, Untouched
<1> QED BY <1>3, <1>4 DEF IInv, LeaseInv, ReclaimInv, Reclaims, Untouched

LEMMA ExpireStep ==
    ASSUME IInv, NEW c \in Callers, Expire(c)
    PROVE  IInv'
<1>1. /\ [session EXCEPT !.state = "expired", !.terminal = TRUE, !.aborted = TRUE] \in Session
      /\ [session EXCEPT !.state = "expired", !.terminal = TRUE, !.aborted = TRUE].aborted
  BY DEF IInv, TypeOK, Session
<1>2. "expiring" \in Discarding
  BY DEF Discarding
<1> QED BY <1>1, <1>2, PlacesApart, ReclaimStep DEF Expire

LEMMA CancelStep ==
    ASSUME IInv, NEW c \in Callers, Cancel(c)
    PROVE  IInv'
<1> DEFINE s == [session EXCEPT !.aborted = TRUE]
<1>1. s \in Session /\ s.aborted
  BY DEF IInv, TypeOK, Session
<1>2. "releasing" \in Discarding /\ pc[c] \notin Discarding
  BY PlacesApart DEF Discarding, Cancel
<1>3. CASE session' = Ended(s) /\ Reclaims(c, "releasing")
  BY <1>1, <1>2, <1>3, Entries, ReclaimStep DEF Cancel
<1>4. CASE session' = s /\ UNCHANGED <<discarding, pc, reclaimed>>
  <2>1. TypeOK'
    BY <1>1, <1>4 DEF IInv, TypeOK, Cancel, Untouched
  <2> QED BY <1>1, <1>4, <2>1 DEF IInv, LeaseInv, ReclaimInv, NoneInstalls, Cancel, Untouched
<1> QED BY <1>3, <1>4 DEF Cancel

LEMMA ExecuteStep ==
    ASSUME IInv, NEW c \in Callers, Execute(c)
    PROVE  IInv'
<1>1. session \in Session /\ pc[c] \notin Discarding
  BY PlacesApart DEF IInv, TypeOK, Execute
<1>2. CASE Finish(c, session) /\ UNCHANGED lease
  <2>1. Kept
    BY <1>2 DEF Execute, Kept, Untouched
  <2> QED BY <1>1, <1>2, <2>1, FinishIsQuiet, QuietStep
<1>3. CASE Releases(c, "yielding") /\ UNCHANGED <<session, lease>>
  <2>1. Kept
    BY <1>3 DEF Execute, Kept, Untouched
  <2>2. "yielding" \in Discarding
    BY DEF Discarding
  <2> QED BY <1>1, <1>3, <2>1, <2>2, QuietStep DEF Quiet, Moves
<1>4. CASE /\ ~session.aborted /\ lease = "owned"
           /\ lease' = "claimed"
           /\ Goes(c, "installing") /\ UNCHANGED <<session, discarding>>
  <2>1. ~reclaimed
    BY <1>4 DEF IInv, ReclaimInv
  <2>2. TypeOK'
    <3>1. pc' \in [Callers -> Places]
      BY <1>4 DEF IInv, TypeOK, Goes, Places, Working
    <3>2. (\E d \in Callers : pc[d] \in Discarding) <=> (\E d \in Callers : pc'[d] \in Discarding)
      BY <1>1, <1>4, PlacesApart DEF IInv, TypeOK, Goes
    <3> QED BY <1>4, <3>1, <3>2 DEF IInv, TypeOK, Execute, Places
  <2> QED BY <1>4, <2>1, <2>2 DEF IInv, LeaseInv, ReclaimInv, Execute
<1> QED BY <1>2, <1>3, <1>4 DEF Execute

\* Whoever installs has claimed the content, which nobody took back.
LEMMA InstallStep ==
    ASSUME IInv, NEW c \in Callers, Install(c)
    PROVE  IInv'
<1>1. lease \in {"claimed", "released"} /\ ~reclaimed
  BY DEF IInv, TypeOK, LeaseInv, ReclaimInv, NoneInstalls, Install
<1>2. /\ content' \in {"none", "staged", "installed", "discarded"} /\ pending' \in BOOLEAN
      /\ (lease = "released" => content' = content)
      /\ (content # "none" => content' # "none")
  BY DEF IInv, TypeOK, Install
<1>3. pc' \in [Callers -> Places] /\ discarding' \in BOOLEAN
      /\ (discarding' <=> \E d \in Callers : pc'[d] \in Discarding)
  <2>1. "releasing" \in Discarding /\ pc[c] \notin Discarding /\ "idle" \notin Discarding
    BY PlacesApart DEF Discarding, Install
  <2>2. discarding' = discarding /\ pc' = [pc EXCEPT ![c] = IF discarding THEN "releasing" ELSE "idle"]
    BY <1>1 DEF Install, Finish, Releases, IInv, TypeOK
  <2> QED BY <2>1, <2>2 DEF IInv, TypeOK, Places, Waiting
<1>4. Ended(session) \in Session
  BY Entries DEF IInv, TypeOK
<1>5. TypeOK'
  BY <1>1, <1>2, <1>3, <1>4 DEF IInv, TypeOK, Install, Finish, Places
<1> QED BY <1>1, <1>2, <1>5 DEF IInv, LeaseInv, ReclaimInv, Install

LEMMA DiscardEndsStep ==
    ASSUME IInv, NEW ok \in BOOLEAN, DiscardEnds(ok)
    PROVE  IInv'
<1> DEFINE again == {c \in Callers : pc[c] \in {"yielding"}} # {} /\ ~ok /\ lease = "owned"
<1>1. /\ pc' = [c \in Callers |-> IF again /\ pc[c] = "yielding" THEN "releasing"
                                  ELSE IF pc[c] \in Discarding THEN "idle" ELSE pc[c]]
      /\ discarding' = again
      /\ lease' = IF ok THEN "released" ELSE lease
      /\ content' = IF ok THEN "discarded" ELSE content
      /\ UNCHANGED <<reclaimed, phase>>
  BY DEF DiscardEnds
<1>2. session' \in Session /\ session'.aborted = session.aborted
  BY Entries DEF DiscardEnds, IInv, TypeOK
<1>3. pending' \in BOOLEAN /\ lost' \in BOOLEAN
  BY DEF DiscardEnds, IInv, TypeOK
<1>4. pc' \in [Callers -> Places] /\ \A c \in Callers : pc'[c] = pc[c] \/ pc'[c] # "installing"
  BY <1>1 DEF IInv, TypeOK, Places, Waiting
<1>5. discarding' <=> \E c \in Callers : pc'[c] \in Discarding
  BY <1>1 DEF Discarding
<1>6. TypeOK'
  BY <1>1, <1>2, <1>3, <1>4, <1>5 DEF IInv, TypeOK, Places
<1>7. NoneInstalls => NoneInstalls'
  BY <1>1, <1>4 DEF NoneInstalls
<1>8. LeaseInv'
  BY <1>1, <1>7 DEF IInv, LeaseInv
<1>9. ReclaimInv'
  BY <1>1, <1>2, <1>7 DEF IInv, ReclaimInv
<1> QED BY <1>6, <1>8, <1>9 DEF IInv

LEMMA DropStep ==
    ASSUME IInv, Drop
    PROVE  IInv'
<1>1. /\ [session EXCEPT !.kept = "dropped"] \in Session
      /\ [session EXCEPT !.kept = "dropped"].aborted = session.aborted
  BY DEF IInv, TypeOK, Session
<1> QED BY <1>1 DEF Drop, Kept, Untouched, IInv, TypeOK, LeaseInv, ReclaimInv, NoneInstalls

LEMMA QuiesceStep ==
    ASSUME IInv, Quiesce
    PROVE  IInv'
BY DEF Quiesce, IInv, TypeOK, LeaseInv, ReclaimInv, NoneInstalls

\* A lease the close releases was owned, so its content was not installed.
LEMMA CloseRegistryStep ==
    ASSUME IInv, CloseRegistry
    PROVE  IInv'
<1>1. PICK settled \in BOOLEAN, ok \in BOOLEAN :
        LET kept == session.kept = "yes"
            unsettled == kept /\ session.recovery /\ ~settled
            left == kept /\ lease = "owned" /\ content = "staged" /\ ~ok
        IN  /\ session' = IF kept THEN [session EXCEPT !.aborted = TRUE, !.recovery = unsettled] ELSE session
            /\ lease' = IF kept /\ lease = "owned" /\ ~left THEN "released" ELSE lease
            /\ content' = IF kept /\ lease = "owned" /\ ~left THEN Discarded ELSE content
            /\ pending' = (pending \/ (left /\ phase = "quiesced"))
            /\ phase' = IF ~unsettled /\ ~left THEN "last"
                        ELSE IF phase = "quiesced" THEN "retry" ELSE "refused"
  BY DEF CloseRegistry
<1> DEFINE unsettled == session.kept = "yes" /\ session.recovery /\ ~settled
<1>2. /\ [session EXCEPT !.aborted = TRUE, !.recovery = unsettled] \in Session
      /\ [session EXCEPT !.aborted = TRUE, !.recovery = unsettled].aborted
  BY DEF IInv, TypeOK, Session
<1>3. session' \in Session /\ (session.aborted => session'.aborted)
  BY <1>1, <1>2 DEF IInv, TypeOK
<1>4. UNCHANGED <<discarding, pc, reclaimed, lost>>
  BY DEF CloseRegistry
<1>5. pending' \in BOOLEAN /\ phase' \in {"last", "retry", "refused"}
  BY <1>1 DEF IInv, TypeOK
<1>6. \/ UNCHANGED <<lease, content>>
      \/ lease = "owned" /\ lease' = "released" /\ content' = Discarded
  BY <1>1
<1>7. lease = "owned" => NoneInstalls /\ Discarded = "discarded"
  BY DEF IInv, TypeOK, LeaseInv, NoneInstalls, Discarded
<1>8. TypeOK'
  BY <1>3, <1>4, <1>5, <1>6, <1>7 DEF IInv, TypeOK
<1>9. NoneInstalls => NoneInstalls'
  BY <1>4, <1>6, <1>7 DEF NoneInstalls
<1>10. LeaseInv' /\ ReclaimInv'
  BY <1>3, <1>4, <1>6, <1>7, <1>9 DEF IInv, LeaseInv, ReclaimInv
<1> QED BY <1>8, <1>10 DEF IInv

LEMMA CloseRetryStep ==
    ASSUME IInv, CloseRetry
    PROVE  IInv'
<1>1. UNCHANGED <<session, lease, discarding, pc, reclaimed, lost>>
  BY DEF CloseRetry
<1>2. content' = content \/ (content = "staged" /\ content' = "discarded")
  BY DEF CloseRetry, Discarded
<1>3. pending' \in BOOLEAN /\ phase' \in {"refused", "failed", "again", "closed"}
  BY DEF CloseRetry, IInv, TypeOK
<1>4. TypeOK'
  BY <1>1, <1>2, <1>3 DEF IInv, TypeOK
<1>5. NoneInstalls => NoneInstalls'
  BY <1>1, <1>2 DEF NoneInstalls
<1> QED BY <1>1, <1>2, <1>4, <1>5 DEF IInv, LeaseInv, ReclaimInv

-----------------------------------------------------------------------------
LEMMA NextIInv == IInv /\ [Next]_vars => IInv'
<1> SUFFICES ASSUME IInv, [Next]_vars PROVE IInv'
  OBVIOUS
<1>1. CASE UNCHANGED vars
  BY <1>1 DEF vars, IInv, TypeOK, LeaseInv, ReclaimInv, NoneInstalls
<1>2. ASSUME NEW c \in Callers,
             \/ Opened(c) \/ Activate(c) \/ Validate(c) \/ Save(c) \/ Settle(c)
             \/ Grant(c) \/ Check(c) \/ Recover(c) \/ Recovered(c) \/ GiveUp(c)
      PROVE  IInv'
  <2>1. Quiet(c)
    BY <1>2, OpenedIsQuiet, ActivateIsQuiet, ValidateIsQuiet, SaveIsQuiet, SettleIsQuiet,
       GrantIsQuiet, CheckIsQuiet, RecoverIsQuiet, RecoveredIsQuiet, GiveUpIsQuiet
  <2> QED BY <2>1, QuietStep
<1>3. ASSUME NEW c \in Callers, Open(c) \/ Expire(c) \/ Execute(c) \/ Install(c) \/ Cancel(c)
      PROVE  IInv'
  BY <1>3, OpenStep, ExpireStep, ExecuteStep, InstallStep, CancelStep
<1>4. ASSUME NEW ok \in BOOLEAN, DiscardEnds(ok)
      PROVE  IInv'
  BY <1>4, DiscardEndsStep
<1>5. CASE Drop \/ Quiesce \/ CloseRegistry \/ CloseRetry
  BY <1>5, DropStep, QuiesceStep, CloseRegistryStep, CloseRetryStep
<1> QED BY <1>1, <1>2, <1>3, <1>4, <1>5 DEF Next

LEMMA SpecIInv == Spec => []IInv
BY InitIInv, NextIInv, PTL DEF Spec

-----------------------------------------------------------------------------
(* Who answers for staged content: nothing is left behind by a close that  *)
(* succeeds because at every moment somebody will discard or install it,   *)
(* or is remembered to have failed (StagedInv).                            *)
Somebody(where) == \E c \in Callers : pc[c] \in where

\* Before a session is kept nobody works on it.
SessionInv ==
    session.kept = "no" =>
        ~session.terminal /\ \A c \in Callers : pc[c] \in {"idle", "opening", "returning"}
\* While nothing is staged nobody opens the session.
OpeningInv == content = "none" => session.kept = "no" /\ ~Somebody({"opening"})
StagedInv ==
    content = "staged" =>
        \/ pending \/ Somebody({"installing"})
        \/ /\ lease = "owned"
           /\ \/ discarding
              \/ session.kept = "no" /\ Somebody({"opening"})
              \/ session.kept = "yes" /\ (session.terminal => lost)
              \/ session.kept = "dropped" /\ lost
ClosedInv ==
    phase \in {"last", "closed"} /\ content = "staged" /\ ~pending => session.kept = "dropped" /\ lost

Answered == IInv /\ SessionInv /\ OpeningInv /\ StagedInv /\ ClosedInv /\ StagingIsSettled

LEMMA InitAnswered == Init => Answered
BY InitIInv DEF Init, Answered, SessionInv, OpeningInv, Somebody, StagedInv, ClosedInv, StagingIsSettled

(* Once the service is closed, no content gets staged any more.            *)
LEMMA ClosedStays ==
    ASSUME Answered, phase' = phase, content' = "staged" => content = "staged", pending => pending',
           lost => lost', session.kept = "dropped" => session'.kept = "dropped"
    PROVE  ClosedInv' /\ StagingIsSettled'
BY DEF Answered, ClosedInv, StagingIsSettled

(* A call that goes on without touching the content: if it ends the        *)
(* session or gives the content up, a discard is under way.                *)
LEMMA CallGoesOn ==
    ASSUME Answered, NEW c \in Callers, NEW w \in Places \ {"opening"}, pc[c] # "installing",
           pc' = [pc EXCEPT ![c] = w], discarding' = (discarding \/ w \in Discarding), Untouched,
           session'.kept = session.kept \/ (pc[c] = "opening" /\ phase = "open" /\ session'.kept = "yes"),
           session'.kept = "no" => ~session'.terminal /\ w \in {"idle", "returning"},
           lease = "owned" /\ ~discarding' =>
               /\ session'.terminal => session.terminal
               /\ pc[c] = "opening" => session'.kept = "yes"
    PROVE  SessionInv' /\ OpeningInv' /\ StagedInv' /\ ClosedInv' /\ StagingIsSettled'
<1>1. /\ pc \in [Callers -> Places] /\ UNCHANGED <<lease, content, pending, phase, lost>>
      /\ SessionInv /\ OpeningInv /\ StagedInv /\ discarding \in BOOLEAN
  BY DEF Answered, IInv, TypeOK, Places, Untouched
<1>2. ClosedInv' /\ StagingIsSettled'
  BY <1>1 DEF Answered, ClosedInv, StagingIsSettled
<1>3. SessionInv'
  BY <1>1 DEF SessionInv
<1>4. OpeningInv'
  BY <1>1 DEF OpeningInv, Somebody
<1>5. ASSUME content = "staged"
      PROVE  StagedInv'
  <2>1. CASE pending
    BY <1>1, <2>1 DEF StagedInv
  <2>2. CASE Somebody({"installing"})
    <3>1. PICK d \in Callers : pc[d] = "installing"
      BY <2>2 DEF Somebody
    <3>2. pc'[d] = "installing"
      BY <1>1, <3>1
    <3> QED BY <3>2 DEF StagedInv, Somebody
  <2>3. CASE lease = "owned" /\ (discarding \/ discarding')
    BY <1>1, <2>3 DEF StagedInv
  <2>4. CASE lease = "owned" /\ ~discarding' /\ session.kept = "no" /\ Somebody({"opening"})
    <3>1. PICK d \in Callers : pc[d] = "opening"
      BY <2>4 DEF Somebody
    <3>2. CASE session'.kept = "yes"
      BY <1>1, <2>4, <3>2 DEF StagedInv, SessionInv
    <3>3. CASE session'.kept = session.kept
      <4>1. pc'[d] = "opening"
        BY <1>1, <2>4, <3>1, <3>3
      <4> QED BY <1>1, <2>4, <3>3, <4>1 DEF StagedInv, Somebody
    <3> QED BY <3>2, <3>3
  <2>5. CASE lease = "owned" /\ ~discarding' /\ session.kept = "yes" /\ (session.terminal => lost)
    BY <1>1, <2>5 DEF StagedInv
  <2>6. CASE lease = "owned" /\ session.kept = "dropped" /\ lost
    BY <1>1, <2>6 DEF StagedInv
  <2> QED BY <1>1, <1>5, <2>1, <2>2, <2>3, <2>4, <2>5, <2>6 DEF StagedInv
<1> QED BY <1>1, <1>2, <1>3, <1>4, <1>5 DEF StagedInv

(* What the operations of the registry leave of an entry.                  *)
LEMMA EntriesKeep ==
    ASSUME NEW s \in Session, NEW more \in SUBSET {"configuration", "trust"}, NEW b \in BOOLEAN
    PROVE  /\ Ended(s).kept = s.kept /\ Restored(s).kept = s.kept /\ ~Restored(s).terminal
           /\ [s EXCEPT !.retained = @ \cup more].kept = s.kept
           /\ [s EXCEPT !.retained = @ \cup more].terminal = s.terminal
           /\ [s EXCEPT !.recovery = b].kept = s.kept
           /\ [s EXCEPT !.recovery = b].terminal = s.terminal
           /\ [s EXCEPT !.recovery = b, !.retained = @ \cup more].kept = s.kept
           /\ [s EXCEPT !.recovery = b, !.retained = @ \cup more].terminal = s.terminal
           /\ [s EXCEPT !.trustPending = b].kept = s.kept
           /\ [s EXCEPT !.trustPending = b].terminal = s.terminal
           /\ [s EXCEPT !.state = "activating"].kept = s.kept
           /\ [s EXCEPT !.state = "activating"].terminal = s.terminal
BY DEF Ended, Restored, Session

\* Whoever ends the session waits for the discard of its content.
EndsTidily ==
    /\ session'.kept = session.kept
    /\ session'.terminal => session.terminal \/ lease # "owned" \/ discarding'

LEMMA WaysToEnd ==
    ASSUME NEW c \in Callers, NEW s \in Session, s.kept = session.kept, s.terminal = session.terminal
    PROVE  /\ Finish(c, s) => EndsTidily
           /\ Pause(c, s) => EndsTidily
           /\ \A w : Proceed(c, s, w) => EndsTidily
<1>1. /\ Ended(s).kept = s.kept
      /\ [s EXCEPT !.state = "recovery-required", !.result = "paused", !.terminal = FALSE].kept = s.kept
      /\ ~[s EXCEPT !.state = "recovery-required", !.result = "paused", !.terminal = FALSE].terminal
  BY DEF Ended, Session
<1>2. Finish(c, s) => EndsTidily
  BY <1>1 DEF Finish, Releases, EndsTidily
<1>3. Pause(c, s) => EndsTidily
  BY <1>1 DEF Pause, EndsTidily
<1>4. ASSUME NEW w, Proceed(c, s, w)
      PROVE  EndsTidily
  BY <1>2, <1>4 DEF Proceed, EndsTidily
<1> QED BY <1>2, <1>3, <1>4

LEMMA ActivationsEndTidily ==
    ASSUME IInv, NEW c \in Callers,
           \/ Activate(c) \/ Validate(c) \/ Save(c) \/ Settle(c) \/ Grant(c)
           \/ Check(c) \/ Recover(c) \/ Recovered(c) \/ GiveUp(c)
    PROVE  EndsTidily
<1>1. session \in Session /\ {} \in SUBSET {"configuration", "trust"} /\ {"trust"} \in SUBSET {"configuration", "trust"}
      /\ {"configuration"} \in SUBSET {"configuration", "trust"}
      /\ \A stored \in SUBSET {"configuration"} : stored \in SUBSET {"configuration", "trust"}
  BY DEF IInv, TypeOK
<1>2. CASE Activate(c)
  BY <1>1, <1>2, EntriesKeep DEF Activate, EndsTidily
<1>3. CASE Validate(c)
  <2>1. CASE Finish(c, session)
    BY <1>1, <2>1, WaysToEnd
  <2>2. CASE session' = Restored(session)
    BY <1>1, <2>2, EntriesKeep DEF EndsTidily
  <2>3. ASSUME NEW stored \in SUBSET {"configuration"}, NEW w,
               Proceed(c, [session EXCEPT !.retained = @ \cup stored], w)
        PROVE  EndsTidily
    BY <1>1, <2>3, EntriesKeep, Changes, WaysToEnd
  <2>4. CASE \E stored \in SUBSET {"configuration"} :
                LET s == [session EXCEPT !.retained = @ \cup stored]
                IN  Proceed(c, s, IF "configuration" \in s.retained THEN "trusting" ELSE "saving")
    BY <2>3, <2>4
  <2> QED BY <1>3, <2>1, <2>2, <2>4 DEF Validate
<1>4. CASE Save(c)
  <2>1. CASE Finish(c, session)
    BY <1>1, <2>1, WaysToEnd
  <2>2. CASE Pause(c, [session EXCEPT !.recovery = TRUE])
    BY <1>1, <2>2, EntriesKeep, Changes, WaysToEnd
  <2>3. CASE session' = [session EXCEPT !.recovery = TRUE]
    BY <1>1, <2>3, EntriesKeep DEF EndsTidily
  <2>4. CASE Proceed(c, [session EXCEPT !.retained = @ \cup {"configuration"}], "trusting")
    BY <1>1, <2>4, EntriesKeep, Changes, WaysToEnd
  <2> QED BY <1>4, <2>1, <2>2, <2>3, <2>4 DEF Save
<1>5. CASE Settle(c)
  <2>1. CASE Pause(c, session)
    BY <1>1, <2>1, WaysToEnd
  <2>2. CASE Finish(c, [session EXCEPT !.recovery = FALSE])
    BY <1>1, <2>2, EntriesKeep, Changes, WaysToEnd
  <2>3. CASE Proceed(c, [session EXCEPT !.recovery = FALSE, !.retained = @ \cup {"configuration"}], "trusting")
    BY <1>1, <2>3, EntriesKeep, Changes, WaysToEnd
  <2> QED BY <1>5, <2>1, <2>2, <2>3 DEF Settle
<1>6. CASE Grant(c)
  <2>1. CASE Proceed(c, [session EXCEPT !.retained = @ \cup {"trust"}], "checking")
    BY <1>1, <2>1, EntriesKeep, Changes, WaysToEnd
  <2>2. CASE Finish(c, session)
    BY <1>1, <2>2, WaysToEnd
  <2>3. CASE Pause(c, [session EXCEPT !.trustPending = TRUE])
    BY <1>1, <2>3, EntriesKeep, Changes, WaysToEnd
  <2> QED BY <1>6, <2>1, <2>2, <2>3 DEF Grant
<1>7. CASE Check(c)
  BY <1>1, <1>7, WaysToEnd DEF Check
<1>8. CASE Recover(c)
  <2> DEFINE s == [session EXCEPT !.trustPending = FALSE]
  <2>1. s \in Session /\ s.kept = session.kept
    BY <1>1, EntriesKeep, Changes
  <2>2. session' = session \/ session' = Restored(s)
    BY <1>8 DEF Recover
  <2>3. Restored(s).kept = s.kept /\ ~Restored(s).terminal
    BY <1>1, <2>1, EntriesKeep
  <2> HIDE DEF s
  <2>4. CASE session' = session
    BY <2>4 DEF EndsTidily
  <2>5. CASE session' = Restored(s)
    BY <2>1, <2>3, <2>5 DEF EndsTidily
  <2> QED BY <2>2, <2>4, <2>5
<1>9. CASE Recovered(c)
  <2>1. CASE Pause(c, session)
    BY <1>1, <2>1, WaysToEnd
  <2>2. CASE Finish(c, [session EXCEPT !.recovery = FALSE])
    BY <1>1, <2>2, EntriesKeep, Changes, WaysToEnd
  <2>3. ASSUME NEW stored \in SUBSET {"configuration"},
               session' = Restored([session EXCEPT !.recovery = FALSE, !.retained = @ \cup stored])
        PROVE  EndsTidily
    <3> DEFINE s == [session EXCEPT !.recovery = FALSE, !.retained = @ \cup stored]
    <3>1. s \in Session /\ s.kept = session.kept /\ session' = Restored(s)
      BY <1>1, <2>3, EntriesKeep, Changes
    <3> HIDE DEF s
    <3> QED BY <1>1, <3>1, EntriesKeep DEF EndsTidily
  <2> QED BY <1>9, <2>1, <2>2, <2>3 DEF Recovered
<1>10. CASE GiveUp(c)
  BY <1>10 DEF GiveUp, EndsTidily
<1> QED BY <1>2, <1>3, <1>4, <1>5, <1>6, <1>7, <1>8, <1>9, <1>10

\* A call that works on the session, whatever it finds, answers for the content.
LEMMA ActivationAnswers ==
    ASSUME Answered, NEW c \in Callers,
           \/ Activate(c) \/ Validate(c) \/ Save(c) \/ Settle(c) \/ Grant(c)
           \/ Check(c) \/ Recover(c) \/ Recovered(c) \/ GiveUp(c)
    PROVE  Answered'
<1>1. IInv /\ SessionInv
  BY DEF Answered
<1>2. Quiet(c) /\ EndsTidily
  BY <1>1, ActivateIsQuiet, ValidateIsQuiet, SaveIsQuiet, SettleIsQuiet, GrantIsQuiet,
     CheckIsQuiet, RecoverIsQuiet, RecoveredIsQuiet, GiveUpIsQuiet, ActivationsEndTidily
<1>3. pc[c] # "installing" /\ pc[c] # "opening" /\ session.kept # "no"
  BY <1>1 DEF SessionInv, Activate, Validate, Save, Settle, Grant, Check, Recover, Recovered, GiveUp,
              Admitted, Found
<1>4. PICK w \in Places \ {"installing", "opening"} :
         pc' = [pc EXCEPT ![c] = w] /\ discarding' = (discarding \/ w \in Discarding)
  BY <1>1, <1>2, QuietGoes
<1>5. IInv'
  BY <1>1, <1>2, QuietStep
<1>6. SessionInv' /\ OpeningInv' /\ StagedInv' /\ ClosedInv' /\ StagingIsSettled'
  BY <1>2, <1>3, <1>4, CallGoesOn DEF EndsTidily, Quiet, Kept
<1> QED BY <1>5, <1>6 DEF Answered

LEMMA OpenedAnswers ==
    ASSUME Answered, NEW c \in Callers, Opened(c)
    PROVE  Answered'
<1>1. IInv /\ SessionInv
  BY DEF Answered
<1>2. Quiet(c) /\ pc[c] = "opening" /\ Kept
  BY <1>1, OpenedIsQuiet DEF Opened
<1>3. CASE /\ phase = "open" /\ session' = [session EXCEPT !.kept = "yes"]
           /\ Goes(c, "idle") /\ UNCHANGED discarding
  <2>1. session'.kept = "yes" /\ session'.terminal = session.terminal
    BY <1>1, <1>3 DEF IInv, TypeOK, Session
  <2>3. "idle" \in Places /\ "idle" \notin Discarding
    BY DEF Places, Discarding
  <2>4. pc' = [pc EXCEPT ![c] = "idle"] /\ discarding' = (discarding \/ "idle" \in Discarding)
    BY <1>1, <1>3, <2>3 DEF Goes, IInv, TypeOK
  <2> QED BY <1>1, <1>2, <1>3, <2>1, <2>3, <2>4, CallGoesOn, QuietStep DEF Kept, Answered
<1>4. CASE Releases(c, "returning") /\ UNCHANGED session
  <2>1. "returning" \in Discarding
    BY DEF Discarding
  <2>2. PICK v \in Places : /\ v \in {"idle", "returning"} /\ pc' = [pc EXCEPT ![c] = v]
                            /\ discarding' = (discarding \/ v \in Discarding)
    BY <1>1, <1>2, <1>4, <2>1, ReleasesGo DEF Quiet
  <2>3. lease = "owned" => discarding'
    BY <1>4 DEF Releases
  <2> QED BY <1>1, <1>2, <1>4, <2>2, <2>3, CallGoesOn, QuietStep DEF Kept, Answered, SessionInv
<1> QED BY <1>3, <1>4 DEF Opened

\* A call that gives the content up, if it is owned, answers for it.
LEMMA GivingUpAnswers ==
    ASSUME Answered, NEW c \in Callers, pc[c] \notin Discarding \cup {"installing"},
           NEW w \in Discarding, Releases(c, w), Untouched,
           session.kept # "no", session'.kept = session.kept
    PROVE  SessionInv' /\ OpeningInv' /\ StagedInv' /\ ClosedInv' /\ StagingIsSettled'
<1>1. IInv
  BY DEF Answered
<1>2. PICK v \in Places \ {"opening"} :
         pc' = [pc EXCEPT ![c] = v] /\ discarding' = (discarding \/ v \in Discarding)
  BY <1>1, ReleasesGo
<1>3. lease = "owned" => discarding'
  BY <1>1, ReleasesGo
<1> QED BY <1>2, <1>3, CallGoesOn

LEMMA ExpireAnswers ==
    ASSUME Answered, NEW c \in Callers, Expire(c)
    PROVE  Answered'
<1>1. IInv /\ IInv'
  BY ExpireStep DEF Answered
<1>2. session'.kept = session.kept /\ session.kept # "no"
  BY <1>1 DEF Expire, IInv, TypeOK, Session
<1>3. "expiring" \in Discarding /\ pc[c] \notin Discarding \cup {"installing"}
  BY DEF Discarding, Expire
<1> QED BY <1>1, <1>2, <1>3, GivingUpAnswers DEF Expire, Reclaims, Answered

LEMMA CancelAnswers ==
    ASSUME Answered, NEW c \in Callers, Cancel(c)
    PROVE  Answered'
<1> DEFINE s == [session EXCEPT !.aborted = TRUE]
<1>1. IInv /\ IInv' /\ pc \in [Callers -> Places]
  BY CancelStep DEF Answered, IInv, TypeOK, Places
<1>2. s \in Session /\ s.kept = session.kept /\ s.terminal = session.terminal
  BY <1>1 DEF IInv, TypeOK, Session
<1>3. "releasing" \in Discarding /\ pc[c] = "idle" /\ pc[c] \notin Discarding \cup {"installing"}
  BY DEF Discarding, Cancel
<1>4. session.kept = "yes" /\ Untouched
  BY DEF Cancel, Found
<1>5. CASE session' = Ended(s) /\ Reclaims(c, "releasing")
  <2>1. session'.kept = session.kept
    BY <1>2, <1>5 DEF Ended, Session
  <2> QED BY <1>1, <1>3, <1>4, <1>5, <2>1, GivingUpAnswers DEF Reclaims, Answered
<1>6. CASE session' = s /\ UNCHANGED <<discarding, pc, reclaimed>>
  <2>1. "idle" \in Places \ {"opening"} /\ "idle" \notin Discarding
    BY DEF Places, Discarding
  <2>2. pc' = [pc EXCEPT ![c] = "idle"]
    BY <1>1, <1>3, <1>6
  <2>3. discarding' = (discarding \/ "idle" \in Discarding)
    BY <1>1, <1>6, <2>1 DEF IInv, TypeOK
  <2>4. session'.kept = session.kept /\ session'.terminal = session.terminal
    BY <1>2, <1>6
  <2> HIDE DEF s
  <2> QED BY <1>1, <1>3, <1>4, <2>1, <2>2, <2>3, <2>4, CallGoesOn DEF Answered
<1> QED BY <1>5, <1>6 DEF Cancel

\* Whoever claims the content installs it.
LEMMA ExecuteAnswers ==
    ASSUME Answered, NEW c \in Callers, Execute(c)
    PROVE  Answered'
<1>1. IInv /\ IInv' /\ SessionInv /\ OpeningInv /\ StagedInv /\ pc \in [Callers -> Places]
  BY ExecuteStep DEF Answered, IInv, TypeOK, Places
<1>2. pc[c] = "executing" /\ pc[c] \notin Discarding \cup {"installing"}
  BY DEF Discarding, Execute
<1>3. session.kept # "no" /\ Ended(session).kept = session.kept
  BY <1>1, <1>2 DEF SessionInv, IInv, TypeOK, Ended, Session
<1>4. {"releasing", "yielding"} \subseteq Discarding
  BY DEF Discarding
<1>5. CASE Finish(c, session) /\ UNCHANGED lease
  BY <1>1, <1>2, <1>3, <1>4, <1>5, GivingUpAnswers DEF Execute, Finish, Untouched, Answered
<1>6. CASE Releases(c, "yielding") /\ UNCHANGED <<session, lease>>
  BY <1>1, <1>2, <1>3, <1>4, <1>6, GivingUpAnswers DEF Execute, Untouched, Answered
<1>7. CASE /\ ~session.aborted /\ lease = "owned"
           /\ lease' = "claimed"
           /\ Goes(c, "installing") /\ UNCHANGED <<session, discarding>>
  <2>1. UNCHANGED <<session, content, pending, phase, lost>> /\ pc'[c] = "installing"
    BY <1>1, <1>7 DEF Execute, Goes
  <2>2. SessionInv' /\ StagedInv'
    BY <1>3, <2>1 DEF SessionInv, StagedInv, Somebody
  <2>3. OpeningInv'
    BY <1>1, <1>7, <2>1 DEF OpeningInv, IInv, LeaseInv
  <2>4. ClosedInv' /\ StagingIsSettled'
    BY <2>1, ClosedStays
  <2> QED BY <1>1, <2>2, <2>3, <2>4 DEF Answered
<1> QED BY <1>5, <1>6, <1>7 DEF Execute

\* What the lifecycle neither promotes nor discards is kept for the close.
LEMMA InstallAnswers ==
    ASSUME Answered, NEW c \in Callers, Install(c)
    PROVE  Answered'
<1>1. IInv /\ IInv' /\ SessionInv /\ OpeningInv
  BY InstallStep DEF Answered
<1>2. session.kept # "no" /\ session'.kept = session.kept
  BY <1>1 DEF SessionInv, Install, Finish, Ended, IInv, TypeOK, Session
<1>3. content # "none"
  BY <1>1, <1>2 DEF OpeningInv
<1>4. /\ content' # "none" /\ (content' = "staged" => content = "staged" /\ pending')
      /\ (pending => pending') /\ UNCHANGED <<phase, lost>>
  BY <1>1, <1>3 DEF Install, IInv, TypeOK
<1>5. SessionInv' /\ OpeningInv' /\ StagedInv'
  BY <1>2, <1>4 DEF SessionInv, OpeningInv, StagedInv
<1>6. ClosedInv' /\ StagingIsSettled'
  BY <1>2, <1>4, ClosedStays
<1> QED BY <1>1, <1>5, <1>6 DEF Answered

LEMMA OpenAnswers ==
    ASSUME Answered, NEW c \in Callers, Open(c)
    PROVE  Answered'
<1>1. IInv /\ IInv' /\ SessionInv /\ pc \in [Callers -> Places]
  BY OpenStep DEF Answered, IInv, TypeOK, Places
<1>2. session'.kept = "no" /\ ~session'.terminal /\ content' = "staged" /\ phase' = "open"
  BY <1>1 DEF Answered, SessionInv, OpeningInv, Open
<1>3. \A d \in Callers : pc'[d] = pc[d] \/ pc'[d] = "opening"
  BY <1>1 DEF Open, Goes
<1>4. SessionInv' /\ OpeningInv'
  BY <1>1, <1>2, <1>3 DEF SessionInv, OpeningInv, Open
<1>5. pending' \/ (lease' = "owned" /\ pc'[c] = "opening")
  BY <1>1 DEF Open, Goes
<1>6. StagedInv'
  BY <1>2, <1>5 DEF StagedInv, Somebody
<1>7. ClosedInv' /\ StagingIsSettled'
  BY <1>2 DEF ClosedInv, StagingIsSettled
<1> QED BY <1>1, <1>4, <1>6, <1>7 DEF Answered

\* A discard that fails is kept, is tried once more, or is remembered as lost.
LEMMA DiscardEndsAnswers ==
    ASSUME Answered, NEW ok \in BOOLEAN, DiscardEnds(ok)
    PROVE  Answered'
<1> DEFINE in(places) == {c \in Callers : pc[c] \in places}
           again == in({"yielding"}) # {} /\ ~ok /\ lease = "owned"
<1>1. IInv /\ IInv' /\ SessionInv /\ OpeningInv /\ StagedInv
  BY DiscardEndsStep DEF Answered
<1>2. /\ lease' = IF ok THEN "released" ELSE lease
      /\ content' = IF ok THEN "discarded" ELSE content
      /\ pending' = (pending \/ (~ok /\ in(Keepers) # {}))
      /\ lost' = (lost \/ (~ok /\ in({"returning", "releasing", "yielding"}) = {}))
      /\ discarding' = again /\ phase' = phase
  BY DEF DiscardEnds
<1>3. \A c \in Callers : /\ pc[c] \notin Discarding => pc'[c] = pc[c]
                         /\ pc[c] \in Discarding => pc'[c] \in {"idle", "releasing"}
                         /\ pc[c] \in Discarding /\ pc[c] # "yielding" => pc'[c] = "idle"
  <2>1. "yielding" \in Discarding
    BY DEF Discarding
  <2> QED BY <2>1 DEF DiscardEnds
<1>4. session'.kept = session.kept
  BY <1>1 DEF DiscardEnds, Ended, IInv, TypeOK, Session
<1>5. SessionInv'
  <2> SUFFICES ASSUME session'.kept = "no" PROVE SessionInv'
    BY DEF SessionInv
  <2>1. ~session.terminal /\ \A c \in Callers : pc[c] \in {"idle", "opening", "returning"}
    BY <1>1, <1>4 DEF SessionInv
  <2>2. in({"yielding"}) = {} /\ in({"releasing"}) = {}
    BY <2>1
  <2>3. session' = session
    BY <2>2 DEF DiscardEnds
  <2>4. \A c \in Callers : pc'[c] \in {"idle", "opening", "returning"}
    BY <1>3, <2>1 DEF Discarding
  <2> QED BY <2>1, <2>3, <2>4 DEF SessionInv
<1>6. OpeningInv'
  <2>1. \A c \in Callers : pc'[c] = "opening" => pc[c] = "opening"
    BY <1>3
  <2> QED BY <1>1, <1>2, <1>4, <2>1 DEF OpeningInv, Somebody
<1>7. ASSUME content' = "staged"
      PROVE  StagedInv'
  <2>1. content = "staged" /\ ~ok /\ lease' = lease
    BY <1>2, <1>7
  <2>2. CASE pending
    BY <1>2, <2>2 DEF StagedInv
  <2>3. CASE Somebody({"installing"})
    <3>1. PICK d \in Callers : pc[d] = "installing"
      BY <2>3 DEF Somebody
    <3>2. pc'[d] = "installing"
      BY <1>3, <3>1 DEF Discarding
    <3> QED BY <3>2 DEF StagedInv, Somebody
  <2>4. CASE lease = "owned"
    <3>1. PICK d \in Callers : pc[d] \in Discarding
      BY <1>1 DEF DiscardEnds, IInv, TypeOK
    <3>2. CASE in({"returning", "releasing"}) # {}
      BY <1>2, <2>1, <3>2 DEF Keepers, StagedInv
    <3>3. CASE in({"yielding"}) # {}
      BY <1>2, <2>1, <2>4, <3>3 DEF StagedInv
    <3>4. CASE in({"returning", "releasing"}) = {} /\ in({"yielding"}) = {}
      <4>1. in({"returning", "releasing", "yielding"}) = {}
        BY <3>4
      <4>2. lost'
        BY <1>2, <2>1, <4>1
      <4>3. session.kept # "no"
        BY <1>1, <3>1, <3>4 DEF SessionInv, Discarding
      <4>4. session'.kept \in {"yes", "dropped"}
        BY <1>1, <1>4, <4>3 DEF IInv, TypeOK, Session
      <4> QED BY <2>1, <2>4, <4>2, <4>4 DEF StagedInv
    <3> QED BY <3>2, <3>3, <3>4
  <2> QED BY <1>1, <2>1, <2>2, <2>3, <2>4 DEF StagedInv
<1>8. ClosedInv' /\ StagingIsSettled'
  BY <1>2, <1>4, ClosedStays
<1> QED BY <1>1, <1>5, <1>6, <1>7, <1>8 DEF Answered, StagedInv

\* Only a session that ended without its content is dropped.
LEMMA DropAnswers ==
    ASSUME Answered, Drop
    PROVE  Answered'
<1>1. IInv /\ IInv' /\ SessionInv /\ OpeningInv /\ StagedInv
  BY DropStep DEF Answered
<1>2. session.kept = "yes" /\ session.terminal /\ session'.kept = "dropped"
  BY <1>1 DEF Drop, IInv, TypeOK, Session
<1>3. UNCHANGED <<lease, content, discarding, pending, pc, phase, lost>>
  BY DEF Drop, Kept, Untouched
<1>4. SessionInv' /\ OpeningInv' /\ StagedInv'
  BY <1>1, <1>2, <1>3 DEF SessionInv, OpeningInv, StagedInv, Somebody
<1>5. ClosedInv' /\ StagingIsSettled'
  BY <1>2, <1>3, ClosedStays
<1> QED BY <1>1, <1>4, <1>5 DEF Answered

LEMMA QuiesceAnswers ==
    ASSUME Answered, Quiesce
    PROVE  Answered'
<1>1. IInv'
  BY QuiesceStep DEF Answered
<1> QED BY <1>1 DEF Quiesce, Answered, SessionInv, OpeningInv, StagedInv, Somebody, ClosedInv,
                    StagingIsSettled

\* The calls have returned, so only the registry and pending are left to answer.
LEMMA CloseRegistryAnswers ==
    ASSUME Answered, CloseRegistry
    PROVE  Answered'
<1>1. IInv /\ IInv' /\ SessionInv /\ OpeningInv /\ StagedInv
  BY CloseRegistryStep DEF Answered
<1>2. ~discarding /\ ~Somebody({"installing"}) /\ ~Somebody({"opening"})
  BY <1>1 DEF CloseRegistry, Drained, Somebody, Discarding, IInv, TypeOK
<1>3. PICK settled \in BOOLEAN, ok \in BOOLEAN :
        LET kept == session.kept = "yes"
            unsettled == kept /\ session.recovery /\ ~settled
            left == kept /\ lease = "owned" /\ content = "staged" /\ ~ok
        IN  /\ session' = IF kept THEN [session EXCEPT !.aborted = TRUE, !.recovery = unsettled] ELSE session
            /\ lease' = IF kept /\ lease = "owned" /\ ~left THEN "released" ELSE lease
            /\ content' = IF kept /\ lease = "owned" /\ ~left THEN Discarded ELSE content
            /\ pending' = (pending \/ (left /\ phase = "quiesced"))
            /\ phase' = IF ~unsettled /\ ~left THEN "last"
                        ELSE IF phase = "quiesced" THEN "retry" ELSE "refused"
  BY DEF CloseRegistry
<1> DEFINE unsettled == session.kept = "yes" /\ session.recovery /\ ~settled
           left == session.kept = "yes" /\ lease = "owned" /\ content = "staged" /\ ~ok
<1>4. session'.kept = session.kept /\ session'.terminal = session.terminal
  <2>1. /\ [session EXCEPT !.aborted = TRUE, !.recovery = unsettled].kept = session.kept
        /\ [session EXCEPT !.aborted = TRUE, !.recovery = unsettled].terminal = session.terminal
    BY <1>1 DEF IInv, TypeOK, Session
  <2> QED BY <1>3, <2>1
<1>5. UNCHANGED <<discarding, pc, lost>>
  BY DEF CloseRegistry
<1>6. Discarded # "staged" /\ (Discarded = "none" <=> content = "none")
  BY DEF Discarded
<1>7. /\ content' = "none" => content = "none"
      /\ content' = "staged" => content = "staged" /\ lease' = lease
                                /\ ~(session.kept = "yes" /\ lease = "owned" /\ ~left)
      /\ pending => pending'
      /\ phase' \in {"last", "retry", "refused"} /\ (phase' = "last" => ~left)
  BY <1>3, <1>6
<1> HIDE DEF left
<1>8. SessionInv' /\ OpeningInv'
  BY <1>1, <1>4, <1>5, <1>7 DEF SessionInv, OpeningInv, Somebody
<1>9. content = "staged" /\ ~pending =>
        /\ lease = "owned"
        /\ \/ session.kept = "dropped" /\ lost
           \/ session.kept = "yes" /\ (session.terminal => lost)
  BY <1>1, <1>2 DEF StagedInv
<1>10. StagedInv' /\ ClosedInv' /\ StagingIsSettled'
  BY <1>4, <1>5, <1>7, <1>9 DEF StagedInv, ClosedInv, StagingIsSettled
<1> QED BY <1>1, <1>8, <1>10 DEF Answered

\* Content that is left when nothing is pending was not pending before.
LEMMA CloseRetryAnswers ==
    ASSUME Answered, CloseRetry
    PROVE  Answered'
<1>1. IInv /\ IInv' /\ SessionInv /\ OpeningInv /\ StagedInv /\ ClosedInv
  BY CloseRetryStep DEF Answered
<1>2. UNCHANGED <<session, lease, discarding, pc, lost>>
  BY DEF CloseRetry
<1>3. /\ content' = "none" => content = "none"
      /\ content' = "staged" => content = "staged" /\ (pending => pending')
      /\ phase' = "closed" => phase = "last"
      /\ phase' # "last"
      /\ phase' = "closed" /\ content' = "staged" => ~pending
  BY DEF CloseRetry, Discarded
<1>4. SessionInv' /\ OpeningInv' /\ StagedInv'
  BY <1>1, <1>2, <1>3 DEF SessionInv, OpeningInv, StagedInv, Somebody
<1>5. ClosedInv' /\ StagingIsSettled'
  BY <1>1, <1>2, <1>3 DEF ClosedInv, StagingIsSettled
<1> QED BY <1>1, <1>4, <1>5 DEF Answered

LEMMA NextAnswered == Answered /\ [Next]_vars => Answered'
<1> SUFFICES ASSUME Answered, [Next]_vars PROVE Answered'
  OBVIOUS
<1>1. CASE UNCHANGED vars
  <2>1. IInv'
    BY <1>1, NextIInv DEF Answered
  <2> QED BY <1>1, <2>1 DEF vars, Answered, SessionInv, OpeningInv, StagedInv, Somebody, ClosedInv,
                           StagingIsSettled
<1>2. ASSUME NEW c \in Callers,
             \/ Opened(c) \/ Activate(c) \/ Validate(c) \/ Save(c) \/ Settle(c)
             \/ Grant(c) \/ Check(c) \/ Recover(c) \/ Recovered(c) \/ GiveUp(c)
      PROVE  Answered'
  BY <1>2, OpenedAnswers, ActivationAnswers
<1>3. ASSUME NEW c \in Callers, Open(c) \/ Expire(c) \/ Execute(c) \/ Install(c) \/ Cancel(c)
      PROVE  Answered'
  BY <1>3, OpenAnswers, ExpireAnswers, ExecuteAnswers, InstallAnswers, CancelAnswers
<1>4. ASSUME NEW ok \in BOOLEAN, DiscardEnds(ok)
      PROVE  Answered'
  BY <1>4, DiscardEndsAnswers
<1>5. CASE Drop \/ Quiesce \/ CloseRegistry \/ CloseRetry
  BY <1>5, DropAnswers, QuiesceAnswers, CloseRegistryAnswers, CloseRetryAnswers
<1> QED BY <1>1, <1>2, <1>3, <1>4, <1>5 DEF Next

\* The variables keep their types, the discard is under way exactly while
\* somebody waits for it, and a released lease has no content left
\* (candidate-content-lease.ts), however many calls are under way.
THEOREM TypeCorrect == Spec => []TypeOK
<1>1. IInv => TypeOK
  BY DEF IInv
<1> QED BY <1>1, SpecIInv, PTL

\* Content that a timeout or a cancellation took back is never claimed or
\* installed by an activation that was already at work
\* (trusted-install-session.ts, candidate-content-lease.ts).
THEOREM ReclaimedIsNotInstalled == Spec => []ReclaimedContentIsNotInstalled
<1>1. IInv => ReclaimedContentIsNotInstalled
  BY DEF IInv, ReclaimInv, NoneInstalls, ReclaimedContentIsNotInstalled
<1> QED BY <1>1, SpecIInv, PTL

\* A close that succeeds leaves no staged content behind, however many calls
\* were under way, failed or raced before it, but for the content of a session
\* that expired, whose discard failed, and that was dropped since
\* (trusted-install-service.ts, trusted-install-session.ts).
THEOREM StagingIsSettledHolds == Spec => []StagingIsSettled
<1>1. Answered => StagingIsSettled
  BY DEF Answered
<1> QED BY <1>1, InitAnswered, NextAnswered, PTL DEF Spec
=============================================================================
