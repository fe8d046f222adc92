----------------------------- MODULE InstallSession -----------------------------
(***************************************************************************)
(* A session of the trusted installation: the content of a candidate is    *)
(* staged under a lease, a user reviews it, and an activation saves the    *)
(* configuration, records the trust and hands the content over to the      *)
(* lifecycle.  The session may pause for a recovery, be cancelled, time    *)
(* out while it is at work, and is closed with its host.  Sources:         *)
(* trusted-install-service.ts, trusted-install-session.ts,                 *)
(* trusted-install-lifecycle.ts and candidate-content-lease.ts.            *)
(*                                                                         *)
(* There is one session; it times out and is dropped whenever somebody     *)
(* looks, which stands for any time that may have passed.  A caller that   *)
(* is refused, or told what the session's result is, changes nothing.      *)
(***************************************************************************)
EXTENDS Naturals, FiniteSets

CONSTANT Callers        \* the calls that may be under way at a time

VARIABLES
    session,    \* the entry of the registry
    lease,      \* the state of the candidate's lease
    content,    \* what became of the staged content
    discarding, \* a discard is under way
    pending,    \* pendingCandidateCleanup holds the content's discard
    pc,         \* what each caller waits for
    phase,      \* the life of the service
    reclaimed,  \* history: a timeout or a cancellation took the content back
    lost        \* history: a discard failed that nobody kept

vars == <<session, lease, content, discarding, pending, pc, phase, reclaimed, lost>>

\* The awaits of an activation, in order; what a caller may wait for besides.
Working == {"validating", "saving", "settling", "trusting", "checking", "executing", "installing"}
Waiting == {"opening", "returning", "recovering", "resuming", "expiring", "yielding", "releasing"}

Discarding == {"returning", "expiring", "yielding", "releasing"}

Session == [kept: {"no", "yes", "dropped"},
            state: {"awaiting-input", "activating", "recovery-required", "final", "expired"},
            result: {"none", "paused", "final"}, terminal: BOOLEAN, aborted: BOOLEAN,
            recovery: BOOLEAN, trustPending: BOOLEAN, retained: SUBSET {"configuration", "trust"}]

TypeOK ==
    /\ session \in Session
    /\ lease \in {"none", "owned", "claimed", "released"}
    /\ content \in {"none", "staged", "installed", "discarded"}
    /\ discarding \in BOOLEAN /\ pending \in BOOLEAN /\ reclaimed \in BOOLEAN /\ lost \in BOOLEAN
    /\ pc \in [Callers -> {"idle"} \cup Working \cup Waiting]
    /\ phase \in {"open", "quiesced", "retry", "again", "last", "refused", "closed", "failed"}
    /\ discarding <=> \E c \in Callers : pc[c] \in Discarding
    /\ lease = "released" => content = "discarded"

Init ==
    /\ session = [kept |-> "no", state |-> "awaiting-input", result |-> "none", terminal |-> FALSE,
                  aborted |-> FALSE, recovery |-> FALSE, trustPending |-> FALSE, retained |-> {}]
    /\ lease = "none" /\ content = "none" /\ discarding = FALSE /\ pending = FALSE
    /\ pc = [c \in Callers |-> "idle"]
    /\ phase = "open"
    /\ reclaimed = FALSE /\ lost = FALSE

Goes(c, where) == pc' = [pc EXCEPT ![c] = where]

\* registry.finish() and registry.restore().
Ended(s) == [s EXCEPT !.state = "final", !.result = "final", !.terminal = TRUE]
Restored(s) == [s EXCEPT !.state = "awaiting-input", !.result = "none", !.terminal = FALSE]

---------------------------------------------------------------------------------
(* The lease.                                                              *)
\* release(): a lease that is claimed or released has nothing to discard; the
\* lease stays owned until the discard has ended.
ReleasesUnawaited(c, where) ==               \* mutant: nobody waits
    /\ pc' = [pc EXCEPT ![c] = "idle"]
    /\ discarding' = (lease = "owned" \/ discarding)
Releases(c, where) ==
    LET waits == lease = "owned" \/ discarding
    IN  /\ pc' = [pc EXCEPT ![c] = IF waits THEN where ELSE "idle"]
        /\ discarding' = waits
\* The same, by a timeout or a cancellation.
Reclaims(c, where) == Releases(c, where) /\ reclaimed' = (reclaimed \/ lease = "owned")

\* Who keeps a discard that failed for the close: finish() and open(), but not
\* whoever made the session expire.
KeepersForget == {"returning"}               \* mutant: finish() does not
Keepers == {"returning", "releasing"}

\* The discard ends and everybody who waits for it goes on.  An activation with
\* nothing to install then finishes, and releases once more.
DiscardEnds(ok) ==
    /\ discarding
    /\ LET in(places) == {c \in Callers : pc[c] \in places}
           again == in({"yielding"}) # {} /\ ~ok /\ lease = "owned"
           final == in({"yielding"}) # {} \/ (in({"releasing"}) # {} /\ ~ok)
       IN  /\ lease' = IF ok THEN "released" ELSE lease
           /\ content' = IF ok THEN "discarded" ELSE content
           /\ pending' = (pending \/ (~ok /\ in(Keepers) # {}))
           /\ lost' = (lost \/ (~ok /\ in({"returning", "releasing", "yielding"}) = {}))
           /\ session' = IF final THEN Ended(session) ELSE session
           /\ pc' = [c \in Callers |-> IF again /\ pc[c] = "yielding" THEN "releasing"
                                       ELSE IF pc[c] \in Discarding THEN "idle" ELSE pc[c]]
           /\ discarding' = again
    /\ UNCHANGED <<reclaimed, phase>>

---------------------------------------------------------------------------------
(* How calls end.                                                          *)
\* finish(): the result first, then the release.
Finish(c, s) == session' = Ended(s) /\ Releases(c, "releasing")
\* pauseForWorkflowRecovery(): the session waits for recover().
Pause(c, s) ==
    /\ session' = [s EXCEPT !.state = "recovery-required", !.result = "paused", !.terminal = FALSE]
    /\ Goes(c, "idle") /\ UNCHANGED discarding
\* The activation goes on, unless it was aborted.
Proceed(c, s, where) ==
    IF s.aborted THEN Finish(c, s)
    ELSE session' = s /\ Goes(c, where) /\ UNCHANGED discarding

Untouched == UNCHANGED <<lease, content, pending, phase, lost>>
Kept == Untouched /\ UNCHANGED reclaimed
Found == session.kept = "yes" /\ session.state # "expired"

---------------------------------------------------------------------------------
(* open(), and the registry.                                               *)
\* The candidate is acquired.  An acquisition that fails and cannot discard
\* what it staged leaves the discard to the close.
Open(c) ==
    /\ pc[c] = "idle" /\ phase = "open" /\ content = "none"
    /\ content' = "staged"
    /\ \/ lease' = "owned" /\ Goes(c, "opening") /\ UNCHANGED pending
       \/ pending' = TRUE /\ UNCHANGED <<lease, pc>>
    /\ UNCHANGED <<session, discarding, phase, reclaimed, lost>>

\* A session is created if the candidate is current and the registry accepts;
\* otherwise what was acquired is released.
Opened(c) ==
    /\ pc[c] = "opening"
    /\ \/ /\ phase = "open"
          /\ session' = [session EXCEPT !.kept = "yes"]
          /\ Goes(c, "idle") /\ UNCHANGED discarding
       \/ Releases(c, "returning") /\ UNCHANGED session
    /\ Kept

\* lookup() reaps: a session that ended long ago is dropped.
Drop == /\ session.kept = "yes" /\ session.terminal
        /\ \E c \in Callers : pc[c] \in {"idle", "resuming"}
        /\ session' = [session EXCEPT !.kept = "dropped"]
        /\ UNCHANGED <<discarding, pc>> /\ Kept

\* One that has not ended times out, even while an activation is at work: the
\* activation is aborted before the content is discarded.
ExpireUnaborted(c) ==                        \* mutant: it is discarded first
    /\ pc[c] \in {"idle", "resuming"} /\ session.kept = "yes" /\ ~session.terminal
    /\ session.state # "expired"
    /\ session' = [session EXCEPT !.state = "expired", !.terminal = TRUE]
    /\ Reclaims(c, "expiring")
    /\ Untouched
Expire(c) ==
    /\ pc[c] \in {"idle", "resuming"} /\ session.kept = "yes" /\ ~session.terminal
    /\ session.state # "expired"
    /\ session' = [session EXCEPT !.state = "expired", !.terminal = TRUE, !.aborted = TRUE]
    /\ Reclaims(c, "expiring")
    /\ Untouched

---------------------------------------------------------------------------------
(* activate(): one action per await.                                       *)
Admitted == phase = "open" /\ Found /\ session.result = "none" /\ session.state # "activating"

Activate(c) ==
    /\ pc[c] \in {"idle", "resuming"}
    /\ Admitted
    /\ session' = [session EXCEPT !.state = "activating"]
    /\ Goes(c, "validating")
    /\ UNCHANGED discarding /\ Kept

\* The candidate, the host's evidence, the consent, the project and the
\* configuration are validated: input is missing, something is stale, or not.
Validate(c) ==
    /\ pc[c] = "validating"
    /\ \/ Finish(c, session)
       \/ session' = Restored(session) /\ Goes(c, "idle") /\ UNCHANGED discarding
       \/ \E stored \in SUBSET {"configuration"} :
              LET s == [session EXCEPT !.retained = @ \cup stored]
              IN  Proceed(c, s, IF "configuration" \in s.retained THEN "trusting" ELSE "saving")
    /\ Kept

\* The configuration is stored, or is not; a save may leave secrets to settle.
Save(c) ==
    /\ pc[c] = "saving"
    /\ \/ Finish(c, session)
       \/ Pause(c, [session EXCEPT !.recovery = TRUE])
       \/ /\ session' = [session EXCEPT !.recovery = TRUE]
          /\ Goes(c, "settling") /\ UNCHANGED discarding
       \/ Proceed(c, [session EXCEPT !.retained = @ \cup {"configuration"}], "trusting")
    /\ Kept

Settle(c) ==
    /\ pc[c] = "settling"
    /\ \/ Pause(c, session)
       \/ Finish(c, [session EXCEPT !.recovery = FALSE])
       \/ Proceed(c, [session EXCEPT !.recovery = FALSE, !.retained = @ \cup {"configuration"}], "trusting")
    /\ Kept

Grant(c) ==
    /\ pc[c] = "trusting"
    /\ \/ Proceed(c, [session EXCEPT !.retained = @ \cup {"trust"}], "checking")
       \/ /\ "trust" \notin session.retained
          /\ \/ Finish(c, session)
             \/ Pause(c, [session EXCEPT !.trustPending = TRUE])
    /\ Kept

\* Everything is validated once more.
Check(c) ==
    /\ pc[c] = "checking"
    /\ Proceed(c, session, "executing") \/ Finish(c, session)
    /\ Kept

\* executeTrustedInstallLifecycle reads the state.  A plugin that is installed,
\* or in transition, needs no content: it is released before anything else.
\* Otherwise the lifecycle claims it, unless the activation was aborted or the
\* lease is settled.
Execute(c) ==
    /\ pc[c] = "executing"
    /\ \/ Finish(c, session) /\ UNCHANGED lease
       \/ /\ lease = "owned" \/ discarding
          /\ Releases(c, "yielding") /\ UNCHANGED <<session, lease>>
       \/ /\ ~session.aborted /\ lease = "owned"
          /\ lease' = "claimed"
          /\ Goes(c, "installing") /\ UNCHANGED <<session, discarding>>
    /\ UNCHANGED <<content, pending, phase, reclaimed, lost>>

\* The lifecycle promotes the content or discards it; a discard that fails is
\* kept for the close.
Install(c) ==
    /\ pc[c] = "installing"
    /\ \/ /\ content = "staged"
          /\ content' \in {"installed", "discarded"}
          /\ UNCHANGED pending
       \/ /\ pending' = (pending \/ content = "staged")
          /\ UNCHANGED content
    /\ Finish(c, session)
    /\ UNCHANGED <<lease, phase, reclaimed, lost>>

---------------------------------------------------------------------------------
(* recover(), cancel() and close().                                        *)
\* recover() asks whether there is something to recover, not whether the
\* session is at work.
Recover(c) ==
    /\ pc[c] = "idle" /\ phase = "open" /\ Found
    /\ \/ session.recovery /\ Goes(c, "recovering") /\ UNCHANGED session
       \/ /\ ~session.recovery /\ session.trustPending
          /\ session' = Restored([session EXCEPT !.trustPending = FALSE])
          /\ Goes(c, "resuming")
    /\ UNCHANGED discarding /\ Kept

Recovered(c) ==
    /\ pc[c] = "recovering"
    /\ \/ Pause(c, session)
       \/ Finish(c, [session EXCEPT !.recovery = FALSE])
       \/ /\ \E stored \in SUBSET {"configuration"} :
                 session' = Restored([session EXCEPT !.recovery = FALSE, !.retained = @ \cup stored])
          /\ Goes(c, "resuming") /\ UNCHANGED discarding
    /\ Kept

\* It then activates, and may be refused.
GiveUp(c) ==
    /\ pc[c] = "resuming" /\ ~Admitted
    /\ Goes(c, "idle")
    /\ UNCHANGED <<session, discarding>> /\ Kept

\* An activation at work ends by itself; a session that waits is finished.
Cancel(c) ==
    /\ pc[c] = "idle" /\ Found
    /\ LET s == [session EXCEPT !.aborted = TRUE]
       IN  IF s.state # "activating" /\ s.result = "none"
             THEN session' = Ended(s) /\ Reclaims(c, "releasing")
             ELSE session' = s /\ UNCHANGED <<discarding, pc, reclaimed>>
    /\ Untouched

Quiesce ==
    /\ phase = "open"
    /\ phase' = "quiesced"
    /\ UNCHANGED <<session, lease, content, discarding, pending, pc, reclaimed, lost>>

\* Calls have returned when the host closes the service.
Drained == \A c \in Callers : pc[c] = "idle"
Discarded == IF content = "staged" THEN "discarded" ELSE content

\* registry.close(): settle the recovery and release the lease of every session
\* that is kept.  It is tried a second time once the discards succeeded.
CloseRegistry ==
    /\ phase \in {"quiesced", "again"} /\ Drained
    /\ \E settled, ok \in BOOLEAN :
           LET kept == session.kept = "yes"
               unsettled == kept /\ session.recovery /\ ~settled
               left == kept /\ lease = "owned" /\ content = "staged" /\ ~ok
           IN  /\ session' = IF kept THEN [session EXCEPT !.aborted = TRUE, !.recovery = unsettled] ELSE session
               /\ lease' = IF kept /\ lease = "owned" /\ ~left THEN "released" ELSE lease
               /\ content' = IF kept /\ lease = "owned" /\ ~left THEN Discarded ELSE content
               /\ pending' = (pending \/ (left /\ phase = "quiesced"))
               /\ phase' = IF ~unsettled /\ ~left THEN "last"
                           ELSE IF phase = "quiesced" THEN "retry" ELSE "refused"
    /\ UNCHANGED <<discarding, pc, reclaimed, lost>>

\* retryCandidateCleanup(), between the two and at the end.
CloseRetry ==
    /\ phase \in {"retry", "last", "refused"}
    /\ \/ /\ pending /\ content = "staged"
          /\ phase' = IF phase = "retry" THEN "refused" ELSE "failed"
          /\ UNCHANGED <<content, pending>>
       \/ /\ pending' = FALSE
          /\ content' = IF pending THEN Discarded ELSE content
          /\ phase' = IF phase = "retry" THEN "again" ELSE IF phase = "last" THEN "closed" ELSE "failed"
    /\ UNCHANGED <<session, lease, discarding, pc, reclaimed, lost>>

Next ==
    \/ \E c \in Callers :
           \/ Open(c) \/ Opened(c) \/ Expire(c) \/ Activate(c) \/ Validate(c) \/ Save(c) \/ Settle(c)
           \/ Grant(c) \/ Check(c) \/ Execute(c) \/ Install(c) \/ Recover(c) \/ Recovered(c)
           \/ GiveUp(c) \/ Cancel(c)
    \/ \E ok \in BOOLEAN : DiscardEnds(ok)
    \/ Drop \/ Quiesce \/ CloseRegistry \/ CloseRetry

Spec == Init /\ [][Next]_vars

---------------------------------------------------------------------------------
(* Properties.                                                             *)
\* Content that a timeout or a cancellation took back is never in the hands of
\* the lifecycle: not while its discard is under way, when the lease is still
\* owned and could be claimed, and not after the discard failed.
ReclaimedContentIsNotInstalled == reclaimed => lease # "claimed" /\ content # "installed"

\* A close that succeeds leaves no staged content behind, whatever failed or
\* raced before it, with one exception: the discard failed when the session
\* expired, and the session was dropped before anybody tried again.
StagingIsSettled ==
    phase = "closed" /\ content = "staged" => session.kept = "dropped" /\ lost

=================================================================================
