---------------------------- MODULE UpdateNotices ---------------------------
(***************************************************************************)
(* The notices of the updates of one plugin of the user scope, and the     *)
(* automatic updates that work them off.                                   *)
(*   src/src/application/update-notification-service.ts                    *)
(*   src/src/application/automatic-update-coordinator.ts                   *)
(*   src/src/composition/automatic-update-lifecycle-adapter.ts             *)
(*   src/src/composition/background-update-coordinator.ts                  *)
(* Every change of a notice is made by a function of the notice found      *)
(* under the lock (mutateScope, updateNotice), so it is one step on the    *)
(* current record; what it writes was decided earlier.                     *)
(* Revisions stand for candidate keys: sources never change here.          *)
(***************************************************************************)
EXTENDS Naturals, FiniteSets, FiniteSetsExt, Sequences, UpdatePolicy

CONSTANTS Revisions,
          Snapshots,          \* of the marketplace
          Catalog,            \* [Snapshots -> Revisions]: what each one offers
          Policies,           \* SUBSET PolicyInputs, those the user chooses from
          Background,         \* the maintenance tasks, one of each process
          Foreground,         \* runs of automatic updates from a command
          ResolvedPerPlugin,
          MaxFaults,          \* bound on failing calls, aborts and deaths
          None

ASSUME ConstantsAreTyped ==
    /\ Catalog \in [Snapshots -> Revisions]
    /\ Policies \subseteq PolicyInputs
    /\ Background \cap Foreground = {}
    /\ {ResolvedPerPlugin, MaxFaults} \subseteq Nat
    /\ None \notin Revisions \cup {"waiting", "retryable", "applied"}

Workers == Background \cup Foreground

VARIABLES
    notices,   \* of the plugin, in the order of their discovery
    market,    \* the selected snapshot of the marketplace
    selected,  \* the selected revision of the plugin, None: not installed
    pending,   \* the revision to return to while a transition is pending
    policy,
    task,      \* [Workers -> what it is doing]
    faults

world == <<market, selected, pending, policy>>
vars == <<notices, world, task, faults>>

(* standing: of the dispositions only those that something depends on.     *)
(* Pending, blocked, manual and recovery-required are all "waiting"; the    *)
(* resolutions superseded and plugin-removed are both "gone".              *)
Notices ==
    [rev : Revisions, snapshot : Snapshots,
     standing : {"waiting", "retryable", "applied"},
     published : BOOLEAN, unread : BOOLEAN,
     resolution : {"installed", "gone", None}]

Outcomes == {"waiting", "retryable", "applied", None}
Rest(w) == [at |-> IF w \in Background THEN "reconcile" ELSE "idle",
            rev |-> None, outcome |-> None, previous |-> None]

TypeOK ==
    /\ notices \in Seq(Notices)
    /\ \A i, j \in DOMAIN notices : notices[i].rev = notices[j].rev => i = j
    /\ market \in Snapshots
    /\ selected \in Revisions \cup {None}
    /\ pending \in Revisions \cup {None}
    /\ policy \in Policies
    /\ task \in [Workers -> [at : {"reconcile", "idle", "dispatch", "mark",
                                   "commit", "finish", "settle"},
                             rev : Revisions \cup {None},
                             outcome : Outcomes, previous : Revisions \cup {None}]]
    /\ faults \in 0..MaxFaults

Init ==
    /\ notices = <<>>
    /\ market \in Snapshots
    /\ selected = Catalog[market] /\ pending = None
    /\ policy \in Policies
    /\ task = [w \in Workers |-> Rest(w)]
    /\ faults = 0

Fault == faults < MaxFaults /\ faults' = faults + 1
NoFault == UNCHANGED faults

Known == {notices[i].rev : i \in DOMAIN notices}
Notice(r) == notices[CHOOSE i \in DOMAIN notices : notices[i].rev = r]
Open == {r \in Known : Notice(r).resolution = None}
UnpublishedOpen == {r \in Open : ~Notice(r).published}  \* mutant
Unpublished == {r \in Known : ~Notice(r).published}

Goes(w, at) == task' = [task EXCEPT ![w].at = at]
Rests(w) == task' = [task EXCEPT ![w] = Rest(w)]
Ends(w, r, outcome) ==
    task' = [task EXCEPT ![w] = [Rest(w) EXCEPT !.at = "settle", !.rev = r, !.outcome = outcome]]

(* updateNotice: nothing is written for a notice that is gone.             *)
Rewrite(r, Update(_)) ==
    notices' = [i \in DOMAIN notices |->
                   IF notices[i].rev = r THEN Update(notices[i]) ELSE notices[i]]

-----------------------------------------------------------------------------
(* The marketplace and the user                                            *)

NewNotice(r, s) ==
    [rev |-> r, snapshot |-> s, standing |-> "waiting",
     published |-> FALSE, unread |-> TRUE, resolution |-> None]

(* Mutant: a revision is announced anew by every refresh.                  *)
RefreshAnnouncesAgain ==
    /\ \E s \in Snapshots :
         /\ market' = s
         /\ UNCHANGED notices \/ notices' = Append(notices, NewNotice(Catalog[s], s))
    /\ Len(notices) < 3
    /\ UNCHANGED <<selected, pending, policy, task, faults>>

(* A refresh publishes a snapshot, with a notice of what it offers if the  *)
(* probe before found another revision installed; by now it may be another *)
(* one, or none.  A revision with a notice gets no second one.             *)
Refresh ==
    /\ \E s \in Snapshots :
         /\ market' = s
         /\ LET r == Catalog[s] IN
              \/ UNCHANGED notices
              \/ r \notin Known /\ notices' = Append(notices, NewNotice(r, s))
    /\ UNCHANGED <<selected, pending, policy, task>>
    /\ NoFault

(* An install or an update by hand; LifecycleTransition has its steps.     *)
InstallByHand ==
    /\ pending = None /\ selected # Catalog[market]
    /\ selected' = Catalog[market]
    /\ UNCHANGED <<notices, market, pending, policy, task>>
    /\ NoFault

Uninstall ==
    /\ pending = None /\ selected # None
    /\ selected' = None
    /\ UNCHANGED <<notices, market, pending, policy, task>>
    /\ NoFault

(* native-update-policy-service: a preview of the same generation, consent *)
(* for an automatic mode, then one commit.                                 *)
SetPolicy ==
    /\ policy' \in Policies \ {policy}
    /\ UNCHANGED <<notices, market, selected, pending, task>>
    /\ NoFault

Acknowledge ==
    /\ \E r \in Known :
         Notice(r).unread /\ Rewrite(r, LAMBDA n : [n EXCEPT !.unread = FALSE])
    /\ UNCHANGED <<world, task>>
    /\ NoFault

(* A startup ends a transition whose operation is gone, either way.        *)
Recover ==
    /\ pending # None
    /\ \A w \in Workers : task[w].at # "finish"
    /\ pending' = None
    /\ selected' \in {selected, pending}
    /\ UNCHANGED <<notices, market, policy, task>>
    /\ NoFault

-----------------------------------------------------------------------------
(* Maintenance: reconcile, run, dispatch                                   *)

Newest(i) == \A j \in DOMAIN notices : notices[j].resolution = None => j <= i

ResolutionOf(i) ==
    IF notices[i].resolution # None THEN notices[i].resolution
    ELSE IF selected = notices[i].rev THEN "installed"
    ELSE IF selected = None \/ ~Newest(i) THEN "gone"
    ELSE None

(* pruneUpdateNotices: of the read and resolved ones the latest resolved   *)
(* stay.  When they were resolved is left out, so any of them may.         *)
MayGoUnread(n) == n.resolution # None   \* mutant: unread ones go, too
MayGo(n) == ~n.unread /\ n.resolution # None
Prunes(old, new) ==
    LET tombstones == {i \in DOMAIN old : MayGo(old[i])}
        count == IF Cardinality(tombstones) < ResolvedPerPlugin
                 THEN Cardinality(tombstones) ELSE ResolvedPerPlugin
    IN \E kept \in kSubset(count, tombstones) :
         LET stay == (DOMAIN old \ tombstones) \cup kept
         IN \E place \in [1..Cardinality(stay) -> stay] :
              /\ \A i, j \in DOMAIN place : i < j => place[i] < place[j]
              /\ new = [i \in DOMAIN place |-> old[place[i]]]

(* The run of the maintenance follows.  It may not apply an update, as it  *)
(* has no context in which the host can be reloaded, so it only writes the *)
(* standing of an open notice, unless each waits for the time of its retry.*)
Reconcile(w) ==
    /\ task[w].at = "reconcile"
    /\ Prunes([i \in DOMAIN notices |-> [notices[i] EXCEPT !.resolution = ResolutionOf(i)]],
              notices')
    /\ \/ /\ \A r \in Open' : Notice(r)'.standing = "retryable"
          /\ Goes(w, "dispatch")
       \/ \E r \in Open' : Ends(w, r, "waiting")
    /\ UNCHANGED world
    /\ NoFault

(* The dispatch follows in the maintenance.                                *)
RunEnds(w) ==
    task' = [task EXCEPT ![w] = IF w \in Background THEN [Rest(w) EXCEPT !.at = "dispatch"]
                                ELSE Rest(w)]

(* catalog.resolve: of the selected snapshot only.                         *)
Resolves(n) == n.snapshot = market

(* Mutant: a pending transition of the plugin is not looked at.            *)
EligibleWhilePending(r) ==
    Automatic(policy) /\ Resolves(Notice(r)) /\ selected # None

(* Mutant: an automatic update waits until its notice was read.            *)
EligibleOnceRead(r) ==
    /\ Automatic(policy) /\ ~Notice(r).unread
    /\ Resolves(Notice(r))
    /\ selected # None /\ pending = None

(* The lifecycle authorizes under the policy, even if the run was explicit *)
(* and the coordinator did not ask it.                                     *)
Eligible(r) ==
    /\ Automatic(policy)
    /\ Resolves(Notice(r))
    /\ selected # None /\ pending = None

(* A run takes one open notice, evaluates it, and if it is eligible the    *)
(* adapter resolves it and the lifecycle authorizes it anew: the last of   *)
(* these readings decides, the step is at that one.  What fails is the     *)
(* preparation, or a configuration, a secret or a capability is missing.   *)
Evaluate(w) ==
    /\ task[w].at = "idle"
    /\ \E r \in Open :
         IF ~Eligible(r) THEN Ends(w, r, "waiting") /\ NoFault
         ELSE IF selected = r THEN Ends(w, r, "applied") /\ NoFault
         ELSE \/ task' = [task EXCEPT ![w] = [@ EXCEPT !.at = "commit", !.rev = r,
                                                      !.previous = selected]]
                 /\ NoFault
              \/ \E outcome \in {"waiting", "retryable"} : Ends(w, r, outcome) /\ Fault
    /\ UNCHANGED <<notices, world>>

(* The publisher is told first, the notice is marked afterwards.           *)
Publish(w) ==
    /\ task[w].at = "dispatch"
    /\ \E r \in Unpublished :
        task' = [task EXCEPT ![w] = [@ EXCEPT !.at = "mark", !.rev = r]]
    /\ UNCHANGED <<notices, world>>
    /\ NoFault

(* Nothing is pending, or the publisher failed.  A notice that comes while *)
(* the others are published is taken by this dispatch, not by the next.    *)
DispatchEnds(w) ==
    /\ task[w].at = "dispatch"
    /\ IF Unpublished = {} THEN NoFault ELSE Fault
    /\ Rests(w)
    /\ UNCHANGED <<notices, world>>

Mark(w) ==
    /\ task[w].at = "mark"
    /\ Rewrite(task[w].rev, LAMBDA n : [n EXCEPT !.published = TRUE])
    /\ task' = [task EXCEPT ![w] = [@ EXCEPT !.at = "dispatch", !.rev = None]]
    /\ UNCHANGED world
    /\ NoFault

-----------------------------------------------------------------------------
(* An automatic update                                                     *)

(* runFirstCommit looks at the record of the plugin, and at nothing else.  *)
Commit(w) ==
    LET t == task[w] IN
    /\ t.at = "commit"
    /\ IF selected = t.previous /\ pending = None
       THEN selected' = t.rev /\ pending' = t.previous /\ Goes(w, "finish")
       ELSE UNCHANGED <<selected, pending>> /\ Ends(w, t.rev, "waiting")
    /\ UNCHANGED <<notices, market, policy>>
    /\ NoFault

(* Changed; rolled back; recovery required.                                *)
Finish(w) ==
    LET r == task[w].rev IN
    /\ task[w].at = "finish"
    /\ \/ pending' = None /\ UNCHANGED selected
          /\ Ends(w, r, "applied") /\ NoFault
       \/ pending' = None /\ selected' = pending
          /\ Ends(w, r, "retryable") /\ Fault
       \/ Ends(w, r, "waiting") /\ Fault /\ UNCHANGED <<selected, pending>>
    /\ UNCHANGED <<notices, market, policy>>

(* eligibilityUpdate and lifecycleOutcome, with a fresh signal: for a      *)
(* notice that may be resolved by now.                                     *)
Settled(n, outcome) ==
    [n EXCEPT !.standing = outcome,
              !.resolution = IF outcome = "applied" THEN "installed" ELSE @]

Settle(w) ==
    /\ task[w].at = "settle"
    /\ Rewrite(task[w].rev, LAMBDA n : Settled(n, task[w].outcome))
    /\ RunEnds(w)
    /\ UNCHANGED world
    /\ NoFault

(* The process dies, or the caller of a run aborts it.                     *)
Stop(w) ==
    /\ task[w] # Rest(w)
    /\ Rests(w)
    /\ Fault
    /\ UNCHANGED <<notices, world>>

-----------------------------------------------------------------------------

Run(w) == \/ Commit(w) \/ Finish(w) \/ Settle(w)

Maintain(w) == Reconcile(w) \/ Publish(w) \/ DispatchEnds(w) \/ Mark(w)

Next ==
    \/ Refresh \/ InstallByHand \/ Uninstall \/ SetPolicy \/ Acknowledge \/ Recover
    \/ \E w \in Workers : Evaluate(w) \/ Run(w) \/ Maintain(w) \/ Stop(w)

(* Tasks run on, the maintenance is woken at every poll, and a startup     *)
(* recovers.                                                               *)
Fairness ==
    /\ WF_vars(Recover)
    /\ \A w \in Workers : WF_vars(Run(w))
    /\ \A w \in Background : WF_vars(Maintain(w))

Spec == Init /\ [][Next]_vars /\ Fairness

-----------------------------------------------------------------------------

(* A run calls an update applied only at a moment at which the revision is *)
(* selected and no transition is pending that could still be rolled back.  *)
SaysApplied(w) == task[w].outcome = "applied"
AppliedIsFinal ==
    [][\A w \in Workers : ~SaysApplied(w) /\ SaysApplied(w)' =>
          selected' = task'[w].rev /\ pending' = None]_vars

(* The user is not left without a notice: one leaves the record only when  *)
(* it was read and its update is no longer open, and is superseded only    *)
(* while a later one of the plugin is open.                                *)
IsOver(r) ==
    \/ r \notin Open \/ selected \in {None, r}
    \/ \E i, j \in DOMAIN notices : i < j /\ notices[i].rev = r /\ notices[j].resolution = None
NoticesSurvive ==
    [][\A r \in Known :
          /\ r \notin Known' => ~Notice(r).unread /\ IsOver(r)
          /\ r \in Open \ Open' =>
                IsOver(r) \/ \E w \in Workers : SaysApplied(w) /\ task[w].rev = r]_vars

(* The publisher is told of every notice in the end, read or not.          *)
NoticesArePublished ==
    \A r \in Revisions : []<>(r \in Known => Notice(r).published)

(* If commands run the automatic updates again and again, no notice waits  *)
(* for ever under an automatic policy while its revision is offered.       *)
Waits(r) == r \in Open /\ Catalog[market] = r /\ selected # None /\ Automatic(policy)
AutomaticUpdatesHappen ==
    (\A w \in Foreground : SF_vars(Evaluate(w))) => \A r \in Revisions : []<>~Waits(r)
=============================================================================
