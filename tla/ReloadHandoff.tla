------------------------------ MODULE ReloadHandoff ------------------------------
(***************************************************************************)
(* The reload of one Pi session.  A lifecycle operation that has committed *)
(* a pending transition asks Pi to reload: Pi shuts the plugin host down   *)
(* that runs the operation, starts a successor, and the successor answers  *)
(* the operation, which is still waiting in the host that was shut down.   *)
(* The two meet in the process-global ticket map of pi-reload-broker.ts;   *)
(* plugin-host-bootstrap.ts keeps the session's owners, and               *)
(* complete-plugin-reload.ts rebuilds the runtime in the successor.        *)
(*                                                                         *)
(* Hosts are numbered in the order Pi loads them; only the last can be     *)
(* alive to Pi.  Every operation updates a plugin of its own, so plugins   *)
(* and operations are the same set.                                        *)
(***************************************************************************)
EXTENDS Naturals, FiniteSets

CONSTANTS
    Ops,        \* the operations, each on its own plugin
    NoOp,       \* no operation
    MaxHosts    \* bound: how many hosts Pi loads in this session

ASSUME OpsAssumption == IsFiniteSet(Ops) /\ NoOp \notin Ops /\ MaxHosts \in Nat \ {0}

Hosts == 1..MaxHosts

VARIABLES
    pc,         \* where each operation stands
    home,       \* the host that admitted it, 0 before
    record,     \* the durable record of its plugin
    ticket,     \* its reload ticket
    host,       \* the state of each host
    owners,     \* the hosts that own the session (process-global)
    draining,   \* the ticket that each owner marked itself draining for
    successor,  \* the ticket that each host has yet to publish
    runtime,    \* the runtime of each host
    job,        \* the reconstruction under way in the host that is starting
    pi          \* Pi: the last host it loaded, and the reload under way

vars == <<pc, home, record, ticket, host, owners, draining, successor, runtime, job, pi>>

Ended == {"accepted", "refused"}
InFlight(o) == pc[o] \in {"running", "reloading", "waiting"}

\* What a host runs of each plugin: its previous revision, the candidate of
\* the operation, or nothing.
Revisions == {"absent", "previous", "candidate"}
Nothing == [o \in Ops |-> "absent"]

Runtime == [catalog: [Ops -> Revisions], skills: [Ops -> Revisions], mcp: [Ops -> Revisions],
            lease: [Ops -> Revisions], current: [Ops -> Revisions], quiesced: BOOLEAN,
            committed: [Ops -> Revisions],  \* history: the selection committed last
            ended: [Ops -> Revisions]]      \* history: whose SessionEnd hooks ran
Whole(plugins) == [catalog |-> plugins, skills |-> plugins, mcp |-> plugins,
                   lease |-> plugins, current |-> plugins, quiesced |-> FALSE,
                   committed |-> plugins, ended |-> Nothing]
Fresh == [Whole(Nothing) EXCEPT !.quiesced = TRUE]

NoTicket == [state |-> "none", by |-> 0]
\* The reconstructions: none, or the step it is in, the plugins wanted, the
\* catalog before it, whether the candidate was committed, and what it is for:
\* the recovery of an operation's plugin, or the host itself (NoOp).
Idle == [step |-> "idle"]
Job == {Idle} \cup
       [step: {"skills", "mcp", "observe", "lease", "restore"}, want: [Ops -> Revisions],
        before: [Ops -> Revisions], committed: BOOLEAN, for: Ops \cup {NoOp}]

TypeOK ==
    /\ pc \in [Ops -> {"idle", "running", "reloading", "waiting"} \cup Ended]
    /\ home \in [Ops -> 0..MaxHosts]
    /\ record \in [Ops -> {"previous", "pending", "candidate"}]
    /\ ticket \in [Ops -> [state: {"none", "open", "published", "failed"}, by: 0..MaxHosts]]
    /\ host \in [Hosts -> {"absent", "starting", "serving", "failed", "ended", "closed"}]
    /\ owners \subseteq Hosts
    /\ draining \in [Hosts -> Ops \cup {NoOp}]
    /\ successor \in [Hosts -> Ops \cup {NoOp}]
    /\ runtime \in [Hosts -> Runtime]
    /\ job \in [of: Job, tried: SUBSET Ops]
    /\ pi \in [last: Hosts, phase: {"idle", "start", "discover"}, for: Ops \cup {NoOp}]
    /\ job.of # Idle => host[pi.last] = "starting"
    /\ \A h \in Hosts : successor[h] # NoOp => ticket[successor[h]].by = h

Init ==
    /\ pc = [o \in Ops |-> "idle"]
    /\ home = [o \in Ops |-> 0]
    /\ record = [o \in Ops |-> "previous"]
    /\ ticket = [o \in Ops |-> NoTicket]
    /\ host = [h \in Hosts |-> IF h = 1 THEN "serving" ELSE "absent"]
    /\ owners = {1}
    /\ draining = [h \in Hosts |-> NoOp]
    /\ successor = [h \in Hosts |-> NoOp]
    /\ runtime = [h \in Hosts |-> IF h = 1 THEN Whole([o \in Ops |-> "previous"]) ELSE Fresh]
    /\ job = [of |-> Idle, tried |-> {}]
    /\ pi = [last |-> 1, phase |-> "idle", for |-> NoOp]

---------------------------------------------------------------------------------
(* The broker: one ticket per operation, an operation reloads only once.   *)
\* broker.fail: the ticket of o, unless it is settled.
Failed(tickets, o) ==
    IF o # NoOp /\ tickets[o].state = "open" THEN [tickets EXCEPT ![o].state = "failed"] ELSE tickets

\* What claimSuccessor gives to a host that starts.
Claimable == {o \in Ops : ticket[o].state = "open" /\ ticket[o].by = 0}
Claims == IF Cardinality(Claimable) = 1 THEN CHOOSE o \in Claimable : TRUE ELSE NoOp

\* The ticket that host h claimed.
Claim(h) == IF \E o \in Ops : ticket[o].by = h THEN CHOOSE o \in Ops : ticket[o].by = h ELSE NoOp

\* claimSession: the session has no owner, or one that drains for this ticket.
MayOwn(o) == owners = {} \/ \E h \in Hosts : owners = {h} /\ o # NoOp /\ draining[h] = o

---------------------------------------------------------------------------------
(* The operations, in the host that admitted them.                         *)
\* runWithPiOperationContext admits the operation, and it commits its pending
\* transition.
Admit(o) ==
    /\ pc[o] = "idle" /\ host[pi.last] = "serving"
    /\ pc' = [pc EXCEPT ![o] = "running"]
    /\ home' = [home EXCEPT ![o] = pi.last]
    /\ record' = [record EXCEPT ![o] = "pending"]
    /\ UNCHANGED <<ticket, host, owners, draining, successor, runtime, job, pi>>

\* The operation ends as reload() answers.  Accepted, the record is the
\* candidate's if the transition can be settled; refused, the compensation
\* cannot reload a second time and the record stays pending.
Answer(o, answer) ==
    /\ pc' = [pc EXCEPT ![o] = answer]
    /\ \E r \in IF answer = "accepted" THEN {"candidate", "pending"} ELSE {"pending"} :
           record' = [record EXCEPT ![o] = r]

\* reload(): open a ticket, mark the host draining, ask Pi to reload.  A
\* second open ticket is refused; a host Pi has left cannot reload.
OpenTicket(o) ==
    /\ pc[o] = "running"
    /\ \/ /\ \E other \in Ops : ticket[other].state = "open"
          /\ Answer(o, "refused")
          /\ UNCHANGED <<ticket, draining>>
       \/ /\ \A other \in Ops : ticket[other].state # "open"
          /\ draining' = [draining EXCEPT ![home[o]] = o]
          /\ \/ /\ host[home[o]] = "serving"
                /\ ticket' = [ticket EXCEPT ![o].state = "open"]
                /\ pc' = [pc EXCEPT ![o] = "reloading"]
                /\ UNCHANGED record
             \/ /\ host[home[o]] # "serving"
                /\ ticket' = [ticket EXCEPT ![o].state = "failed"]
                /\ Answer(o, "refused")
    /\ UNCHANGED <<home, host, owners, successor, runtime, job, pi>>

\* Another reload made the context stale before Pi turned to this one.
ReloadIsRejected(o) ==
    /\ pc[o] = "reloading" /\ host[home[o]] # "serving" /\ pi.for # o
    /\ ticket' = Failed(ticket, o)
    /\ Answer(o, "refused")
    /\ UNCHANGED <<home, host, owners, draining, successor, runtime, job, pi>>

\* wait() answers with what the ticket was settled to.
Wait(o) ==
    /\ pc[o] = "waiting" /\ ticket[o].state \in {"published", "failed"}
    /\ Answer(o, IF ticket[o].state = "published" THEN "accepted" ELSE "refused")
    /\ UNCHANGED <<home, ticket, host, owners, draining, successor, runtime, job, pi>>

\* The operation's signal is aborted while it waits: the ticket fails, unless
\* the successor has settled it in the meantime.
AbortWaitLeaves(o) ==                        \* mutant: the ticket stays open
    /\ pc[o] = "waiting"
    /\ Answer(o, "refused")
    /\ UNCHANGED <<home, ticket, host, owners, draining, successor, runtime, job, pi>>
AbortWait(o) ==
    /\ pc[o] = "waiting"
    /\ ticket' = Failed(ticket, o)
    /\ Answer(o, "refused")
    /\ UNCHANGED <<home, host, owners, draining, successor, runtime, job, pi>>

---------------------------------------------------------------------------------
(* Pi shuts the host down and loads the next one.                          *)
Here == runtime[pi.last]

\* The plugins whose hooks r can execute.  A hook is planned from the skills,
\* and withContext refuses it unless the catalog has the same revision.
Runs(r) == [o \in Ops |-> IF r.skills[o] = r.catalog[o] THEN r.skills[o] ELSE "absent"]

\* The user reloads, or an operation in the host that Pi runs does.
\* beginSessionShutdown: the SessionEnd hooks run, quiesced or not; then hooks
\* are quiesced, servers and catalog are closed and the lease released; what
\* the operations need is closed later.
Shutdown ==
    /\ pi.phase = "idle" /\ pi.last < MaxHosts
    /\ \E o \in Ops \cup {NoOp} :
           /\ o # NoOp => pc[o] = "reloading" /\ home[o] = pi.last /\ host[pi.last] = "serving"
           /\ pi' = [last |-> pi.last + 1, phase |-> "start", for |-> o]
    /\ host' = [host EXCEPT ![pi.last] = "ended"]
    /\ runtime' = [runtime EXCEPT ![pi.last] =
           [Fresh EXCEPT !.current = Here.current, !.committed = Here.committed,
                         !.ended = IF host[pi.last] = "serving" THEN Runs(Here) ELSE Nothing]]
    /\ job' = [of |-> Idle, tried |-> {}]
    /\ UNCHANGED <<pc, home, record, ticket, owners, draining, successor>>

\* ensureFinalClose: once its operations have ended, the host fails the ticket
\* it has not published and gives the session up.
FinalClose(h) ==
    /\ host[h] = "ended" /\ \A o \in Ops : home[o] = h => ~InFlight(o)
    /\ host' = [host EXCEPT ![h] = "closed"]
    /\ ticket' = Failed(ticket, successor[h])
    /\ successor' = [successor EXCEPT ![h] = NoOp]
    /\ owners' = owners \ {h}
    /\ UNCHANGED <<pc, home, record, draining, runtime, job, pi>>

\* start(): claim a ticket, then the session.  A start that fails before the
\* claim claims nothing; one that may not own the session fails its ticket.
StartSession ==
    /\ pi.phase = "start" /\ host[pi.last] = "absent"
    /\ \/ /\ host' = [host EXCEPT ![pi.last] = "failed"]
          /\ pi' = [pi EXCEPT !.phase = "discover"]
          /\ UNCHANGED <<ticket, owners, runtime>>
       \/ LET o == Claims
              claimed == [p \in Ops |-> IF p = o THEN [ticket[p] EXCEPT !.by = pi.last] ELSE ticket[p]]
          IN  \/ /\ MayOwn(o)
                 /\ owners' = owners \cup {pi.last}
                 /\ ticket' = claimed
                 /\ host' = [host EXCEPT ![pi.last] = "starting"]
                 /\ runtime' = [runtime EXCEPT ![pi.last].quiesced = FALSE]
                 /\ UNCHANGED pi
              \/ /\ ~MayOwn(o)
                 /\ ticket' = Failed(claimed, o)
                 /\ host' = [host EXCEPT ![pi.last] = "failed"]
                 /\ pi' = [pi EXCEPT !.phase = "discover"]
                 /\ UNCHANGED <<owners, runtime>>
    /\ UNCHANGED <<pc, home, record, draining, successor, job>>

\* An adapter fails while the host is composed.
StartFailsSilently ==                        \* mutant: the ticket is not failed
    /\ host[pi.last] = "starting" /\ job.of = Idle
    /\ host' = [host EXCEPT ![pi.last] = "failed"]
    /\ owners' = owners \ {pi.last}
    /\ runtime' = [runtime EXCEPT ![pi.last].quiesced = TRUE]
    /\ pi' = [pi EXCEPT !.phase = "discover"]
    /\ UNCHANGED <<pc, home, record, ticket, draining, successor, job>>
StartFailsMidway ==                          \* mutant: a reconstruction is not awaited
    /\ host[pi.last] = "starting"
    /\ host' = [host EXCEPT ![pi.last] = "failed"]
    /\ ticket' = Failed(ticket, Claim(pi.last))
    /\ owners' = owners \ {pi.last}
    /\ runtime' = [runtime EXCEPT ![pi.last].quiesced = TRUE]
    /\ pi' = [pi EXCEPT !.phase = "discover"]
    /\ UNCHANGED <<pc, home, record, draining, successor, job>>
StartFails ==
    /\ host[pi.last] = "starting" /\ job.of = Idle
    /\ host' = [host EXCEPT ![pi.last] = "failed"]
    /\ ticket' = Failed(ticket, Claim(pi.last))
    /\ owners' = owners \ {pi.last}
    /\ runtime' = [runtime EXCEPT ![pi.last].quiesced = TRUE]
    /\ pi' = [pi EXCEPT !.phase = "discover"]
    /\ UNCHANGED <<pc, home, record, draining, successor, job>>

---------------------------------------------------------------------------------
(* perform(): the starting host rebuilds its runtime.                      *)
Wanted == {o \in Ops : job.of.want[o] # "absent"}

\* buildRuntimeDesiredState: pending plugins are left out, except the one that
\* the caller overrides.
Desired(override, o) ==
    [p \in Ops |-> IF p = o THEN override
                   ELSE IF record[p] = "pending" THEN "absent" ELSE record[p]]

\* What follows a reconstruction.  After a recovery the transition is settled,
\* or not.  A host that could not rebuild its runtime serves without it, and
\* the ticket it claimed fails.
Performed(ok, o) ==
    LET t == Claim(pi.last)
    IN  /\ job' = [of |-> Idle, tried |-> IF o = NoOp THEN {} ELSE job.tried \cup {o}]
        /\ \/ /\ o # NoOp
              /\ \E r \in IF ok THEN {"previous", "pending"} ELSE {"pending"} :
                     record' = [record EXCEPT ![o] = r]
              /\ UNCHANGED <<ticket, host, successor, pi>>
           \/ /\ o = NoOp
              /\ host' = [host EXCEPT ![pi.last] = "serving"]
              /\ pi' = [pi EXCEPT !.phase = "discover"]
              /\ ticket' = IF ok THEN ticket ELSE Failed(ticket, t)
              /\ successor' = [successor EXCEPT ![pi.last] = IF ok THEN t ELSE NoOp]
              /\ UNCHANGED record
    /\ UNCHANGED <<pc, home, owners, draining>>

\* beginCandidate makes the candidate the current epoch at once, and hooks are
\* quiesced.  Nothing is touched when the desired state cannot be loaded.
BeginCandidate(want, for) ==
    /\ job' = [job EXCEPT !.of = [step |-> "skills", want |-> want, before |-> Here.catalog,
                                  committed |-> FALSE, for |-> for]]
    /\ runtime' = [runtime EXCEPT ![pi.last].catalog = want, ![pi.last].quiesced = TRUE]
Perform(want, for) ==
    \/ /\ BeginCandidate(want, for)
       /\ UNCHANGED <<pc, home, record, ticket, host, owners, draining, successor, pi>>
    \/ Performed(FALSE, for) /\ UNCHANGED runtime

\* Startup recovery restores the previous revision of a plugin whose operation
\* left its transition pending (reconcileLocal).
RecoverLocal(o) ==
    /\ host[pi.last] = "starting" /\ job.of = Idle
    /\ record[o] = "pending" /\ pc[o] \in Ended /\ o # Claim(pi.last) /\ o \notin job.tried
    /\ Perform(Desired("previous", o), o)

\* Then the host itself: the candidate of the ticket it claimed
\* (acceptSuccessor), or the durable state as it is (reconcileCurrent).
ReconstructDurable ==                        \* mutant: without the candidate
    /\ host[pi.last] = "starting" /\ job.of = Idle
    /\ Perform(Desired("candidate", NoOp), NoOp)
Reconstruct ==
    /\ host[pi.last] = "starting" /\ job.of = Idle
    /\ Perform(Desired("candidate", Claim(pi.last)), NoOp)

At(step) == host[pi.last] = "starting" /\ job.of.step = step
GoTo(step) == job' = [job EXCEPT !.of.step = step]
Rebuilding == UNCHANGED <<pc, home, record, ticket, host, owners, draining, successor, pi>>

ReconcileSkills ==
    /\ At("skills")
    /\ \/ /\ runtime' = [runtime EXCEPT ![pi.last].skills = job.of.want]
          /\ GoTo("mcp")
       \/ GoTo("restore") /\ UNCHANGED runtime
    /\ Rebuilding

\* reconcileAll goes on after a failure, and an outcome may be unknown.
\* A plugin that is left out keeps the servers it has.
ReconcileMcp ==
    /\ At("mcp")
    /\ \E done \in SUBSET Wanted :
           /\ runtime' = [runtime EXCEPT ![pi.last].mcp =
                             [o \in Ops |-> IF o \in done THEN job.of.want[o] ELSE @[o]]]
           /\ \/ done = Wanted /\ GoTo("observe")
              \/ GoTo("restore")
    /\ Rebuilding

\* Resource discovery and the observation of every plugin; then the commit.
Observe ==
    /\ At("observe")
    /\ \/ /\ job' = [job EXCEPT !.of.step = "lease", !.of.committed = TRUE]
          /\ runtime' = [runtime EXCEPT ![pi.last].committed = job.of.want]
       \/ GoTo("restore") /\ UNCHANGED runtime
    /\ Rebuilding

ReplaceLease ==
    /\ At("lease")
    /\ \/ /\ runtime' = [runtime EXCEPT ![pi.last] = [@ EXCEPT !.lease = job.of.want,
                                                               !.current = job.of.want,
                                                               !.quiesced = FALSE]]
          /\ Performed(TRUE, job.of.for)
       \/ /\ \E lease \in {Here.lease, job.of.want} :
                 runtime' = [runtime EXCEPT ![pi.last].lease = lease]
          /\ GoTo("restore")
          /\ Rebuilding

\* restore(): the catalog goes back only if the candidate is not committed;
\* skills go back to the last complete runtime, servers to none; each may fail.
RestoreSkillsOnly ==                         \* mutant: the candidate stays selected
    /\ At("restore")
    /\ \E skills \in {Here.skills, Here.current}, removed \in SUBSET Wanted :
           runtime' = [runtime EXCEPT ![pi.last] =
               [Here EXCEPT !.skills = skills,
                            !.mcp = [o \in Ops |-> IF o \in removed THEN "absent" ELSE Here.mcp[o]],
                            !.quiesced = TRUE]]
    /\ Performed(FALSE, job.of.for)
Restore ==
    /\ At("restore")
    /\ \E skills \in {Here.skills, Here.current}, removed \in SUBSET Wanted :
           runtime' = [runtime EXCEPT ![pi.last] =
               [Here EXCEPT !.catalog = IF job.of.committed THEN Here.catalog ELSE job.of.before,
                            !.skills = skills,
                            !.mcp = [o \in Ops |-> IF o \in removed THEN "absent" ELSE Here.mcp[o]],
                            !.quiesced = TRUE]]
    /\ Performed(FALSE, job.of.for)

---------------------------------------------------------------------------------
(* Pi asks the host it loaded for its resources and the reload is over.    *)
\* resourcesDiscover: a host that holds a ticket publishes it, or fails it if
\* its resources are not ready.  A ticket that is settled cannot be published:
\* the handler throws and the host keeps the ticket.
Discover ==
    /\ pi.phase = "discover"
    /\ LET o == successor[pi.last]
       IN  \/ /\ o = NoOp \/ host[pi.last] # "serving"
              /\ UNCHANGED <<ticket, successor>>
           \/ /\ o # NoOp /\ host[pi.last] = "serving" /\ ticket[o].state = "open"
              /\ ticket' = [ticket EXCEPT ![o].state = "published"]
              /\ successor' = [successor EXCEPT ![pi.last] = NoOp]
           \/ /\ o # NoOp /\ host[pi.last] = "serving" /\ ticket[o].state # "open"
              /\ UNCHANGED <<ticket, successor>>
           \/ /\ o # NoOp /\ host[pi.last] = "serving"
              /\ ticket' = Failed(ticket, o)
              /\ successor' = [successor EXCEPT ![pi.last] = NoOp]
    /\ pc' = [o \in Ops |-> IF o = pi.for /\ pc[o] = "reloading" THEN "waiting" ELSE pc[o]]
    /\ pi' = [pi EXCEPT !.phase = "idle", !.for = NoOp]
    /\ UNCHANGED <<home, record, host, owners, draining, runtime, job>>

Next ==
    \/ \E o \in Ops : \/ Admit(o) \/ OpenTicket(o) \/ ReloadIsRejected(o)
                      \/ Wait(o) \/ AbortWait(o) \/ RecoverLocal(o)
    \/ \E h \in Hosts : FinalClose(h)
    \/ Shutdown \/ StartSession \/ StartFails \/ Reconstruct
    \/ ReconcileSkills \/ ReconcileMcp \/ Observe \/ ReplaceLease \/ Restore \/ Discover

\* Every step of a start returns and Pi finishes the reload it began; nobody
\* has to reload, to abort or to fail.
Fairness ==
    /\ \A o \in Ops : WF_vars(ReloadIsRejected(o)) /\ WF_vars(Wait(o))
    /\ WF_vars(StartSession) /\ WF_vars(Reconstruct)
    /\ WF_vars(ReconcileSkills) /\ WF_vars(ReconcileMcp) /\ WF_vars(Observe)
    /\ WF_vars(ReplaceLease) /\ WF_vars(Restore) /\ WF_vars(Discover)

Spec == Init /\ [][Next]_vars /\ Fairness

---------------------------------------------------------------------------------
(* Properties.                                                             *)
\* An operation is told that its plugin was activated only when a successor
\* that claimed its ticket runs the candidate completely: never on the word of
\* Pi that the reload is over, and never for a host that started otherwise.
AcceptedIsActive ==
    \A o \in Ops : pc[o] = "accepted" =>
        \E h \in Hosts : /\ ticket[o].by = h /\ h > home[o]
                         /\ runtime[h].current[o] = "candidate"

\* The hooks of Pi's own events are delivered only by a runtime whose parts
\* agree: the catalog, the skills, the revision lease and the MCP servers of
\* every active plugin are those of the last reconstruction that succeeded.
PiEventsSeeWhole ==
    \A h \in Hosts : ~runtime[h].quiesced =>
        LET r == runtime[h]
        IN  /\ r.catalog = r.current /\ r.skills = r.current /\ r.lease = r.current
            /\ \A o \in Ops : r.current[o] # "absent" => r.mcp[o] = r.current[o]

\* SessionEnd and the hooks of subagents are not held back by quiescence.  A
\* host that a reconstruction has failed in may still execute them, without its
\* servers, but never those of a revision that it has not committed: only a
\* subagent's may be the candidate's, as long as the reconstruction goes on.
OthersSeeCommitted ==
    \A h \in Hosts, o \in Ops :
        LET committed == {"absent", runtime[h].committed[o]}
        IN  /\ runtime[h].ended[o] \in committed
            /\ \/ Runs(runtime[h])[o] \in committed
               \/ h = pi.last /\ job.of # Idle /\ Runs(runtime[h])[o] = job.of.want[o]

\* Whatever fails in a reconstruction or in its restoration: no hook of Pi's
\* own events runs in a mixture of two runtimes, and no other one on behalf of
\* a revision that was never committed (complete-plugin-reload.ts,
\* hook-execution-context.ts).
HooksAreConsistent == PiEventsSeeWhole /\ OthersSeeCommitted

\* A ticket is open only as long as its operation waits for it: a later start
\* never takes over the candidate of an operation that has given up, and no
\* dead ticket keeps the session from reloading.
OpenTicketsAreAwaited ==
    \A o \in Ops : ticket[o].state = "open" => pc[o] \in {"reloading", "waiting"}

\* Once a successor has claimed a ticket, the operation gets its answer,
\* however the successor's start ends.
ClaimedReloadsAnswer == \A o \in Ops : ticket[o].by # 0 ~> pc[o] \in Ended

=================================================================================
