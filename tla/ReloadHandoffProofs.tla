-------------------------- MODULE ReloadHandoffProofs --------------------------
(***************************************************************************)
(* Proofs about ReloadHandoff, for any operations and any number of hosts. *)
(*                                                                         *)
(* The answer of a reload passes through four hands: the successor claims  *)
(* the ticket, rebuilds its runtime for it, keeps it until Pi asks for its *)
(* resources, and publishes it.  The invariant follows it: a host that is  *)
(* not loaded has claimed nothing, a reconstruction for a claimed ticket   *)
(* wants its candidate, its parts agree with what is wanted up to the step *)
(* it is in, and what is kept or published runs in the host that claimed.  *)
(***************************************************************************)
EXTENDS ReloadHandoff, FiniteSetTheorems, TLAPS

(* Hosts that are not loaded, and the others.                              *)
HostsInv ==
    /\ \A h \in Hosts : h > pi.last => host[h] = "absent"
    /\ \A h \in Hosts : host[h] = "absent" =>
          /\ runtime[h] = Fresh /\ successor[h] = NoOp
          /\ \A o \in Ops : ticket[o].by # h /\ home[o] # h
    /\ pi.phase # "start" => host[pi.last] # "absent"
    /\ \A o \in Ops : home[o] <= pi.last

(* A ticket belongs to one operation, and to one host after it was claimed.*)
TicketsInv ==
    /\ OpenTicketsAreAwaited
    /\ \A o \in Ops : pc[o] \in {"idle", "running"} => ticket[o] = NoTicket
    /\ \A o, p \in Ops : ticket[o].by = ticket[p].by /\ ticket[o].by # 0 => o = p
    /\ \A o \in Ops : ticket[o].by # 0 => ticket[o].by > home[o]

(* How far the reconstruction is.                                          *)
JobInv ==
    job.of # Idle =>
        /\ Here.quiesced
        /\ Here.catalog = job.of.want
        /\ job.of.step \in {"mcp", "observe", "lease"} => Here.skills = job.of.want
        /\ job.of.step \in {"observe", "lease"} =>
              \A o \in Ops : job.of.want[o] # "absent" => Here.mcp[o] = job.of.want[o]
        /\ job.of.for = NoOp =>
              \A o \in Ops : ticket[o].by = pi.last => job.of.want[o] = "candidate"

(* What is kept to be published, or published, runs in the host that       *)
(* claimed the ticket.                                                     *)
Activated(h, o) == /\ ticket[o].by = h /\ runtime[h].current[o] = "candidate"
              /\ host[h] \notin {"absent", "starting"}
AnswersInv ==
    /\ \A h \in Hosts : successor[h] # NoOp => Activated(h, successor[h])
    /\ \A o \in Ops : ticket[o].state = "published" => \E h \in Hosts : Activated(h, o)
    /\ \A o \in Ops : pc[o] = "accepted" => ticket[o].state = "published"

IInv == TypeOK /\ HostsInv /\ TicketsInv /\ JobInv /\ AnswersInv /\ PiEventsSeeWhole

-----------------------------------------------------------------------------
(* Types.                                                                  *)
Tickets == [Ops -> [state : {"none", "open", "published", "failed"}, by : 0..MaxHosts]]
Plugins == [Ops -> Revisions]
Building == [step : {"skills", "mcp", "observe", "lease", "restore"}, want : Plugins,
             before : Plugins, committed : BOOLEAN, for : Ops \cup {NoOp}]

LEMMA HostsAreNumbers ==
    /\ MaxHosts \in Nat /\ MaxHosts > 0 /\ 1 \in Hosts /\ 0 \notin Hosts
    /\ Hosts \subseteq Nat /\ \A h \in Hosts : h \in 0..MaxHosts /\ h > 0
BY OpsAssumption DEF Hosts

LEMMA QuiescedIsTyped ==
    ASSUME NEW r \in Runtime, NEW flag \in BOOLEAN
    PROVE  [r EXCEPT !.quiesced = flag] \in Runtime
BY DEF Runtime

LEMMA RuntimesTyped == Fresh \in Runtime /\ \A plugins \in Plugins : Whole(plugins) \in Runtime
<1>1. Nothing \in Plugins
  BY DEF Nothing, Plugins, Revisions
<1>2. ASSUME NEW plugins \in Plugins
      PROVE  Whole(plugins) \in Runtime
  BY <1>1, <1>2 DEF Whole, Runtime, Plugins
<1>3. Fresh \in Runtime
  <2>1. Whole(Nothing) \in Runtime
    BY <1>1, <1>2
  <2> QED BY <2>1, QuiescedIsTyped DEF Fresh
<1> QED BY <1>2, <1>3

LEMMA InitIInv == Init => IInv
<1> SUFFICES ASSUME Init PROVE IInv
  OBVIOUS
<1> DEFINE all == [o \in Ops |-> "previous"]
<1>1. all \in Plugins /\ Whole(all) \in Runtime /\ Fresh \in Runtime
  BY RuntimesTyped DEF Plugins, Revisions
<1>2. runtime = [h \in Hosts |-> IF h = 1 THEN Whole(all) ELSE Fresh]
  BY DEF Init
<1> HIDE DEF all
<1>3. runtime \in [Hosts -> Runtime]
  BY <1>1, <1>2
<1>4. job \in [of : Job, tried : SUBSET Ops] /\ job.of = Idle
  BY DEF Init, Job
<1>5. pi \in [last : Hosts, phase : {"idle", "start", "discover"}, for : Ops \cup {NoOp}] /\ pi.last = 1
  BY HostsAreNumbers DEF Init
<1>6. TypeOK
  BY <1>3, <1>4, <1>5, HostsAreNumbers DEF Init, TypeOK, NoTicket
<1>7. HostsInv
  BY <1>2, <1>5, HostsAreNumbers DEF Init, HostsInv, NoTicket
<1>8. TicketsInv /\ JobInv /\ AnswersInv
  BY <1>4 DEF Init, TicketsInv, OpenTicketsAreAwaited, NoTicket, JobInv, AnswersInv
<1>9. PiEventsSeeWhole
  BY <1>2 DEF PiEventsSeeWhole, Whole, Fresh
<1> QED BY <1>6, <1>7, <1>8, <1>9 DEF IInv

(* The broker.                                                             *)
LEMMA FailedTickets ==
    ASSUME NEW tickets \in Tickets, NEW o \in Ops \cup {NoOp}
    PROVE  /\ Failed(tickets, o) \in Tickets
           /\ \A p \in Ops : /\ Failed(tickets, o)[p].by = tickets[p].by
                             /\ \/ Failed(tickets, o)[p] = tickets[p]
                                \/ /\ p = o /\ tickets[p].state = "open"
                                   /\ Failed(tickets, o)[p].state = "failed"
           /\ o # NoOp => Failed(tickets, o)[o].state # "open"
BY OpsAssumption DEF Failed, Tickets

LEMMA ClaimIsUnique ==
    ASSUME IInv, NEW h \in Hosts
    PROVE  /\ Claim(h) \in Ops \cup {NoOp}
           /\ \A o \in Ops : ticket[o].by = h => Claim(h) = o
           /\ Claim(h) # NoOp => ticket[Claim(h)].by = h
BY HostsAreNumbers DEF Claim, IInv, TicketsInv

LEMMA ClaimsOne ==
    /\ Claims \in Ops \cup {NoOp}
    /\ Claims # NoOp => ticket[Claims].state = "open" /\ ticket[Claims].by = 0
<1>1. CASE Cardinality(Claimable) = 1
  <2>1. Claimable # {}
    BY <1>1, FS_EmptySet
  <2> QED BY <1>1, <2>1 DEF Claims, Claimable
<1> QED BY <1>1 DEF Claims

-----------------------------------------------------------------------------
(* The operations.  They change their own tickets, and nothing of a host.  *)
LEMMA OperationStep ==
    ASSUME IInv, UNCHANGED <<host, owners, successor, runtime, job, pi>>,
           pc' \in [Ops -> {"idle", "running", "reloading", "waiting"} \cup Ended],
           home' \in [Ops -> 0..MaxHosts], record' \in [Ops -> {"previous", "pending", "candidate"}],
           ticket' \in Tickets, draining' \in [Hosts -> Ops \cup {NoOp}],
           \A o \in Ops :
              /\ ticket'[o].by = ticket[o].by
              /\ ticket'[o].state = "published" <=> ticket[o].state = "published"
              /\ ticket'[o].state = "open" => pc'[o] \in {"reloading", "waiting"}
              /\ pc'[o] \in {"idle", "running"} => ticket'[o] = NoTicket
              /\ pc'[o] = "accepted" => ticket[o].state = "published"
              /\ \/ home'[o] = home[o]
                 \/ home'[o] = pi.last /\ host[pi.last] # "absent" /\ ticket[o].by = 0
    PROVE  IInv'
<1>1. TypeOK'
  BY DEF IInv, TypeOK, Tickets
<1>2. HostsInv'
  <2>1. pi.last \in Nat
    BY HostsAreNumbers DEF IInv, TypeOK
  <2> QED BY <2>1 DEF IInv, HostsInv
<1>3. TicketsInv'
  BY DEF IInv, TicketsInv, OpenTicketsAreAwaited
<1>4. JobInv'
  BY DEF IInv, JobInv, Here
<1>5. AnswersInv'
  <2>1. \A h \in Hosts, o \in Ops : Activated(h, o) => Activated(h, o)'
    BY DEF Activated
  <2>2. \A h \in Hosts : successor[h] \in Ops \cup {NoOp}
    BY DEF IInv, TypeOK
  <2> QED BY <2>1, <2>2 DEF IInv, AnswersInv
<1>6. PiEventsSeeWhole'
  BY DEF IInv, PiEventsSeeWhole
<1> QED BY <1>1, <1>2, <1>3, <1>4, <1>5, <1>6 DEF IInv

LEMMA IsTyped ==
    ASSUME IInv
    PROVE  /\ pi.last \in Hosts /\ pi.last \in Nat /\ pi.last # 0
           /\ ticket \in Tickets /\ runtime \in [Hosts -> Runtime]
           /\ \A o \in Ops : ticket[o].by \in Nat /\ home[o] \in Nat
<1>1. pi.last \in Hosts /\ ticket \in Tickets /\ runtime \in [Hosts -> Runtime]
  BY DEF IInv, TypeOK, Tickets
<1>2. pi.last \in Nat /\ pi.last # 0
  BY <1>1, HostsAreNumbers
<1>3. ASSUME NEW o \in Ops
      PROVE  ticket[o].by \in Nat /\ home[o] \in Nat
  <2>1. ticket[o].by \in 0..MaxHosts /\ home[o] \in 0..MaxHosts
    BY <1>1 DEF IInv, TypeOK, Tickets
  <2> QED BY <2>1, HostsAreNumbers
<1> QED BY <1>1, <1>2, <1>3

LEMMA AdmitStep ==
    ASSUME IInv, NEW o \in Ops, Admit(o)
    PROVE  IInv'
<1>1. /\ pc' = [pc EXCEPT ![o] = "running"] /\ home' = [home EXCEPT ![o] = pi.last]
      /\ record' = [record EXCEPT ![o] = "pending"] /\ pc[o] = "idle" /\ host[pi.last] = "serving"
      /\ UNCHANGED <<ticket, host, owners, draining, successor, runtime, job, pi>>
  BY DEF Admit
<1>2. ticket[o] = NoTicket
  BY <1>1 DEF IInv, TicketsInv
<1>3. \A p \in Ops : /\ ticket[p].state = "open" => pc[p] \in {"reloading", "waiting"}
                     /\ pc[p] \in {"idle", "running"} => ticket[p] = NoTicket
                     /\ pc[p] = "accepted" => ticket[p].state = "published"
  BY DEF IInv, TicketsInv, OpenTicketsAreAwaited, AnswersInv
<1> QED BY <1>1, <1>2, <1>3, OperationStep, IsTyped, HostsAreNumbers DEF IInv, TypeOK, NoTicket, Ended

(* Answers are the operation's own and need a published ticket.            *)
LEMMA AnswerStep ==
    ASSUME IInv, NEW o \in Ops, NEW answer \in Ended, Answer(o, answer), pc[o] \notin {"idle"} \cup Ended,
           answer = "accepted" => ticket[o].state = "published",
           UNCHANGED <<home, host, owners, successor, runtime, job, pi>>,
           draining' \in [Hosts -> Ops \cup {NoOp}], ticket' \in Tickets,
           ticket'[o].state # "open",
           \A p \in Ops : /\ ticket'[p].by = ticket[p].by
                          /\ p # o => ticket'[p] = ticket[p]
                          /\ ticket'[p].state = "published" <=> ticket[p].state = "published"
    PROVE  IInv'
<1>1. \A p \in Ops : /\ ticket[p].state = "open" => pc[p] \in {"reloading", "waiting"}
                     /\ pc[p] \in {"idle", "running"} => ticket[p] = NoTicket
                     /\ pc[p] = "accepted" => ticket[p].state = "published"
  BY DEF IInv, TicketsInv, OpenTicketsAreAwaited, AnswersInv
<1>2. pc' = [pc EXCEPT ![o] = answer] /\ record' \in [Ops -> {"previous", "pending", "candidate"}]
  BY DEF Answer, IInv, TypeOK
<1>3. pc' \in [Ops -> {"idle", "running", "reloading", "waiting"} \cup Ended]
  BY <1>2 DEF IInv, TypeOK
<1>4. home' \in [Ops -> 0..MaxHosts]
  BY DEF IInv, TypeOK
<1> QED BY <1>1, <1>2, <1>3, <1>4, OperationStep DEF Ended, IInv, TypeOK

LEMMA OpenTicketStep ==
    ASSUME IInv, NEW o \in Ops, OpenTicket(o)
    PROVE  IInv'
<1>0. /\ pc[o] = "running" /\ ticket[o] = NoTicket /\ ticket \in Tickets /\ home[o] \in 0..MaxHosts
      /\ UNCHANGED <<home, host, owners, successor, runtime, job, pi>>
  BY IsTyped DEF OpenTicket, IInv, TicketsInv, TypeOK
<1>1. CASE Answer(o, "refused") /\ UNCHANGED <<ticket, draining>>
  BY <1>0, <1>1, AnswerStep DEF NoTicket, Ended, IInv, TypeOK
<1>2. CASE /\ draining' = [draining EXCEPT ![home[o]] = o] /\ ticket' = [ticket EXCEPT ![o].state = "failed"]
           /\ Answer(o, "refused")
  <2>1. /\ ticket' \in Tickets /\ ticket'[o].state = "failed" /\ ticket'[o].by = ticket[o].by
        /\ \A p \in Ops : p # o => ticket'[p] = ticket[p]
    BY <1>0, <1>2 DEF Tickets
  <2>2. draining' \in [Hosts -> Ops \cup {NoOp}]
    BY <1>2 DEF IInv, TypeOK
  <2>3. \A p \in Ops : /\ ticket'[p].by = ticket[p].by
                       /\ p # o => ticket'[p] = ticket[p]
                       /\ ticket'[p].state = "published" <=> ticket[p].state = "published"
    BY <1>0, <2>1 DEF NoTicket
  <2>4. Answer(o, "refused") /\ "refused" \in Ended /\ pc[o] \notin {"idle"} \cup Ended
    BY <1>0, <1>2 DEF Ended
  <2> QED BY <1>0, <2>1, <2>2, <2>3, <2>4, AnswerStep
<1>3. CASE /\ draining' = [draining EXCEPT ![home[o]] = o] /\ ticket' = [ticket EXCEPT ![o].state = "open"]
           /\ pc' = [pc EXCEPT ![o] = "reloading"] /\ UNCHANGED record
  <2>1. /\ ticket' \in Tickets /\ ticket'[o].state = "open" /\ ticket'[o].by = ticket[o].by
        /\ \A p \in Ops : p # o => ticket'[p] = ticket[p]
    BY <1>0, <1>3 DEF Tickets
  <2>2. draining' \in [Hosts -> Ops \cup {NoOp}] /\ record' \in [Ops -> {"previous", "pending", "candidate"}]
        /\ home' \in [Ops -> 0..MaxHosts]
        /\ pc' \in [Ops -> {"idle", "running", "reloading", "waiting"} \cup Ended]
    BY <1>0, <1>3 DEF IInv, TypeOK
  <2>3. \A p \in Ops : /\ ticket[p].state = "open" => pc[p] \in {"reloading", "waiting"}
                       /\ pc[p] \in {"idle", "running"} => ticket[p] = NoTicket
                       /\ pc[p] = "accepted" => ticket[p].state = "published"
    BY DEF IInv, TicketsInv, OpenTicketsAreAwaited, AnswersInv
  <2>4. pc'[o] = "reloading" /\ \A p \in Ops : p # o => pc'[p] = pc[p]
    BY <1>3 DEF IInv, TypeOK
  <2> QED BY <1>0, <2>1, <2>2, <2>3, <2>4, OperationStep DEF NoTicket
<1> QED BY <1>1, <1>2, <1>3 DEF OpenTicket

LEMMA EndingSteps ==
    ASSUME IInv, NEW o \in Ops, ReloadIsRejected(o) \/ Wait(o) \/ AbortWait(o)
    PROVE  IInv'
<1>0. /\ ticket \in Tickets /\ draining' \in [Hosts -> Ops \cup {NoOp}]
      /\ UNCHANGED <<home, host, owners, successor, runtime, job, pi>>
      /\ pc[o] \notin {"idle"} \cup Ended
  BY IsTyped DEF ReloadIsRejected, Wait, AbortWait, IInv, TypeOK, Ended
<1>1. CASE ticket' = Failed(ticket, o) /\ Answer(o, "refused")
  <2>1. /\ ticket' \in Tickets /\ ticket'[o].state # "open"
        /\ \A p \in Ops : /\ ticket'[p].by = ticket[p].by
                          /\ \/ ticket'[p] = ticket[p]
                             \/ p = o /\ ticket[p].state = "open" /\ ticket'[p].state = "failed"
    BY <1>0, <1>1, FailedTickets, OpsAssumption
  <2>2. \A p \in Ops : /\ ticket'[p].by = ticket[p].by
                       /\ p # o => ticket'[p] = ticket[p]
                       /\ ticket'[p].state = "published" <=> ticket[p].state = "published"
    BY <2>1
  <2>3. "refused" \in Ended
    BY DEF Ended
  <2> QED BY <1>0, <1>1, <2>1, <2>2, <2>3, AnswerStep
<1>2. CASE Wait(o)
  BY <1>0, <1>2, AnswerStep DEF Wait, Ended
<1> QED BY <1>1, <1>2 DEF ReloadIsRejected, AbortWait

-----------------------------------------------------------------------------
(* The hosts.                                                              *)
Agrees(r) == /\ r.catalog = r.current /\ r.skills = r.current /\ r.lease = r.current
             /\ \A o \in Ops : r.current[o] # "absent" => r.mcp[o] = r.current[o]

(* A step of host h that leaves no reconstruction behind: h goes to state  *)
(* s with runtime r, keeps ticket x for Pi, and may fail tickets or, if it *)
(* was not loaded, claim one.                                              *)
HostMoves(h, s, r, x) ==
    /\ s \in {"starting", "serving", "failed", "ended", "closed"} /\ r \in Runtime /\ x \in Ops \cup {NoOp}
    /\ UNCHANGED <<pc, home, draining>>
    /\ record' \in [Ops -> {"previous", "pending", "candidate"}]
    /\ host' = [host EXCEPT ![h] = s] /\ runtime' = [runtime EXCEPT ![h] = r]
    /\ successor' = [successor EXCEPT ![h] = x] /\ owners' \subseteq Hosts
    /\ ticket' \in Tickets
    /\ h <= pi.last /\ (host[h] = "absent" => h = pi.last)
    /\ s = "starting" => host[h] = "absent"
    /\ r.current = runtime[h].current \/ host[h] = "starting"
    /\ r.quiesced \/ Agrees(r)
    /\ x # NoOp => ticket'[x].by = h /\ r.current[x] = "candidate" /\ s # "starting"
    /\ \A o \in Ops : \/ ticket'[o] = ticket[o]
                      \/ /\ ticket[o].state = "open" /\ ticket'[o].state \in {"open", "failed"}
                         /\ \/ ticket'[o].by = ticket[o].by
                            \/ ticket[o].by = 0 /\ ticket'[o].by = h /\ host[h] = "absent"
    /\ \A o, p \in Ops : host[h] = "absent" /\ ticket'[o].by = h /\ ticket'[p].by = h => o = p
    /\ pi' \in [last : Hosts, phase : {"idle", "start", "discover"}, for : Ops \cup {NoOp}]
    /\ pi'.last = pi.last /\ (pi'.phase = pi.phase \/ h = pi.last)
    /\ job' \in [of : Job, tried : SUBSET Ops]
    /\ job'.of = Idle \/ (job' = job /\ host[h] # "starting")

LEMMA HostStep ==
    ASSUME IInv, NEW h \in Hosts, NEW s, NEW r, NEW x, HostMoves(h, s, r, x)
    PROVE  IInv'
<1> USE DEF HostMoves
<1>0. /\ pi.last \in Nat /\ h \in Nat /\ h # 0 /\ h \in 0..MaxHosts
      /\ \A o \in Ops : ticket[o].by \in Nat /\ home[o] \in Nat
      /\ host \in [Hosts -> {"absent", "starting", "serving", "failed", "ended", "closed"}]
      /\ runtime \in [Hosts -> Runtime] /\ successor \in [Hosts -> Ops \cup {NoOp}]
  BY IsTyped, HostsAreNumbers DEF IInv, TypeOK
<1>1. /\ host'[h] = s /\ runtime'[h] = r /\ successor'[h] = x
      /\ \A g \in Hosts : g # h => /\ host'[g] = host[g] /\ runtime'[g] = runtime[g]
                                   /\ successor'[g] = successor[g]
  BY <1>0
<1>2. host[h] = "absent" => \A o \in Ops : ticket[o].by # h /\ home[o] # h
  BY DEF IInv, HostsInv
<1>3. job'.of # Idle => h # pi.last
  BY DEF IInv, TypeOK
<1>4. TypeOK'
  <2>1. /\ host' \in [Hosts -> {"absent", "starting", "serving", "failed", "ended", "closed"}]
        /\ runtime' \in [Hosts -> Runtime] /\ successor' \in [Hosts -> Ops \cup {NoOp}]
    BY <1>0
  <2>2. job'.of # Idle => host'[pi'.last] = "starting"
    BY <1>1, <1>3, IsTyped DEF IInv, TypeOK
  <2>3. ASSUME NEW g \in Hosts, successor'[g] # NoOp
        PROVE  ticket'[successor'[g]].by = g
    <3>1. CASE g = h
      BY <1>1, <2>3, <3>1
    <3>2. CASE g # h
      <4>1. successor[g] \in Ops /\ ticket[successor[g]].by = g /\ g # 0
        BY <1>0, <1>1, <2>3, <3>2, HostsAreNumbers DEF IInv, TypeOK
      <4> QED BY <1>1, <3>2, <4>1
    <3> QED BY <3>1, <3>2
  <2> QED BY <2>1, <2>2, <2>3 DEF IInv, TypeOK, Tickets
<1>5. HostsInv'
  <2>1. \A g \in Hosts : g > pi'.last => host'[g] = "absent"
    BY <1>0, <1>1 DEF IInv, HostsInv
  <2>2. ASSUME NEW g \in Hosts, host'[g] = "absent"
        PROVE  /\ runtime'[g] = Fresh /\ successor'[g] = NoOp
               /\ \A o \in Ops : ticket'[o].by # g /\ home'[o] # g
    <3>1. g # h /\ host[g] = "absent" /\ g # 0
      BY <1>1, <2>2, HostsAreNumbers
    <3> QED BY <1>1, <3>1 DEF IInv, HostsInv
  <2>3. pi'.phase # "start" => host'[pi'.last] # "absent"
    BY <1>1, IsTyped DEF IInv, HostsInv
  <2> QED BY <2>1, <2>2, <2>3 DEF IInv, HostsInv
<1>6. TicketsInv'
  <2>1. \A o \in Ops : ticket'[o].state = "open" => ticket[o].state = "open"
    OBVIOUS
  <2>2. \A o \in Ops : ticket[o].state = "open" => pc[o] \notin {"idle", "running"}
    BY DEF IInv, TicketsInv, NoTicket
  <2>3. \A o \in Ops : ticket'[o].by # ticket[o].by => home[o] < h /\ ticket'[o].by = h
    BY <1>0, <1>2 DEF IInv, HostsInv
  <2>4. ASSUME NEW o \in Ops, NEW q \in Ops, ticket'[o].by = ticket'[q].by, ticket'[o].by # 0
        PROVE  o = q
    <3>0. ticket[o].by = ticket[q].by /\ ticket[o].by # 0 => o = q
      BY DEF IInv, TicketsInv
    <3>1. CASE ticket'[o].by = ticket[o].by /\ ticket'[q].by = ticket[q].by
      BY <2>4, <3>0, <3>1
    <3>2. CASE ~(ticket'[o].by = ticket[o].by /\ ticket'[q].by = ticket[q].by)
      BY <2>4, <3>2
    <3> QED BY <3>1, <3>2
  <2>5. \A o \in Ops : ticket'[o].by # 0 => ticket'[o].by > home'[o]
    BY <1>0, <2>3 DEF IInv, TicketsInv
  <2> QED BY <2>1, <2>2, <2>4, <2>5 DEF IInv, TicketsInv, OpenTicketsAreAwaited
<1>7. JobInv'
  <2>1. job'.of # Idle => UNCHANGED job /\ Here' = Here /\ pi'.last = pi.last /\ h # pi.last
    BY <1>1, <1>3, IsTyped DEF Here
  <2>2. job'.of # Idle => host[h] # "absent"
    BY <1>0, <2>1
  <2> QED BY <2>1, <2>2 DEF IInv, JobInv
<1>8. AnswersInv'
  <2>1. ASSUME NEW g \in Hosts, NEW o \in Ops, Activated(g, o), ticket'[o] = ticket[o] \/ ticket[o].by # 0
        PROVE  Activated(g, o)'
    <3>1. ticket'[o].by = g
      BY <2>1, HostsAreNumbers DEF Activated
    <3>2. host'[g] \notin {"absent", "starting"} /\ runtime'[g].current = runtime[g].current
      BY <1>1, <2>1 DEF Activated
    <3> QED BY <2>1, <3>1, <3>2 DEF Activated
  <2>2. ASSUME NEW g \in Hosts, successor'[g] # NoOp
        PROVE  Activated(g, successor[g])'
    <3>1. CASE g # h
      <4>1. successor[g] \in Ops /\ Activated(g, successor[g]) /\ ticket[successor[g]].by # 0
        BY <1>0, <1>1, <2>2, <3>1, HostsAreNumbers DEF IInv, AnswersInv, Activated
      <4>2. Activated(g, successor[g])' <=> /\ ticket'[successor[g]].by = g
                                       /\ runtime'[g].current[successor[g]] = "candidate"
                                       /\ host'[g] \notin {"absent", "starting"}
        BY <1>1, <3>1 DEF Activated
      <4> QED BY <1>1, <3>1, <4>1, <4>2 DEF Activated
    <3>2. CASE g = h
      BY <1>1, <2>2, <3>2 DEF Activated
    <3> QED BY <3>1, <3>2
  <2>3. \A o \in Ops : ticket'[o].state = "published" => ticket'[o] = ticket[o]
    OBVIOUS
  <2>4. \A o \in Ops : ticket'[o].state = "published" => \E g \in Hosts : Activated(g, o)'
    BY <2>1, <2>3 DEF IInv, AnswersInv
  <2>5. \A o \in Ops : pc'[o] = "accepted" => ticket'[o].state = "published"
    BY DEF IInv, AnswersInv
  <2> QED BY <2>2, <2>4, <2>5 DEF AnswersInv, Activated
<1>9. PiEventsSeeWhole'
  BY <1>0, <1>1 DEF IInv, PiEventsSeeWhole, Agrees
<1> QED BY <1>4, <1>5, <1>6, <1>7, <1>8, <1>9 DEF IInv

LEMMA StartingHoldsNothing ==
    ASSUME IInv, host[pi.last] \in {"absent", "starting"}
    PROVE  /\ successor[pi.last] = NoOp
           /\ \A o \in Ops : ticket[o].by = pi.last => ticket[o].state # "published"
BY IsTyped DEF IInv, AnswersInv, Activated

LEMMA FreshIs ==
    /\ Fresh.quiesced = TRUE /\ Agrees([Fresh EXCEPT !.quiesced = FALSE])
    /\ \A flag \in BOOLEAN : [Fresh EXCEPT !.quiesced = flag].current = Fresh.current
<1>1. Fresh.quiesced = TRUE
  BY DEF Fresh, Whole
<1>2. Agrees([Fresh EXCEPT !.quiesced = FALSE])
  BY DEF Agrees, Fresh, Whole
<1>3. Fresh \in Runtime
  BY RuntimesTyped
<1>4. \A flag \in BOOLEAN : [Fresh EXCEPT !.quiesced = flag].current = Fresh.current
  BY <1>3 DEF Runtime
<1> QED BY <1>1, <1>2, <1>4

(* What is left of the runtime of a host that Pi shuts down.               *)
Left == [Fresh EXCEPT !.current = Here.current, !.committed = Here.committed,
                      !.ended = IF host[pi.last] = "serving" THEN Runs(Here) ELSE Nothing]

LEMMA LeftIs ==
    ASSUME IInv
    PROVE  /\ Left \in Runtime /\ Left.quiesced = TRUE
           /\ Left.current = Here.current /\ Left.committed = Here.committed
           /\ \A o \in Ops : Left.catalog[o] = "absent" /\ Left.ended[o] \in {"absent", Runs(Here)[o]}
           /\ host[pi.last] # "serving" => \A o \in Ops : Left.ended[o] = "absent"
<1> DEFINE final == IF host[pi.last] = "serving" THEN Runs(Here) ELSE Nothing
<1>1. Here \in Runtime
  BY IsTyped DEF Here
<1>2. Runs(Here) \in Plugins /\ Nothing \in Plugins
  BY <1>1 DEF Runs, Nothing, Plugins, Revisions, Runtime
<1>3. /\ final \in Plugins
      /\ \A o \in Ops : final[o] \in {"absent", Runs(Here)[o]}
      /\ host[pi.last] # "serving" => \A o \in Ops : final[o] = "absent"
  BY <1>2 DEF Nothing
<1> HIDE DEF final
<1>4. /\ Fresh \in Runtime /\ Fresh.quiesced = TRUE /\ \A o \in Ops : Fresh.catalog[o] = "absent"
  BY RuntimesTyped DEF Fresh, Whole, Nothing
<1>5. Here.current \in Plugins /\ Here.committed \in Plugins
  BY <1>1 DEF Runtime, Plugins
<1> DEFINE r == [Fresh EXCEPT !.current = Here.current, !.committed = Here.committed, !.ended = final]
<1>6. /\ r \in Runtime /\ r.quiesced = TRUE /\ r.current = Here.current /\ r.committed = Here.committed
      /\ r.catalog = Fresh.catalog /\ r.ended = final
  BY <1>3, <1>4, <1>5 DEF Runtime, Plugins
<1>7. Left = r
  BY DEF Left, final
<1> QED BY <1>3, <1>4, <1>6, <1>7

LEMMA CloseStep ==
    ASSUME IInv, NEW h \in Hosts, FinalClose(h)
    PROVE  IInv'
<1>1. /\ host[h] = "ended" /\ host' = [host EXCEPT ![h] = "closed"]
      /\ ticket' = Failed(ticket, successor[h]) /\ successor' = [successor EXCEPT ![h] = NoOp]
      /\ owners' = owners \ {h} /\ UNCHANGED <<pc, home, record, draining, runtime, job, pi>>
  BY DEF FinalClose
<1>2. ticket \in Tickets /\ successor[h] \in Ops \cup {NoOp}
  BY IsTyped DEF IInv, TypeOK
<1>3. /\ ticket' \in Tickets
      /\ \A o \in Ops : \/ ticket'[o] = ticket[o]
                        \/ /\ ticket[o].state = "open" /\ ticket'[o].state \in {"open", "failed"}
                           /\ ticket'[o].by = ticket[o].by
  BY <1>1, <1>2, FailedTickets
<1>4. h <= pi.last
  <2>1. h \in Nat /\ pi.last \in Nat
    BY IsTyped, HostsAreNumbers
  <2> QED BY <1>1, <2>1 DEF IInv, HostsInv
<1>5. /\ runtime[h] \in Runtime /\ runtime' = [runtime EXCEPT ![h] = runtime[h]]
      /\ runtime[h].quiesced \/ Agrees(runtime[h])
  BY <1>1, IsTyped DEF IInv, PiEventsSeeWhole, Agrees
<1>6. /\ record' \in [Ops -> {"previous", "pending", "candidate"}] /\ owners' \subseteq Hosts
      /\ pi' \in [last : Hosts, phase : {"idle", "start", "discover"}, for : Ops \cup {NoOp}]
      /\ job' \in [of : Job, tried : SUBSET Ops]
  BY <1>1 DEF IInv, TypeOK
<1>7. HostMoves(h, "closed", runtime[h], NoOp)
  BY <1>1, <1>3, <1>4, <1>5, <1>6 DEF HostMoves
<1> QED BY <1>7, HostStep

LEMMA StartFailsStep ==
    ASSUME IInv, StartFails
    PROVE  IInv'
<1> DEFINE r == [runtime[pi.last] EXCEPT !.quiesced = TRUE]
<1>1. /\ host[pi.last] = "starting" /\ job.of = Idle /\ host' = [host EXCEPT ![pi.last] = "failed"]
      /\ ticket' = Failed(ticket, Claim(pi.last)) /\ owners' = owners \ {pi.last}
      /\ runtime' = [runtime EXCEPT ![pi.last].quiesced = TRUE]
      /\ pi' = [pi EXCEPT !.phase = "discover"] /\ UNCHANGED <<pc, home, record, draining, successor, job>>
  BY DEF StartFails
<1>2. ticket \in Tickets /\ Claim(pi.last) \in Ops \cup {NoOp} /\ pi.last \in Hosts /\ pi.last <= pi.last
  BY IsTyped, ClaimIsUnique
<1>3. /\ ticket' \in Tickets
      /\ \A o \in Ops : \/ ticket'[o] = ticket[o]
                        \/ /\ ticket[o].state = "open" /\ ticket'[o].state \in {"open", "failed"}
                           /\ ticket'[o].by = ticket[o].by
  BY <1>1, <1>2, FailedTickets
<1>4. successor' = [successor EXCEPT ![pi.last] = NoOp]
  BY <1>1, <1>2, StartingHoldsNothing DEF IInv, TypeOK
<1>5. runtime[pi.last] \in Runtime
  BY IsTyped
<1>6. r \in Runtime /\ r.quiesced = TRUE
  BY <1>5, QuiescedIsTyped DEF Runtime
<1>7. runtime' = [runtime EXCEPT ![pi.last] = r]
  BY <1>1, IsTyped DEF Runtime
<1>8. /\ record' \in [Ops -> {"previous", "pending", "candidate"}] /\ owners' \subseteq Hosts
      /\ pi' \in [last : Hosts, phase : {"idle", "start", "discover"}, for : Ops \cup {NoOp}]
      /\ pi'.last = pi.last
      /\ job' \in [of : Job, tried : SUBSET Ops] /\ job'.of = Idle
  BY <1>1 DEF IInv, TypeOK
<1> HIDE DEF r
<1>9. HostMoves(pi.last, "failed", r, NoOp)
  BY <1>1, <1>2, <1>3, <1>4, <1>6, <1>7, <1>8 DEF HostMoves
<1> QED BY <1>2, <1>9, HostStep

LEMMA StartSessionStep ==
    ASSUME IInv, StartSession
    PROVE  IInv'
<1> DEFINE o == Claims
           claimed == [p \in Ops |-> IF p = o THEN [ticket[p] EXCEPT !.by = pi.last] ELSE ticket[p]]
           r == [Fresh EXCEPT !.quiesced = FALSE]
<1>0. /\ host[pi.last] = "absent" /\ UNCHANGED <<pc, home, record, draining, successor, job>>
  BY DEF StartSession
<1>1. /\ o \in Ops \cup {NoOp} /\ (o # NoOp => ticket[o].state = "open" /\ ticket[o].by = 0)
      /\ pi.last \in Hosts /\ pi.last <= pi.last /\ ticket \in Tickets
  BY ClaimsOne, IsTyped
<1> HIDE DEF o
<1>2. /\ claimed \in Tickets
      /\ \A p \in Ops : /\ claimed[p].state = ticket[p].state
                        /\ p # o => claimed[p] = ticket[p]
                        /\ p = o => claimed[p].by = pi.last
  BY <1>1, HostsAreNumbers DEF Tickets
<1>3. \A p \in Ops : ticket[p].by # pi.last
  BY <1>0, <1>1 DEF IInv, HostsInv
<1> HIDE DEF claimed
<1>4. Failed(claimed, o) \in Tickets /\ \A p \in Ops : /\ Failed(claimed, o)[p].by = claimed[p].by
                             /\ \/ Failed(claimed, o)[p] = claimed[p]
                                \/ /\ p = o /\ claimed[p].state = "open"
                                   /\ Failed(claimed, o)[p].state = "failed"
  BY <1>1, <1>2, FailedTickets
<1>5. runtime[pi.last] = Fresh /\ runtime \in [Hosts -> Runtime] /\ Fresh \in Runtime
  BY <1>0, <1>1, IsTyped, RuntimesTyped DEF IInv, HostsInv
<1>6. /\ r \in Runtime /\ Agrees(r) /\ r.current = Fresh.current
      /\ [runtime EXCEPT ![pi.last].quiesced = FALSE] = [runtime EXCEPT ![pi.last] = r]
      /\ Fresh.quiesced
  BY <1>5, FreshIs, QuiescedIsTyped
<1>7. runtime = [runtime EXCEPT ![pi.last] = Fresh]
  BY <1>1, <1>5
<1>8. successor' = [successor EXCEPT ![pi.last] = NoOp]
  BY <1>0, <1>1, StartingHoldsNothing DEF IInv, TypeOK
<1>9. /\ record' \in [Ops -> {"previous", "pending", "candidate"}] /\ owners \subseteq Hosts
      /\ [pi EXCEPT !.phase = "discover"] \in [last : Hosts, phase : {"idle", "start", "discover"}, for : Ops \cup {NoOp}]
      /\ [pi EXCEPT !.phase = "discover"].last = pi.last
      /\ pi \in [last : Hosts, phase : {"idle", "start", "discover"}, for : Ops \cup {NoOp}]
      /\ job' \in [of : Job, tried : SUBSET Ops] /\ job'.of = Idle
  BY <1>0 DEF IInv, TypeOK
<1> HIDE DEF r
<1>10. CASE /\ host' = [host EXCEPT ![pi.last] = "failed"] /\ pi' = [pi EXCEPT !.phase = "discover"]
            /\ UNCHANGED <<ticket, owners, runtime>>
  <2>1. HostMoves(pi.last, "failed", Fresh, NoOp)
    BY <1>0, <1>1, <1>3, <1>5, <1>6, <1>7, <1>8, <1>9, <1>10 DEF HostMoves
  <2> QED BY <1>1, <2>1, HostStep
<1>11. CASE /\ owners' = owners \cup {pi.last} /\ ticket' = claimed
            /\ host' = [host EXCEPT ![pi.last] = "starting"]
            /\ runtime' = [runtime EXCEPT ![pi.last].quiesced = FALSE] /\ UNCHANGED pi
  <2>1. \A p \in Ops : \/ ticket'[p] = ticket[p]
                        \/ /\ ticket[p].state = "open" /\ ticket'[p].state = "open"
                           /\ ticket[p].by = 0 /\ ticket'[p].by = pi.last
    BY <1>1, <1>2, <1>11, OpsAssumption
  <2>2. \A p, q \in Ops : ticket'[p].by = pi.last /\ ticket'[q].by = pi.last => p = q
    BY <1>2, <1>3, <1>11
  <2>3. HostMoves(pi.last, "starting", r, NoOp)
    BY <1>0, <1>1, <1>2, <1>5, <1>6, <1>8, <1>9, <1>11, <2>1, <2>2 DEF HostMoves
  <2> QED BY <1>1, <2>3, HostStep
<1>12. CASE /\ ticket' = Failed(claimed, o) /\ host' = [host EXCEPT ![pi.last] = "failed"]
            /\ pi' = [pi EXCEPT !.phase = "discover"] /\ UNCHANGED <<owners, runtime>>
  <2>1. \A p \in Ops : \/ ticket'[p] = ticket[p]
                        \/ /\ ticket[p].state = "open" /\ ticket'[p].state \in {"open", "failed"}
                           /\ ticket[p].by = 0 /\ ticket'[p].by = pi.last
    BY <1>1, <1>2, <1>4, <1>12, OpsAssumption
  <2>2. \A p, q \in Ops : ticket'[p].by = pi.last /\ ticket'[q].by = pi.last => p = q
    BY <1>2, <1>3, <1>4, <1>12
  <2>3. HostMoves(pi.last, "failed", Fresh, NoOp)
    BY <1>0, <1>1, <1>4, <1>5, <1>6, <1>7, <1>8, <1>9, <1>12, <2>1, <2>2 DEF HostMoves
  <2> QED BY <1>1, <2>3, HostStep
<1> QED BY <1>10, <1>11, <1>12 DEF StartSession, o, claimed

LEMMA ShutdownStep ==
    ASSUME IInv, Shutdown
    PROVE  IInv'
<1> DEFINE r == Left
           n == pi.last + 1
<1>1. /\ pi.phase = "idle" /\ pi.last < MaxHosts
      /\ \E o \in Ops \cup {NoOp} : pi' = [last |-> n, phase |-> "start", for |-> o]
      /\ host' = [host EXCEPT ![pi.last] = "ended"] /\ runtime' = [runtime EXCEPT ![pi.last] = r]
      /\ job' = [of |-> Idle, tried |-> {}]
      /\ UNCHANGED <<pc, home, record, ticket, owners, draining, successor>>
  BY DEF Shutdown, Left
<1>2. /\ pi.last \in Hosts /\ pi.last \in Nat /\ n \in Hosts /\ n \in Nat /\ n > pi.last
      /\ runtime \in [Hosts -> Runtime]
      /\ host \in [Hosts -> {"absent", "starting", "serving", "failed", "ended", "closed"}]
  BY <1>1, IsTyped, HostsAreNumbers DEF Hosts, IInv, TypeOK
<1>3. r \in Runtime /\ r.quiesced = TRUE /\ r.current = runtime[pi.last].current
  BY LeftIs DEF Here
<1> HIDE DEF r
<1>4. pi' \in [last : Hosts, phase : {"idle", "start", "discover"}, for : Ops \cup {NoOp}]
      /\ pi'.last = n /\ pi'.phase = "start"
  BY <1>1, <1>2
<1>5. job' \in [of : Job, tried : SUBSET Ops] /\ job'.of = Idle
  BY <1>1 DEF Job
<1>6. /\ host'[pi.last] = "ended" /\ runtime'[pi.last] = r
      /\ \A g \in Hosts : g # pi.last => host'[g] = host[g] /\ runtime'[g] = runtime[g]
      /\ host[pi.last] # "absent"
  BY <1>1, <1>2 DEF IInv, HostsInv
<1>7. TypeOK'
  <2>1. /\ host' \in [Hosts -> {"absent", "starting", "serving", "failed", "ended", "closed"}]
        /\ runtime' \in [Hosts -> Runtime]
    BY <1>1, <1>2, <1>3
  <2> QED BY <1>1, <1>4, <1>5, <2>1 DEF IInv, TypeOK
<1>8. HostsInv'
  <2>1. \A g \in Hosts : g > n => g > pi.last
    BY <1>2, HostsAreNumbers
  <2>2. \A o \in Ops : home[o] <= n
    BY <1>2, IsTyped DEF IInv, HostsInv
  <2>3. \A g \in Hosts : host'[g] = "absent" => g # pi.last /\ host[g] = "absent"
    BY <1>6
  <2>4. \A g \in Hosts : g > pi'.last => host'[g] = "absent"
    BY <1>2, <1>4, <1>6, <2>1 DEF IInv, HostsInv
  <2>5. \A g \in Hosts : host'[g] = "absent" =>
           /\ runtime'[g] = Fresh /\ successor'[g] = NoOp
           /\ \A o \in Ops : ticket'[o].by # g /\ home'[o] # g
    BY <1>1, <1>6, <2>3 DEF IInv, HostsInv
  <2> QED BY <1>1, <1>4, <2>2, <2>4, <2>5 DEF HostsInv
<1>9. TicketsInv' /\ JobInv'
  BY <1>1, <1>5 DEF IInv, TicketsInv, OpenTicketsAreAwaited, JobInv
<1>10. AnswersInv'
  <2>1. \A g \in Hosts, o \in Ops : Activated(g, o) => Activated(g, o)'
    BY <1>1, <1>3, <1>6 DEF Activated
  <2>2. \A g \in Hosts : successor[g] \in Ops \cup {NoOp} /\ successor'[g] = successor[g]
    BY <1>1 DEF IInv, TypeOK
  <2> QED BY <1>1, <2>1, <2>2 DEF IInv, AnswersInv
<1>11. PiEventsSeeWhole'
  BY <1>3, <1>6 DEF IInv, PiEventsSeeWhole
<1> QED BY <1>7, <1>8, <1>9, <1>10, <1>11 DEF IInv

-----------------------------------------------------------------------------
(* The reconstruction, in the host that is starting.                       *)
LEMMA RebuildStep ==
    ASSUME IInv, host[pi.last] = "starting", NEW r \in Runtime,
           runtime' = [runtime EXCEPT ![pi.last] = r], r.quiesced \/ Agrees(r),
           UNCHANGED <<pc, home, ticket, host, owners, draining, successor, pi>>,
           record' \in [Ops -> {"previous", "pending", "candidate"}],
           job' \in [of : Job, tried : SUBSET Ops], JobInv'
    PROVE  IInv'
<1>1. /\ pi.last \in Hosts /\ runtime \in [Hosts -> Runtime] /\ runtime'[pi.last] = r
      /\ \A g \in Hosts : g # pi.last => runtime'[g] = runtime[g]
  BY IsTyped
<1>2. TypeOK'
  BY <1>1 DEF IInv, TypeOK
<1>3. HostsInv' /\ TicketsInv'
  BY <1>1 DEF IInv, HostsInv, TicketsInv, OpenTicketsAreAwaited
<1>4. AnswersInv'
  <2>1. \A g \in Hosts, o \in Ops : Activated(g, o) => Activated(g, o)'
    BY <1>1 DEF Activated
  <2>2. \A g \in Hosts : successor[g] \in Ops \cup {NoOp}
    BY DEF IInv, TypeOK
  <2> QED BY <2>1, <2>2 DEF IInv, AnswersInv
<1>5. PiEventsSeeWhole'
  BY <1>1 DEF IInv, PiEventsSeeWhole, Agrees
<1> QED BY <1>2, <1>3, <1>4, <1>5 DEF IInv

(* What a reconstruction leaves agrees or is quiesced, and one for the host*)
(* that succeeded runs the candidate of the ticket it claimed.             *)
LEMMA PerformedStep ==
    ASSUME IInv, host[pi.last] = "starting", NEW ok \in BOOLEAN, NEW o \in Ops \cup {NoOp}, Performed(ok, o),
           NEW r \in Runtime, runtime' = [runtime EXCEPT ![pi.last] = r], r.quiesced \/ Agrees(r),
           ok /\ o = NoOp => \A p \in Ops : ticket[p].by = pi.last => r.current[p] = "candidate"
    PROVE  IInv'
<1> DEFINE t == Claim(pi.last)
<1>1. /\ pi.last \in Hosts /\ pi.last <= pi.last /\ ticket \in Tickets /\ t \in Ops \cup {NoOp}
      /\ t # NoOp => ticket[t].by = pi.last
  BY IsTyped, ClaimIsUnique
<1>2. job' \in [of : Job, tried : SUBSET Ops] /\ job'.of = Idle
  <2>1. job.tried \subseteq Ops
    BY DEF IInv, TypeOK
  <2>2. job' = [of |-> Idle, tried |-> IF o = NoOp THEN {} ELSE job.tried \cup {o}]
    BY DEF Performed
  <2> QED BY <2>1, <2>2 DEF Job
<1>3. CASE o # NoOp
  <2>1. /\ UNCHANGED <<pc, home, ticket, host, owners, draining, successor, pi>>
        /\ record' \in [Ops -> {"previous", "pending", "candidate"}]
    BY <1>3 DEF Performed, IInv, TypeOK
  <2>2. JobInv'
    BY <1>2 DEF JobInv
  <2> QED BY <1>2, <2>1, <2>2, RebuildStep
<1>4. CASE o = NoOp
  <2>1. /\ host' = [host EXCEPT ![pi.last] = "serving"] /\ pi' = [pi EXCEPT !.phase = "discover"]
        /\ ticket' = IF ok THEN ticket ELSE Failed(ticket, t)
        /\ successor' = [successor EXCEPT ![pi.last] = IF ok THEN t ELSE NoOp]
        /\ UNCHANGED <<pc, home, record, owners, draining>>
    BY <1>4 DEF Performed
  <2> HIDE DEF t
  <2>2. /\ ticket' \in Tickets
        /\ \A p \in Ops : /\ \/ ticket'[p] = ticket[p]
                             \/ /\ ticket[p].state = "open" /\ ticket'[p].state \in {"open", "failed"}
                                /\ ticket'[p].by = ticket[p].by
    BY <1>1, <2>1, FailedTickets
  <2>3. /\ record' \in [Ops -> {"previous", "pending", "candidate"}] /\ owners' \subseteq Hosts
        /\ pi' \in [last : Hosts, phase : {"idle", "start", "discover"}, for : Ops \cup {NoOp}]
        /\ pi'.last = pi.last
    BY <2>1 DEF IInv, TypeOK
  <2>4. CASE ok
    <3>1. t # NoOp => ticket'[t].by = pi.last /\ r.current[t] = "candidate"
      BY <1>1, <1>4, <2>1, <2>4
    <3>2. successor' = [successor EXCEPT ![pi.last] = t]
      BY <2>1, <2>4
    <3>3. HostMoves(pi.last, "serving", r, t)
      BY <1>1, <1>2, <2>1, <2>2, <2>3, <3>1, <3>2 DEF HostMoves
    <3> QED BY <1>1, <3>3, HostStep
  <2>5. CASE ~ok
    <3>1. successor' = [successor EXCEPT ![pi.last] = NoOp]
      BY <2>1, <2>5
    <3>2. HostMoves(pi.last, "serving", r, NoOp)
      BY <1>1, <1>2, <2>1, <2>2, <2>3, <3>1 DEF HostMoves
    <3> QED BY <1>1, <3>2, HostStep
  <2> QED BY <2>4, <2>5
<1> QED BY <1>3, <1>4

Steps == {"skills", "mcp", "observe", "lease", "restore"}

LEMMA JobIs ==
    ASSUME IInv, NEW step \in Steps, At(step)
    PROVE  /\ job.of \in Building /\ job.of # Idle /\ job.tried \subseteq Ops /\ job.of.step = step
           /\ job.of.want \in Plugins /\ job.of.before \in Plugins /\ job.of.for \in Ops \cup {NoOp}
           /\ host[pi.last] = "starting" /\ Here \in Runtime /\ Here = runtime[pi.last]
<1>1. job \in [of : Job, tried : SUBSET Ops] /\ job.of.step = step /\ host[pi.last] = "starting"
  BY DEF IInv, TypeOK, At
<1>2. job.of # Idle
  BY <1>1 DEF Idle, Steps
<1>3. job.of \in Building
  BY <1>1, <1>2 DEF Job, Building, Plugins
<1>4. Here \in Runtime /\ Here = runtime[pi.last]
  BY IsTyped DEF Here
<1> QED BY <1>1, <1>2, <1>3, <1>4 DEF Building

LEMMA GoesTo ==
    ASSUME job \in [of : Job, tried : SUBSET Ops], job.of \in Building, NEW step \in Steps,
           GoTo(step) \/ job' = [job EXCEPT !.of.step = step, !.of.committed = TRUE]
    PROVE  /\ job' \in [of : Job, tried : SUBSET Ops] /\ job'.of.step = step
           /\ job'.of.want = job.of.want /\ job'.of.for = job.of.for
<1>1. CASE GoTo(step)
  <2>1. job' = [job EXCEPT !.of = [job.of EXCEPT !.step = step]]
    BY <1>1 DEF GoTo
  <2>2. [job.of EXCEPT !.step = step] \in Building
    BY DEF Building, Steps
  <2>3. [job.of EXCEPT !.step = step] \in Job
    BY <2>2 DEF Building, Job, Plugins
  <2> QED BY <2>1, <2>2, <2>3 DEF Building
<1>2. CASE job' = [job EXCEPT !.of.step = step, !.of.committed = TRUE]
  <2>1. job' = [job EXCEPT !.of = [job.of EXCEPT !.step = step, !.committed = TRUE]]
    BY <1>2
  <2>2. [job.of EXCEPT !.step = step, !.committed = TRUE] \in Building
    BY DEF Building, Steps
  <2>3. [job.of EXCEPT !.step = step, !.committed = TRUE] \in Job
    BY <2>2 DEF Building, Job, Plugins
  <2> QED BY <2>1, <2>2, <2>3 DEF Building
<1> QED BY <1>1, <1>2

(* A reconstruction goes on: JobInv is what is to be shown of the runtime r*)
(* that the step leaves.                                                   *)
GoesOn(r) ==
    /\ r.quiesced
    /\ r.catalog = job.of.want
    /\ job'.of.step \in {"mcp", "observe", "lease"} => r.skills = job.of.want
    /\ job'.of.step \in {"observe", "lease"} =>
          \A o \in Ops : job.of.want[o] # "absent" => r.mcp[o] = job.of.want[o]

LEMMA GoingOn ==
    ASSUME IInv, NEW from \in Steps, At(from), NEW step \in Steps, Rebuilding,
           GoTo(step) \/ job' = [job EXCEPT !.of.step = step, !.of.committed = TRUE],
           NEW r \in Runtime, runtime' = [runtime EXCEPT ![pi.last] = r], GoesOn(r)
    PROVE  IInv'
<1>1. /\ job.of \in Building /\ job.of # Idle /\ host[pi.last] = "starting" /\ pi.last \in Hosts
      /\ job \in [of : Job, tried : SUBSET Ops] /\ runtime \in [Hosts -> Runtime]
  BY JobIs, IsTyped DEF IInv, TypeOK
<1>2. /\ job' \in [of : Job, tried : SUBSET Ops] /\ job'.of.step = step
      /\ job'.of.want = job.of.want /\ job'.of.for = job.of.for
  BY <1>1, GoesTo
<1>3. Here' = r /\ UNCHANGED <<pi, ticket>>
  BY <1>1 DEF Here, Rebuilding
<1>4. JobInv'
  <2>1. job.of.for = NoOp => \A o \in Ops : ticket[o].by = pi.last => job.of.want[o] = "candidate"
    BY <1>1 DEF IInv, JobInv
  <2> QED BY <1>2, <1>3, <2>1 DEF JobInv, GoesOn
<1>5. /\ UNCHANGED <<pc, home, ticket, host, owners, draining, successor, pi>>
      /\ record' \in [Ops -> {"previous", "pending", "candidate"}] /\ r.quiesced
  BY DEF Rebuilding, IInv, TypeOK, GoesOn
<1> QED BY <1>1, <1>2, <1>4, <1>5, RebuildStep

LEMMA BeginStep ==
    ASSUME IInv, host[pi.last] = "starting", job.of = Idle, NEW want \in Plugins, NEW for \in Ops \cup {NoOp},
           Perform(want, for),
           for = NoOp => \A o \in Ops : ticket[o].by = pi.last => want[o] = "candidate"
    PROVE  IInv'
<1>0. /\ pi.last \in Hosts /\ runtime \in [Hosts -> Runtime] /\ Here \in Runtime /\ Here = runtime[pi.last]
      /\ job.tried \subseteq Ops
  BY IsTyped DEF Here, IInv, TypeOK
<1>1. CASE Performed(FALSE, for) /\ UNCHANGED runtime
  <2>1. runtime' = [runtime EXCEPT ![pi.last] = Here] /\ (Here.quiesced \/ Agrees(Here))
    BY <1>0, <1>1 DEF IInv, PiEventsSeeWhole, Agrees
  <2>2. FALSE \in BOOLEAN /\ ~(FALSE /\ for = NoOp)
    OBVIOUS
  <2> QED BY <1>0, <1>1, <2>1, <2>2, PerformedStep
<1>2. CASE /\ BeginCandidate(want, for)
           /\ UNCHANGED <<pc, home, record, ticket, host, owners, draining, successor, pi>>
  <2> DEFINE building == [step |-> "skills", want |-> want, before |-> Here.catalog,
                          committed |-> FALSE, for |-> for]
             r == [Here EXCEPT !.catalog = want, !.quiesced = TRUE]
  <2>1. Here.catalog \in Plugins
    BY <1>0 DEF Runtime, Plugins
  <2>2. building \in Building /\ building.step = "skills" /\ building.want = want /\ building.for = for
    BY <2>1 DEF Building
  <2>3. job' = [job EXCEPT !.of = building]
    BY <1>2 DEF BeginCandidate
  <2> HIDE DEF building
  <2>4. building \in Job
    BY <2>2 DEF Building, Job, Plugins
  <2>5. job \in [of : Job, tried : SUBSET Ops]
    BY DEF IInv, TypeOK
  <2>6. job' \in [of : Job, tried : SUBSET Ops] /\ job'.of = building
    BY <2>3, <2>4, <2>5
  <2>7. r \in Runtime /\ r.quiesced = TRUE /\ r.catalog = want
    BY <1>0 DEF Runtime, Plugins
  <2>8. runtime' = [runtime EXCEPT ![pi.last] = r]
    BY <1>0, <1>2 DEF BeginCandidate
  <2> HIDE DEF r
  <2>9. Here' = r
    BY <1>0, <1>2, <2>8 DEF Here
  <2>10. JobInv'
    BY <1>2, <2>2, <2>6, <2>7, <2>9 DEF JobInv
  <2>11. record' \in [Ops -> {"previous", "pending", "candidate"}]
    BY <1>2 DEF IInv, TypeOK
  <2> QED BY <1>2, <2>6, <2>7, <2>8, <2>10, <2>11, RebuildStep
<1> QED BY <1>1, <1>2 DEF Perform

LEMMA DesiredTyped ==
    ASSUME IInv, NEW override \in Revisions, NEW o
    PROVE  /\ Desired(override, o) \in Plugins
           /\ \A p \in Ops : p = o => Desired(override, o)[p] = override
BY DEF Desired, Plugins, Revisions, IInv, TypeOK

LEMMA BeginningSteps ==
    ASSUME IInv, Reconstruct \/ \E o \in Ops : RecoverLocal(o)
    PROVE  IInv'
<1>1. CASE Reconstruct
  <2>1. \A o \in Ops : ticket[o].by = pi.last => Claim(pi.last) = o
    BY IsTyped, ClaimIsUnique
  <2>2. "candidate" \in Revisions
    BY DEF Revisions
  <2>3. /\ Desired("candidate", Claim(pi.last)) \in Plugins
        /\ \A o \in Ops : ticket[o].by = pi.last => Desired("candidate", Claim(pi.last))[o] = "candidate"
    BY <2>1, <2>2, DesiredTyped
  <2> QED BY <1>1, <2>3, BeginStep DEF Reconstruct
<1>2. ASSUME NEW o \in Ops, RecoverLocal(o)
      PROVE  IInv'
  <2>1. "previous" \in Revisions /\ o # NoOp
    BY OpsAssumption DEF Revisions
  <2>2. Desired("previous", o) \in Plugins
    BY <2>1, DesiredTyped
  <2> QED BY <1>2, <2>1, <2>2, BeginStep DEF RecoverLocal
<1> QED BY <1>1, <1>2

LEMMA SkillsStep ==
    ASSUME IInv, ReconcileSkills
    PROVE  IInv'
<1>0. At("skills") /\ Rebuilding /\ {"skills", "mcp", "restore"} \subseteq Steps
  BY DEF ReconcileSkills, Steps
<1>1. /\ job.of \in Building /\ job.of.want \in Plugins /\ Here \in Runtime /\ Here = runtime[pi.last]
      /\ job.of # Idle /\ job.of.step = "skills" /\ runtime \in [Hosts -> Runtime] /\ pi.last \in Hosts
  BY <1>0, JobIs, IsTyped
<1>2. Here.quiesced /\ Here.catalog = job.of.want
  BY <1>1 DEF IInv, JobInv
<1>3. CASE runtime' = [runtime EXCEPT ![pi.last].skills = job.of.want] /\ GoTo("mcp")
  <2> DEFINE r == [Here EXCEPT !.skills = job.of.want]
  <2>1. r \in Runtime /\ r.quiesced = Here.quiesced /\ r.catalog = Here.catalog /\ r.skills = job.of.want
    BY <1>1 DEF Runtime, Plugins
  <2>2. runtime' = [runtime EXCEPT ![pi.last] = r]
    BY <1>1, <1>3
  <2> HIDE DEF r
  <2>3. job'.of.step = "mcp"
    BY <1>0, <1>1, <1>3, GoesTo DEF IInv, TypeOK
  <2>4. GoesOn(r)
    BY <1>2, <2>1, <2>3 DEF GoesOn
  <2> QED BY <1>0, <1>3, <2>1, <2>2, <2>4, GoingOn
<1>4. CASE GoTo("restore") /\ UNCHANGED runtime
  <2>1. runtime' = [runtime EXCEPT ![pi.last] = Here]
    BY <1>1, <1>4
  <2>2. job'.of.step = "restore"
    BY <1>0, <1>1, <1>4, GoesTo DEF IInv, TypeOK
  <2>3. GoesOn(Here)
    BY <1>2, <2>2 DEF GoesOn
  <2> QED BY <1>0, <1>1, <1>4, <2>1, <2>3, GoingOn
<1> QED BY <1>3, <1>4 DEF ReconcileSkills

LEMMA McpStep ==
    ASSUME IInv, ReconcileMcp
    PROVE  IInv'
<1>0. At("mcp") /\ Rebuilding /\ {"mcp", "observe", "restore"} \subseteq Steps
  BY DEF ReconcileMcp, Steps
<1>1. /\ job.of \in Building /\ job.of.want \in Plugins /\ Here \in Runtime /\ Here = runtime[pi.last]
      /\ job.of # Idle /\ job.of.step = "mcp" /\ runtime \in [Hosts -> Runtime] /\ pi.last \in Hosts
  BY <1>0, JobIs, IsTyped
<1>2. Here.quiesced /\ Here.catalog = job.of.want /\ Here.skills = job.of.want
  BY <1>1 DEF IInv, JobInv
<1>3. PICK done \in SUBSET Wanted :
         /\ runtime' = [runtime EXCEPT ![pi.last].mcp =
                           [o \in Ops |-> IF o \in done THEN job.of.want[o] ELSE @[o]]]
         /\ \/ done = Wanted /\ GoTo("observe")
            \/ GoTo("restore")
  BY DEF ReconcileMcp
<1> DEFINE servers == [o \in Ops |-> IF o \in done THEN job.of.want[o] ELSE Here.mcp[o]]
           r == [Here EXCEPT !.mcp = servers]
<1>4. servers \in Plugins /\ \A o \in done : servers[o] = job.of.want[o]
  BY <1>1 DEF Runtime, Plugins, Wanted
<1>5. runtime' = [runtime EXCEPT ![pi.last].mcp = servers]
  BY <1>1, <1>3
<1> HIDE DEF servers
<1>6. /\ r \in Runtime /\ r.quiesced = Here.quiesced /\ r.catalog = Here.catalog
      /\ r.skills = Here.skills /\ r.mcp = servers
  BY <1>1, <1>4 DEF Runtime, Plugins
<1>7. runtime' = [runtime EXCEPT ![pi.last] = r]
  BY <1>1, <1>5
<1> HIDE DEF r
<1>8. CASE done = Wanted /\ GoTo("observe")
  <2>1. \A o \in Ops : job.of.want[o] # "absent" => r.mcp[o] = job.of.want[o]
    BY <1>4, <1>6, <1>8 DEF Wanted
  <2>2. GoesOn(r)
    BY <1>2, <1>6, <2>1 DEF GoesOn
  <2> QED BY <1>0, <1>6, <1>7, <1>8, <2>2, GoingOn
<1>9. CASE GoTo("restore")
  <2>1. job'.of.step = "restore"
    BY <1>0, <1>1, <1>9, GoesTo DEF IInv, TypeOK
  <2>2. GoesOn(r)
    BY <1>2, <1>6, <2>1 DEF GoesOn
  <2> QED BY <1>0, <1>6, <1>7, <1>9, <2>2, GoingOn
<1> QED BY <1>3, <1>8, <1>9

LEMMA ObserveStep ==
    ASSUME IInv, Observe
    PROVE  IInv'
<1>0. At("observe") /\ Rebuilding /\ {"observe", "lease", "restore"} \subseteq Steps
  BY DEF Observe, Steps
<1>1. /\ job.of \in Building /\ job.of.want \in Plugins /\ Here \in Runtime /\ Here = runtime[pi.last]
      /\ job.of # Idle /\ job.of.step = "observe" /\ runtime \in [Hosts -> Runtime] /\ pi.last \in Hosts
  BY <1>0, JobIs, IsTyped
<1>2. /\ Here.quiesced /\ Here.catalog = job.of.want /\ Here.skills = job.of.want
      /\ \A o \in Ops : job.of.want[o] # "absent" => Here.mcp[o] = job.of.want[o]
  BY <1>1 DEF IInv, JobInv
<1>3. CASE /\ job' = [job EXCEPT !.of.step = "lease", !.of.committed = TRUE]
           /\ runtime' = [runtime EXCEPT ![pi.last].committed = job.of.want]
  <2> DEFINE r == [Here EXCEPT !.committed = job.of.want]
  <2>1. /\ r \in Runtime /\ r.quiesced = Here.quiesced /\ r.catalog = Here.catalog
        /\ r.skills = Here.skills /\ r.mcp = Here.mcp
    BY <1>1 DEF Runtime, Plugins
  <2>2. runtime' = [runtime EXCEPT ![pi.last] = r]
    BY <1>1, <1>3
  <2> HIDE DEF r
  <2>3. GoesOn(r)
    BY <1>2, <2>1 DEF GoesOn
  <2> QED BY <1>0, <1>3, <2>1, <2>2, <2>3, GoingOn
<1>4. CASE GoTo("restore") /\ UNCHANGED runtime
  <2>1. runtime' = [runtime EXCEPT ![pi.last] = Here]
    BY <1>1, <1>4
  <2>2. GoesOn(Here)
    BY <1>2 DEF GoesOn
  <2> QED BY <1>0, <1>1, <1>4, <2>1, <2>2, GoingOn
<1> QED BY <1>3, <1>4 DEF Observe

LEMMA LeaseStep ==
    ASSUME IInv, ReplaceLease
    PROVE  IInv'
<1>0. At("lease") /\ {"lease", "restore"} \subseteq Steps
  BY DEF ReplaceLease, Steps
<1>1. /\ job.of \in Building /\ job.of.want \in Plugins /\ Here \in Runtime /\ Here = runtime[pi.last]
      /\ job.of.for \in Ops \cup {NoOp} /\ host[pi.last] = "starting"
      /\ job.of # Idle /\ job.of.step = "lease" /\ runtime \in [Hosts -> Runtime] /\ pi.last \in Hosts
  BY <1>0, JobIs, IsTyped
<1>2. /\ Here.quiesced /\ Here.catalog = job.of.want /\ Here.skills = job.of.want
      /\ \A o \in Ops : job.of.want[o] # "absent" => Here.mcp[o] = job.of.want[o]
      /\ job.of.for = NoOp => \A o \in Ops : ticket[o].by = pi.last => job.of.want[o] = "candidate"
  BY <1>1 DEF IInv, JobInv
<1>3. CASE /\ runtime' = [runtime EXCEPT ![pi.last] = [@ EXCEPT !.lease = job.of.want, !.current = job.of.want,
                                                                !.quiesced = FALSE]]
           /\ Performed(TRUE, job.of.for)
  <2> DEFINE r == [Here EXCEPT !.lease = job.of.want, !.current = job.of.want, !.quiesced = FALSE]
  <2>1. /\ r \in Runtime /\ r.catalog = Here.catalog /\ r.skills = Here.skills /\ r.mcp = Here.mcp
        /\ r.lease = job.of.want /\ r.current = job.of.want
    BY <1>1 DEF Runtime, Plugins
  <2>2. runtime' = [runtime EXCEPT ![pi.last] = r]
    BY <1>1, <1>3
  <2> HIDE DEF r
  <2>3. Agrees(r)
    BY <1>2, <2>1 DEF Agrees
  <2>4. job.of.for = NoOp => \A o \in Ops : ticket[o].by = pi.last => r.current[o] = "candidate"
    BY <1>2, <2>1
  <2> QED BY <1>1, <1>3, <2>1, <2>2, <2>3, <2>4, PerformedStep
<1>4. CASE /\ \E lease \in {Here.lease, job.of.want} : runtime' = [runtime EXCEPT ![pi.last].lease = lease]
           /\ GoTo("restore") /\ Rebuilding
  <2>1. PICK lease \in {Here.lease, job.of.want} : runtime' = [runtime EXCEPT ![pi.last].lease = lease]
    BY <1>4
  <2> DEFINE r == [Here EXCEPT !.lease = lease]
  <2>2. r \in Runtime /\ r.quiesced = Here.quiesced /\ r.catalog = Here.catalog
    BY <1>1, <2>1 DEF Runtime, Plugins
  <2>3. runtime' = [runtime EXCEPT ![pi.last] = r]
    BY <1>1, <2>1
  <2> HIDE DEF r
  <2>4. job'.of.step = "restore"
    BY <1>0, <1>1, <1>4, GoesTo DEF IInv, TypeOK
  <2>5. GoesOn(r)
    BY <1>2, <2>2, <2>4 DEF GoesOn
  <2> QED BY <1>0, <1>4, <2>2, <2>3, <2>5, GoingOn
<1> QED BY <1>3, <1>4 DEF ReplaceLease

LEMMA RestoreStep ==
    ASSUME IInv, Restore
    PROVE  IInv'
<1>0. At("restore") /\ "restore" \in Steps /\ Performed(FALSE, job.of.for)
  BY DEF Restore, Steps
<1>1. /\ job.of.before \in Plugins /\ Here \in Runtime /\ Here = runtime[pi.last]
      /\ job.of.for \in Ops \cup {NoOp} /\ host[pi.last] = "starting"
      /\ runtime \in [Hosts -> Runtime] /\ pi.last \in Hosts
  BY <1>0, JobIs, IsTyped
<1>2. /\ Here.catalog \in Plugins /\ Here.skills \in Plugins /\ Here.current \in Plugins
      /\ Here.mcp \in Plugins
  BY <1>1 DEF Runtime, Plugins
<1>3. PICK skills \in {Here.skills, Here.current}, removed \in SUBSET Wanted :
         runtime' = [runtime EXCEPT ![pi.last] =
             [Here EXCEPT !.catalog = IF job.of.committed THEN Here.catalog ELSE job.of.before,
                          !.skills = skills,
                          !.mcp = [o \in Ops |-> IF o \in removed THEN "absent" ELSE Here.mcp[o]],
                          !.quiesced = TRUE]]
  BY DEF Restore
<1> DEFINE servers == [o \in Ops |-> IF o \in removed THEN "absent" ELSE Here.mcp[o]]
           catalog == IF job.of.committed THEN Here.catalog ELSE job.of.before
           r == [Here EXCEPT !.catalog = catalog, !.skills = skills, !.mcp = servers, !.quiesced = TRUE]
<1>4. runtime' = [runtime EXCEPT ![pi.last] = r]
  BY <1>3, Zenon
<1>5. servers \in Plugins /\ catalog \in Plugins /\ skills \in Plugins
  BY <1>1, <1>2, <1>3 DEF Plugins, Revisions
<1> HIDE DEF servers, catalog
<1>6. r \in Runtime /\ r.quiesced = TRUE
  BY <1>1, <1>5 DEF Runtime, Plugins
<1> HIDE DEF r
<1> QED BY <1>0, <1>1, <1>4, <1>6, PerformedStep

LEMMA DiscoverStep ==
    ASSUME IInv, Discover
    PROVE  IInv'
<1> DEFINE x == successor[pi.last]
<1>1. /\ pi.phase = "discover" /\ pi' = [pi EXCEPT !.phase = "idle", !.for = NoOp]
      /\ pc' = [o \in Ops |-> IF o = pi.for /\ pc[o] = "reloading" THEN "waiting" ELSE pc[o]]
      /\ UNCHANGED <<home, record, host, owners, draining, runtime, job>>
  BY DEF Discover
<1>2. /\ \/ UNCHANGED <<ticket, successor>>
         \/ /\ x # NoOp /\ successor' = [successor EXCEPT ![pi.last] = NoOp]
            /\ \/ ticket[x].state = "open" /\ ticket' = [ticket EXCEPT ![x].state = "published"]
               \/ ticket' = Failed(ticket, x)
  BY DEF Discover
<1>3. /\ pi.last \in Hosts /\ ticket \in Tickets /\ x \in Ops \cup {NoOp}
      /\ successor \in [Hosts -> Ops \cup {NoOp}]
      /\ x # NoOp => Activated(pi.last, x)
      /\ pi' \in [last : Hosts, phase : {"idle", "start", "discover"}, for : Ops \cup {NoOp}]
      /\ pi'.last = pi.last /\ pi'.phase = "idle" /\ host[pi.last] # "absent"
  BY <1>1, IsTyped DEF IInv, TypeOK, AnswersInv, HostsInv
<1> HIDE DEF x
<1>4. /\ successor' \in [Hosts -> Ops \cup {NoOp}]
      /\ \A h \in Hosts : successor'[h] = successor[h] \/ successor'[h] = NoOp
  BY <1>2, <1>3
<1>5. /\ ticket' \in Tickets
      /\ \A o \in Ops : /\ ticket'[o].by = ticket[o].by
                        /\ \/ ticket'[o] = ticket[o]
                           \/ /\ ticket[o].state = "open"
                              /\ \/ ticket'[o].state = "failed"
                                 \/ o = x /\ x # NoOp /\ ticket'[o].state = "published"
  <2>1. CASE UNCHANGED <<ticket, successor>>
    BY <1>3, <2>1
  <2>2. CASE x # NoOp /\ ticket[x].state = "open" /\ ticket' = [ticket EXCEPT ![x].state = "published"]
    BY <1>3, <2>2 DEF Tickets
  <2>3. CASE ticket' = Failed(ticket, x)
    BY <1>3, <2>3, FailedTickets
  <2> QED BY <1>2, <2>1, <2>2, <2>3
<1>6. \A o \in Ops : /\ pc'[o] = pc[o] \/ (pc[o] = "reloading" /\ pc'[o] = "waiting")
                     /\ ticket[o].state = "open" => pc[o] \in {"reloading", "waiting"}
  BY <1>1 DEF IInv, TicketsInv, OpenTicketsAreAwaited
<1>7. pc' \in [Ops -> {"idle", "running", "reloading", "waiting"} \cup Ended]
  BY <1>1 DEF IInv, TypeOK
<1>8. TypeOK'
  BY <1>1, <1>3, <1>4, <1>5, <1>7 DEF IInv, TypeOK, Tickets
<1>9. HostsInv'
  BY <1>1, <1>3, <1>4, <1>5 DEF IInv, HostsInv
<1>10. TicketsInv'
  <2>0. \A o \in Ops : ticket'[o].state = "open" => ticket[o].state = "open"
    BY <1>5
  <2>1. OpenTicketsAreAwaited'
    BY <1>6, <2>0 DEF OpenTicketsAreAwaited
  <2>2. ASSUME NEW o \in Ops, pc'[o] \in {"idle", "running"}
        PROVE  ticket'[o] = NoTicket
    <3>1. pc[o] \in {"idle", "running"} /\ ticket[o].state # "open"
      BY <1>6, <2>2
    <3>2. ticket[o] = NoTicket
      BY <3>1 DEF IInv, TicketsInv
    <3> QED BY <1>5, <3>1, <3>2
  <2> QED BY <1>1, <1>5, <2>1, <2>2 DEF IInv, TicketsInv
<1>11. JobInv'
  BY <1>1, <1>3, <1>5 DEF IInv, JobInv, Here
<1>12. AnswersInv'
  <2>1. \A h \in Hosts, o \in Ops : Activated(h, o) => Activated(h, o)'
    BY <1>1, <1>5 DEF Activated
  <2>2. \A h \in Hosts : successor'[h] # NoOp => Activated(h, successor[h])' /\ successor[h] \in Ops
    BY <1>3, <1>4, <2>1 DEF IInv, AnswersInv
  <2>3. \A o \in Ops : ticket'[o].state = "published" => \E h \in Hosts : Activated(h, o)'
    BY <1>3, <1>5, <2>1 DEF IInv, AnswersInv
  <2>4. ASSUME NEW o \in Ops, pc'[o] = "accepted"
        PROVE  ticket'[o].state = "published"
    <3>1. pc[o] = "accepted" /\ ticket[o].state # "open"
      BY <1>6, <2>4
    <3>2. ticket[o].state = "published"
      BY <3>1 DEF IInv, AnswersInv
    <3> QED BY <1>5, <3>1, <3>2
  <2> QED BY <2>2, <2>3, <2>4 DEF AnswersInv, Activated
<1>13. PiEventsSeeWhole'
  BY <1>1 DEF IInv, PiEventsSeeWhole
<1> QED BY <1>8, <1>9, <1>10, <1>11, <1>12, <1>13 DEF IInv

LEMMA StutterIInv == IInv /\ UNCHANGED vars => IInv'
<1> SUFFICES ASSUME IInv, UNCHANGED vars PROVE IInv'
  OBVIOUS
<1>1. UNCHANGED <<pc, home, record, ticket, host, owners, draining, successor, runtime, job, pi>>
  BY DEF vars
<1>2. TypeOK' /\ HostsInv' /\ TicketsInv'
  BY <1>1 DEF IInv, TypeOK, HostsInv, TicketsInv, OpenTicketsAreAwaited
<1>3. JobInv' /\ AnswersInv' /\ PiEventsSeeWhole'
  BY <1>1 DEF IInv, JobInv, Here, AnswersInv, Activated, PiEventsSeeWhole
<1> QED BY <1>2, <1>3 DEF IInv

LEMMA NextIInv == IInv /\ [Next]_vars => IInv'
<1> SUFFICES ASSUME IInv, [Next]_vars PROVE IInv'
  OBVIOUS
<1>1. ASSUME NEW o \in Ops, Admit(o)
      PROVE  IInv'
  BY <1>1, AdmitStep
<1>2. ASSUME NEW o \in Ops, OpenTicket(o)
      PROVE  IInv'
  BY <1>2, OpenTicketStep
<1>3. ASSUME NEW o \in Ops, ReloadIsRejected(o) \/ Wait(o) \/ AbortWait(o)
      PROVE  IInv'
  BY <1>3, EndingSteps
<1>4. ASSUME NEW h \in Hosts, FinalClose(h)
      PROVE  IInv'
  BY <1>4, CloseStep
<1>5. CASE Reconstruct \/ \E o \in Ops : RecoverLocal(o)
  BY <1>5, BeginningSteps
<1>6. CASE Shutdown
  BY <1>6, ShutdownStep
<1>7. CASE StartSession
  BY <1>7, StartSessionStep
<1>8. CASE StartFails
  BY <1>8, StartFailsStep
<1>9. CASE ReconcileSkills
  BY <1>9, SkillsStep
<1>10. CASE ReconcileMcp
  BY <1>10, McpStep
<1>11. CASE Observe
  BY <1>11, ObserveStep
<1>12. CASE ReplaceLease
  BY <1>12, LeaseStep
<1>13. CASE Restore
  BY <1>13, RestoreStep
<1>14. CASE Discover
  BY <1>14, DiscoverStep
<1>15. CASE UNCHANGED vars
  BY <1>15, StutterIInv
<1> QED
  BY <1>1, <1>2, <1>3, <1>4, <1>5, <1>6, <1>7, <1>8, <1>9, <1>10, <1>11, <1>12, <1>13, <1>14, <1>15 DEF Next

-----------------------------------------------------------------------------
(* The selection.  Hooks that are not held back by quiescence depend on the*)
(* catalog: it is the committed one, a host without plugins has none, or a *)
(* reconstruction is under way whose candidate it is.  What restore() goes *)
(* back to is committed too.                                               *)
Settled(r) == \A o \in Ops : {r.catalog[o], r.ended[o]} \subseteq {"absent", r.committed[o]}
Unserved == {"absent", "starting"}
HostsGoOn == \A h \in Hosts : host'[h] \in Unserved => host[h] \in Unserved
EndedInv ==
    \A h \in Hosts, o \in Ops :
        /\ runtime[h].ended[o] \in {"absent", runtime[h].committed[o]}
        /\ host[h] \in Unserved => runtime[h].ended[o] = "absent"
CatalogInv ==
    \A h \in Hosts : h # pi.last \/ job.of = Idle =>
        \A o \in Ops : runtime[h].catalog[o] \in {"absent", runtime[h].committed[o]}
CandidateInv ==
    job.of # Idle =>
        /\ job.of.step = "lease" => job.of.committed
        /\ \/ job.of.committed /\ Here.committed = job.of.want
           \/ /\ ~job.of.committed
              /\ \A o \in Ops : job.of.before[o] \in {"absent", Here.committed[o]}
SelectionInv == EndedInv /\ CatalogInv /\ CandidateInv

LEMMA InitSelection == Init => SelectionInv
<1> SUFFICES ASSUME Init PROVE SelectionInv
  OBVIOUS
<1>1. job.of = Idle
  BY DEF Init
<1>2. \A h \in Hosts : runtime[h] = Whole([o \in Ops |-> "previous"]) \/ runtime[h] = Fresh
  BY DEF Init
<1>3. \A h \in Hosts, o \in Ops : {runtime[h].catalog[o], runtime[h].ended[o]} \subseteq {"absent", runtime[h].committed[o]}
  BY <1>2 DEF Whole, Fresh, Nothing
<1>4. \A h \in Hosts, o \in Ops : runtime[h].ended[o] = "absent"
  BY <1>2 DEF Whole, Fresh, Nothing
<1> QED BY <1>1, <1>3, <1>4 DEF SelectionInv, EndedInv, CatalogInv, CandidateInv

(* The last host may get another runtime, as long as the selection stays   *)
(* what it is ...                                                          *)
LEMMA SelectionKept ==
    ASSUME IInv, SelectionInv, HostsGoOn, NEW r, runtime' = [runtime EXCEPT ![pi.last] = r],
           r.catalog = Here.catalog, r.committed = Here.committed, r.ended = Here.ended,
           pi'.last = pi.last, job'.of = Idle <=> job.of = Idle,
           job.of # Idle => /\ job'.of.committed = job.of.committed /\ job'.of.want = job.of.want
                            /\ job'.of.before = job.of.before
                            /\ job'.of.step = "lease" => job.of.committed
    PROVE  SelectionInv'
<1>1. /\ runtime'[pi.last] = r /\ Here' = r /\ Here = runtime[pi.last]
      /\ \A h \in Hosts : h # pi.last => runtime'[h] = runtime[h]
  BY IsTyped DEF Here
<1>2. \A h \in Hosts : /\ runtime'[h].catalog = runtime[h].catalog
                       /\ runtime'[h].committed = runtime[h].committed
                       /\ runtime'[h].ended = runtime[h].ended
  BY <1>1
<1>3. EndedInv'
  BY <1>2 DEF SelectionInv, EndedInv, HostsGoOn
<1>4. CatalogInv'
  BY <1>2 DEF SelectionInv, CatalogInv
<1>5. CandidateInv'
  BY <1>1 DEF SelectionInv, CandidateInv
<1> QED BY <1>3, <1>4, <1>5 DEF SelectionInv

(* ... or is settled by the step.                                          *)
LEMMA SelectionSettled ==
    ASSUME IInv, SelectionInv, HostsGoOn, NEW r, runtime' = [runtime EXCEPT ![pi.last] = r], Settled(r),
           job'.of = Idle, r.ended = Here.ended \/ host'[pi.last] \notin Unserved
    PROVE  SelectionInv'
<1>1. \A h \in Hosts : runtime'[h] = IF h = pi.last THEN r ELSE runtime[h]
  BY IsTyped
<1>2. EndedInv'
  <2>1. \A o \in Ops : r.ended[o] \in {"absent", r.committed[o]}
    BY DEF Settled
  <2>2. host'[pi.last] \in Unserved => \A o \in Ops : r.ended[o] = "absent"
    BY IsTyped DEF SelectionInv, EndedInv, HostsGoOn, Here
  <2> QED BY <1>1, <2>1, <2>2 DEF SelectionInv, EndedInv, HostsGoOn
<1>3. CatalogInv'
  BY <1>1 DEF SelectionInv, CatalogInv, Settled
<1>4. CandidateInv'
  BY DEF CandidateInv
<1> QED BY <1>2, <1>3, <1>4 DEF SelectionInv

(* A reconstruction that ended leaves no job.                              *)
LEMMA EndsJob ==
    ASSUME NEW ok, NEW o, Performed(ok, o)
    PROVE  job'.of = Idle
BY DEF Performed

LEMMA StillSelection ==
    ASSUME IInv, SelectionInv, HostsGoOn, UNCHANGED <<runtime, job>>, pi'.last = pi.last
    PROVE  SelectionInv'
BY DEF HostsGoOn, SelectionInv, EndedInv, CatalogInv, CandidateInv, Here

LEMMA ShutdownSelection ==
    ASSUME IInv, SelectionInv, HostsGoOn, Shutdown
    PROVE  SelectionInv'
<1>1. /\ runtime' = [runtime EXCEPT ![pi.last] = Left] /\ job'.of = Idle
      /\ host' = [host EXCEPT ![pi.last] = "ended"]
  BY DEF Shutdown, Left
<1>2. host[pi.last] = "serving" => job.of = Idle
  BY DEF IInv, TypeOK
<1>3. Here = runtime[pi.last] /\ pi.last \in Hosts
  BY IsTyped DEF Here
<1>4. host[pi.last] = "serving" => \A o \in Ops : Here.catalog[o] \in {"absent", Here.committed[o]}
  BY <1>2, <1>3 DEF SelectionInv, CatalogInv
<1>5. \A o \in Ops : Runs(Here)[o] \in {"absent", Here.catalog[o]}
  BY DEF Runs
<1>6. Settled(Left)
  BY <1>4, <1>5, LeftIs DEF Settled
<1>7. host'[pi.last] \notin Unserved
  BY <1>1, <1>3 DEF Unserved, IInv, TypeOK
<1> QED BY <1>1, <1>6, <1>7, SelectionSettled

LEMMA StartSelection ==
    ASSUME IInv, SelectionInv, HostsGoOn, StartSession \/ StartFails
    PROVE  SelectionInv'
<1>1. pi'.last = pi.last /\ job' = job
  BY DEF StartSession, StartFails, IInv, TypeOK
<1>2. Here \in Runtime /\ Here = runtime[pi.last] /\ runtime \in [Hosts -> Runtime]
  BY IsTyped DEF Here
<1>3. ASSUME NEW flag \in BOOLEAN, runtime' = [runtime EXCEPT ![pi.last].quiesced = flag]
      PROVE  SelectionInv'
  <2> DEFINE r == [Here EXCEPT !.quiesced = flag]
  <2>1. r.catalog = Here.catalog /\ r.committed = Here.committed /\ r.ended = Here.ended
    BY <1>2 DEF Runtime
  <2>2. runtime' = [runtime EXCEPT ![pi.last] = r]
    BY <1>2, <1>3
  <2> HIDE DEF r
  <2>3. job.of # Idle => (job.of.step = "lease" => job.of.committed)
    BY DEF SelectionInv, CandidateInv
  <2> QED BY <1>1, <2>1, <2>2, <2>3, SelectionKept
<1>4. CASE UNCHANGED runtime
  BY <1>1, <1>4, StillSelection
<1>5. TRUE \in BOOLEAN /\ FALSE \in BOOLEAN
  OBVIOUS
<1>6. \/ UNCHANGED runtime
      \/ runtime' = [runtime EXCEPT ![pi.last].quiesced = FALSE]
      \/ runtime' = [runtime EXCEPT ![pi.last].quiesced = TRUE]
  BY DEF StartSession, StartFails
<1> QED BY <1>3, <1>4, <1>5, <1>6

LEMMA BeginSelection ==
    ASSUME IInv, SelectionInv, HostsGoOn, Reconstruct \/ \E o \in Ops : RecoverLocal(o)
    PROVE  SelectionInv'
<1>1. PICK want, for : job.of = Idle /\ Perform(want, for)
  BY DEF Reconstruct, RecoverLocal
<1>2. /\ Here \in Runtime /\ Here = runtime[pi.last] /\ runtime \in [Hosts -> Runtime]
      /\ pi.last \in Hosts /\ job \in [of : Job, tried : SUBSET Ops]
  BY IsTyped DEF Here, IInv, TypeOK
<1>3. \A o \in Ops : {Here.catalog[o], Here.ended[o]} \subseteq {"absent", Here.committed[o]}
  BY <1>1, <1>2 DEF SelectionInv, CatalogInv, EndedInv
<1>4. CASE Performed(FALSE, for) /\ UNCHANGED runtime
  <2>1. runtime' = [runtime EXCEPT ![pi.last] = Here]
    BY <1>2, <1>4
  <2>2. Settled(Here)
    BY <1>3 DEF Settled
  <2> QED BY <1>4, <2>1, <2>2, EndsJob, SelectionSettled
<1>5. CASE BeginCandidate(want, for) /\ UNCHANGED pi
  <2> DEFINE building == [step |-> "skills", want |-> want, before |-> Here.catalog,
                          committed |-> FALSE, for |-> for]
             r == [Here EXCEPT !.catalog = want, !.quiesced = TRUE]
  <2>1. /\ job' = [job EXCEPT !.of = building] /\ building.step = "skills"
        /\ building.before = Here.catalog /\ building.committed = FALSE
    BY <1>5 DEF BeginCandidate
  <2>2. runtime' = [runtime EXCEPT ![pi.last] = r] /\ r.committed = Here.committed /\ r.ended = Here.ended
    BY <1>2, <1>5 DEF BeginCandidate, Runtime
  <2>3. building # Idle
    <3>1. building.step = "skills" /\ Idle.step = "idle"
      BY DEF Idle
    <3> QED BY <3>1
  <2> HIDE DEF building, r
  <2>4. job'.of = building
    BY <1>2, <2>1
  <2>5. /\ runtime'[pi.last] = r /\ Here' = r
        /\ \A h \in Hosts : h # pi.last => runtime'[h] = runtime[h]
    BY <1>2, <1>5, <2>2 DEF Here
  <2>6. EndedInv'
    BY <1>2, <2>2, <2>5 DEF SelectionInv, EndedInv, HostsGoOn
  <2>7. CatalogInv'
    BY <1>5, <2>3, <2>4, <2>5 DEF SelectionInv, CatalogInv
  <2>8. CandidateInv'
    BY <1>3, <2>1, <2>2, <2>4, <2>5 DEF CandidateInv
  <2> QED BY <2>6, <2>7, <2>8 DEF SelectionInv
<1> QED BY <1>1, <1>4, <1>5 DEF Perform

(* The steps between the beginning and the commit, or the restoration.     *)
LEMMA GoToSelects ==
    ASSUME IInv, NEW from \in Steps, At(from), NEW step \in Steps, GoTo(step)
    PROVE  /\ job'.of # Idle /\ job.of # Idle
           /\ job'.of.committed = job.of.committed /\ job'.of.want = job.of.want
           /\ job'.of.before = job.of.before /\ job'.of.step = step
<1>1. job.of \in Building /\ job.of # Idle /\ job \in [of : Job, tried : SUBSET Ops]
  BY JobIs DEF IInv, TypeOK
<1>2. job' = [job EXCEPT !.of = [job.of EXCEPT !.step = step]]
  BY DEF GoTo
<1> DEFINE b == [job.of EXCEPT !.step = step]
<1>3. /\ b.step = step /\ b.committed = job.of.committed /\ b.want = job.of.want
      /\ b.before = job.of.before
  BY <1>1 DEF Building
<1>4. job'.of = b
  BY <1>1, <1>2
<1> HIDE DEF b
<1>5. b # Idle
  BY <1>3 DEF Idle, Steps
<1> QED BY <1>1, <1>3, <1>4, <1>5

LEMMA RebuildingSelection ==
    ASSUME IInv, SelectionInv, HostsGoOn, NEW from \in Steps, At(from), Rebuilding,
           \E step \in Steps : step # "lease" /\ GoTo(step),
           NEW r, runtime' = [runtime EXCEPT ![pi.last] = r],
           r.catalog = Here.catalog, r.committed = Here.committed, r.ended = Here.ended
    PROVE  SelectionInv'
<1>1. /\ job'.of # Idle /\ job.of # Idle
      /\ job'.of.committed = job.of.committed /\ job'.of.want = job.of.want
      /\ job'.of.before = job.of.before /\ job'.of.step # "lease"
  BY GoToSelects
<1>2. pi'.last = pi.last
  BY DEF Rebuilding
<1> QED BY <1>1, <1>2, SelectionKept

LEMMA StepsSelection ==
    ASSUME IInv, SelectionInv, HostsGoOn, ReconcileSkills \/ ReconcileMcp \/ Observe \/ ReplaceLease \/ Restore
    PROVE  SelectionInv'
<1>1. /\ Here \in Runtime /\ Here = runtime[pi.last] /\ runtime \in [Hosts -> Runtime] /\ pi.last \in Hosts
  BY IsTyped DEF Here
<1>2. \A o \in Ops : Here.ended[o] \in {"absent", Here.committed[o]}
  BY <1>1 DEF SelectionInv, EndedInv
<1>3. "skills" \in Steps /\ "mcp" \in Steps /\ "observe" \in Steps /\ "lease" \in Steps /\ "restore" \in Steps
  BY DEF Steps
<1>4. CASE ReconcileSkills
  <2>1. At("skills") /\ Rebuilding /\ \E step \in Steps : step # "lease" /\ GoTo(step)
    BY <1>3, <1>4 DEF ReconcileSkills
  <2>2. CASE UNCHANGED runtime
    <3>1. runtime' = [runtime EXCEPT ![pi.last] = Here]
      BY <1>1, <2>2
    <3> QED BY <1>3, <2>1, <3>1, RebuildingSelection
  <2>3. CASE runtime' = [runtime EXCEPT ![pi.last].skills = job.of.want]
    <3> DEFINE r == [Here EXCEPT !.skills = job.of.want]
    <3>1. /\ runtime' = [runtime EXCEPT ![pi.last] = r] /\ r.catalog = Here.catalog
          /\ r.committed = Here.committed /\ r.ended = Here.ended
      BY <1>1, <2>3 DEF Runtime
    <3> HIDE DEF r
    <3> QED BY <1>3, <2>1, <3>1, RebuildingSelection
  <2> QED BY <1>4, <2>2, <2>3 DEF ReconcileSkills
<1>5. CASE ReconcileMcp
  <2>1. At("mcp") /\ Rebuilding /\ \E step \in Steps : step # "lease" /\ GoTo(step)
    BY <1>3, <1>5 DEF ReconcileMcp
  <2>2. PICK done \in SUBSET Wanted :
           runtime' = [runtime EXCEPT ![pi.last].mcp =
                          [o \in Ops |-> IF o \in done THEN job.of.want[o] ELSE @[o]]]
    BY <1>5 DEF ReconcileMcp
  <2> DEFINE servers == [o \in Ops |-> IF o \in done THEN job.of.want[o] ELSE Here.mcp[o]]
             r == [Here EXCEPT !.mcp = servers]
  <2>3. runtime' = [runtime EXCEPT ![pi.last].mcp = servers]
    BY <1>1, <2>2
  <2> HIDE DEF servers
  <2>4. /\ runtime' = [runtime EXCEPT ![pi.last] = r] /\ r.catalog = Here.catalog
        /\ r.committed = Here.committed /\ r.ended = Here.ended
    BY <1>1, <2>3 DEF Runtime
  <2> HIDE DEF r
  <2> QED BY <1>3, <2>1, <2>4, RebuildingSelection
<1>6. CASE Observe
  <2>1. At("observe") /\ Rebuilding
    BY <1>6 DEF Observe
  <2>2. CASE GoTo("restore") /\ UNCHANGED runtime
    <3>1. runtime' = [runtime EXCEPT ![pi.last] = Here]
      BY <1>1, <2>2
    <3> QED BY <1>3, <2>1, <2>2, <3>1, RebuildingSelection
  <2>3. CASE /\ job' = [job EXCEPT !.of.step = "lease", !.of.committed = TRUE]
             /\ runtime' = [runtime EXCEPT ![pi.last].committed = job.of.want]
    <3>1. /\ job.of \in Building /\ job.of # Idle /\ job \in [of : Job, tried : SUBSET Ops]
          /\ job.of.want = Here.catalog
      BY <1>3, <2>1, JobIs DEF IInv, TypeOK, JobInv
    <3> DEFINE r == [Here EXCEPT !.committed = job.of.want]
               b == [job.of EXCEPT !.step = "lease", !.committed = TRUE]
    <3>2. /\ runtime' = [runtime EXCEPT ![pi.last] = r] /\ r.committed = job.of.want /\ r.ended = Here.ended
      BY <1>1, <2>3 DEF Runtime
    <3>3. b.committed = TRUE /\ b.want = job.of.want
      BY <3>1 DEF Building
    <3>4. job'.of = b
      BY <2>3, <3>1
    <3> HIDE DEF r, b
    <3>5. /\ runtime'[pi.last] = r /\ Here' = r /\ pi' = pi
          /\ \A h \in Hosts : h # pi.last => runtime'[h] = runtime[h]
      BY <1>1, <2>1, <3>2 DEF Here, Rebuilding
    <3>6. \A o \in Ops : r.ended[o] = "absent"
      <4>1. host[pi.last] \in Unserved
        BY <2>1 DEF At, Unserved
      <4> QED BY <1>1, <3>2, <4>1 DEF SelectionInv, EndedInv
    <3>7. EndedInv'
      BY <3>5, <3>6 DEF SelectionInv, EndedInv, HostsGoOn
    <3>8. b # Idle
      <4>1. b.step = "lease" /\ Idle.step = "idle"
        BY <3>1 DEF b, Idle, Building
      <4> QED BY <4>1
    <3>9. CatalogInv'
      BY <3>4, <3>5, <3>8 DEF SelectionInv, CatalogInv
    <3>10. CandidateInv'
      BY <3>2, <3>3, <3>4, <3>5 DEF CandidateInv
    <3> QED BY <3>7, <3>9, <3>10 DEF SelectionInv
  <2> QED BY <1>6, <2>2, <2>3 DEF Observe
<1>7. CASE ReplaceLease
  <2>1. At("lease")
    BY <1>7 DEF ReplaceLease
  <2>2. CASE /\ \E lease \in {Here.lease, job.of.want} : runtime' = [runtime EXCEPT ![pi.last].lease = lease]
             /\ GoTo("restore") /\ Rebuilding
    <3>1. PICK lease : runtime' = [runtime EXCEPT ![pi.last].lease = lease]
      BY <2>2
    <3> DEFINE r == [Here EXCEPT !.lease = lease]
    <3>2. /\ runtime' = [runtime EXCEPT ![pi.last] = r] /\ r.catalog = Here.catalog
          /\ r.committed = Here.committed /\ r.ended = Here.ended
      BY <1>1, <3>1 DEF Runtime
    <3> HIDE DEF r
    <3> QED BY <1>3, <2>1, <2>2, <3>2, RebuildingSelection
  <2>3. CASE /\ runtime' = [runtime EXCEPT ![pi.last] = [@ EXCEPT !.lease = job.of.want, !.current = job.of.want,
                                                                  !.quiesced = FALSE]]
             /\ Performed(TRUE, job.of.for)
    <3> DEFINE r == [Here EXCEPT !.lease = job.of.want, !.current = job.of.want, !.quiesced = FALSE]
    <3>1. /\ runtime' = [runtime EXCEPT ![pi.last] = r] /\ r.catalog = Here.catalog
          /\ r.committed = Here.committed /\ r.ended = Here.ended
      BY <1>1, <2>3 DEF Runtime
    <3> HIDE DEF r
    <3>2. Here.catalog = job.of.want /\ Here.committed = job.of.want
      <4>1. job.of # Idle /\ job.of.step = "lease"
        BY <1>3, <2>1, JobIs
      <4> QED BY <4>1 DEF IInv, JobInv, SelectionInv, CandidateInv
    <3>3. Settled(r)
      BY <1>2, <3>1, <3>2 DEF Settled
    <3> QED BY <2>3, <3>1, <3>3, EndsJob, SelectionSettled
  <2> QED BY <1>7, <2>2, <2>3 DEF ReplaceLease
<1>8. CASE Restore
  <2>1. At("restore") /\ Performed(FALSE, job.of.for)
    BY <1>8 DEF Restore
  <2> DEFINE catalog == IF job.of.committed THEN Here.catalog ELSE job.of.before
  <2>2. PICK skills \in {Here.skills, Here.current}, removed \in SUBSET Wanted :
           runtime' = [runtime EXCEPT ![pi.last] =
               [Here EXCEPT !.catalog = IF job.of.committed THEN Here.catalog ELSE job.of.before,
                            !.skills = skills,
                            !.mcp = [o \in Ops |-> IF o \in removed THEN "absent" ELSE Here.mcp[o]],
                            !.quiesced = TRUE]]
    BY <1>8 DEF Restore
  <2>3. job.of # Idle /\ Here.catalog = job.of.want
    BY <1>3, <2>1, JobIs DEF IInv, JobInv
  <2>4. \A o \in Ops : catalog[o] \in {"absent", Here.committed[o]}
    BY <2>3 DEF SelectionInv, CandidateInv
  <2> DEFINE servers == [o \in Ops |-> IF o \in removed THEN "absent" ELSE Here.mcp[o]]
             r == [Here EXCEPT !.catalog = catalog, !.skills = skills, !.mcp = servers, !.quiesced = TRUE]
  <2>5. runtime' = [runtime EXCEPT ![pi.last] = r]
    BY <2>2, Zenon
  <2> HIDE DEF servers, catalog
  <2>6. r.catalog = catalog /\ r.committed = Here.committed /\ r.ended = Here.ended
    BY <1>1 DEF Runtime
  <2> HIDE DEF r
  <2>7. Settled(r)
    BY <1>2, <2>4, <2>6 DEF Settled
  <2> QED BY <2>1, <2>5, <2>6, <2>7, EndsJob, SelectionSettled
<1> QED BY <1>4, <1>5, <1>6, <1>7, <1>8

(* No host is loaded twice.                                                *)
LEMMA HostsNeverStartAgain ==
    ASSUME IInv, [Next]_vars
    PROVE  HostsGoOn
<1>1. host \in [Hosts -> {"absent", "starting", "serving", "failed", "ended", "closed"}] /\ pi.last \in Hosts
  BY IsTyped DEF IInv, TypeOK
<1>2. \/ UNCHANGED host
      \/ host[pi.last] = "absent" /\ host' = [host EXCEPT ![pi.last] = "starting"]
      \/ \E h \in Hosts, s \in {"serving", "failed", "ended", "closed"} : host' = [host EXCEPT ![h] = s]
  <2>1. CASE \/ \E o \in Ops : Admit(o) \/ OpenTicket(o) \/ ReloadIsRejected(o) \/ Wait(o) \/ AbortWait(o)
             \/ ReconcileSkills \/ ReconcileMcp \/ Observe \/ Discover \/ UNCHANGED vars
    BY <2>1 DEF Admit, OpenTicket, ReloadIsRejected, Wait, AbortWait, ReconcileSkills, ReconcileMcp,
                Observe, Discover, Rebuilding, vars
  <2>2. CASE (\E h \in Hosts : FinalClose(h)) \/ Shutdown \/ StartSession \/ StartFails
    BY <1>1, <2>2 DEF FinalClose, Shutdown, StartSession, StartFails
  <2>3. ASSUME NEW ok, NEW o, Performed(ok, o)
        PROVE  UNCHANGED host \/ host' = [host EXCEPT ![pi.last] = "serving"]
    BY <2>3 DEF Performed
  <2>4. CASE Reconstruct \/ ReplaceLease \/ Restore \/ \E o \in Ops : RecoverLocal(o)
    <3>1. UNCHANGED host \/ \E ok, o : Performed(ok, o)
      BY <2>4 DEF Reconstruct, ReplaceLease, Restore, RecoverLocal, Perform, Rebuilding
    <3> QED BY <1>1, <2>3, <3>1
  <2> QED BY <2>1, <2>2, <2>4 DEF Next
<1> QED BY <1>1, <1>2 DEF HostsGoOn, Unserved

LEMMA NextSelection == IInv /\ SelectionInv /\ [Next]_vars => SelectionInv'
<1> SUFFICES ASSUME IInv, SelectionInv, [Next]_vars PROVE SelectionInv'
  OBVIOUS
<1> USE HostsNeverStartAgain
<1>1. CASE Shutdown
  BY <1>1, ShutdownSelection
<1>2. CASE StartSession \/ StartFails
  BY <1>2, StartSelection
<1>3. CASE Reconstruct \/ \E o \in Ops : RecoverLocal(o)
  BY <1>3, BeginSelection
<1>4. CASE ReconcileSkills \/ ReconcileMcp \/ Observe \/ ReplaceLease \/ Restore
  BY <1>4, StepsSelection
<1>5. CASE \/ \E o \in Ops : Admit(o) \/ OpenTicket(o) \/ ReloadIsRejected(o) \/ Wait(o) \/ AbortWait(o)
           \/ \E h \in Hosts : FinalClose(h)
           \/ Discover \/ UNCHANGED vars
  <2>1. UNCHANGED <<runtime, job>> /\ pi'.last = pi.last
    BY <1>5 DEF Admit, OpenTicket, ReloadIsRejected, Wait, AbortWait, FinalClose, Discover, vars, IInv, TypeOK
  <2> QED BY <2>1, StillSelection
<1> QED BY <1>1, <1>2, <1>3, <1>4, <1>5 DEF Next

-----------------------------------------------------------------------------
(* Theorems.                                                               *)
\* The invariant of the handoff: it follows a ticket from the host that claims
\* it (pi-reload-broker.ts), through the reconstruction of the runtime
\* (complete-plugin-reload.ts), to the publication (plugin-host-bootstrap.ts).
THEOREM InductiveInvariant == Spec => []IInv
<1>1. Init => IInv
  BY InitIInv
<1>2. IInv /\ [Next]_vars => IInv'
  BY NextIInv
<1> QED BY <1>1, <1>2, PTL DEF Spec

\* Every variable keeps its type; a reconstruction is under way only in a host
\* that starts, and a host keeps only tickets that it claimed.
THEOREM TypeCorrect == Spec => []TypeOK
<1>1. IInv => TypeOK
  BY DEF IInv
<1> QED BY <1>1, InductiveInvariant, PTL

\* An operation is told that its reload was accepted only when a later host
\* that claimed its ticket runs the candidate: what wait() of the broker
\* answers is what the reconstruction committed, for any number of reloads.
THEOREM AcceptedIsActiveHolds == Spec => []AcceptedIsActive
<1>1. IInv => AcceptedIsActive
  <2> SUFFICES ASSUME IInv, NEW o \in Ops, pc[o] = "accepted"
               PROVE  \E h \in Hosts : /\ ticket[o].by = h /\ h > home[o]
                                      /\ runtime[h].current[o] = "candidate"
    BY DEF AcceptedIsActive
  <2>1. PICK h \in Hosts : Activated(h, o)
    BY DEF IInv, AnswersInv
  <2>2. ticket[o].by = h /\ h # 0 /\ runtime[h].current[o] = "candidate"
    BY <2>1, HostsAreNumbers DEF Activated
  <2>3. h > home[o]
    BY <2>2 DEF IInv, TicketsInv
  <2> QED BY <2>2, <2>3
<1> QED BY <1>1, InductiveInvariant, PTL

\* The selection that the hooks of a quiesced host depend on: the catalog of a
\* host is the one it committed last, or the candidate that is being built.
THEOREM SelectionInvariant == Spec => []SelectionInv
<1>1. Init => SelectionInv
  BY InitSelection
<1>2. IInv /\ SelectionInv /\ [Next]_vars => SelectionInv'
  BY NextSelection
<1> QED BY <1>1, <1>2, InductiveInvariant, PTL DEF Spec

\* Whatever failed in perform() and in restore() of complete-plugin-reload.ts:
\* the hooks of Pi's own events are delivered only by a runtime whose catalog,
\* skills, servers and lease are those of one reconstruction; the hooks that
\* quiescence does not hold back, of SessionEnd and of subagents, are those of
\* the selection that the host committed last, or for a subagent those of the
\* candidate that is being built (hook-execution-context.ts).
THEOREM HooksAreConsistentHolds == Spec => []HooksAreConsistent
<1>1. IInv /\ SelectionInv => HooksAreConsistent
  <2> SUFFICES ASSUME IInv, SelectionInv PROVE OthersSeeCommitted
    BY DEF HooksAreConsistent, IInv
  <2>1. ASSUME NEW h \in Hosts, NEW o \in Ops
        PROVE  \/ Runs(runtime[h])[o] \in {"absent", runtime[h].committed[o]}
               \/ h = pi.last /\ job.of # Idle /\ Runs(runtime[h])[o] = job.of.want[o]
    <3>1. Runs(runtime[h])[o] \in {"absent", runtime[h].catalog[o]}
      BY DEF Runs
    <3>2. CASE h = pi.last /\ job.of # Idle
      BY <3>1, <3>2 DEF IInv, JobInv, Here
    <3>3. CASE h # pi.last \/ job.of = Idle
      BY <3>1, <3>3 DEF SelectionInv, CatalogInv
    <3> QED BY <3>2, <3>3
  <2> QED BY <2>1 DEF OthersSeeCommitted, SelectionInv, EndedInv
<1> QED BY <1>1, InductiveInvariant, SelectionInvariant, PTL

\* A ticket of the broker is open only while its operation waits for it.
THEOREM OpenTicketsAreAwaitedHolds == Spec => []OpenTicketsAreAwaited
<1>1. IInv => OpenTicketsAreAwaited
  BY DEF IInv, TicketsInv
<1> QED BY <1>1, InductiveInvariant, PTL
=============================================================================
