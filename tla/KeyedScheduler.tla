--------------------------- MODULE KeyedScheduler ---------------------------
(***************************************************************************)
(* The in-process scheduler of lifecycle mutations,                        *)
(* src/src/application/keyed-mutation-scheduler.ts: one FIFO queue and one *)
(* owner slot per scope-qualified plugin key.  A call enters the queues of *)
(* all its keys in one synchronous step, is granted all of them in one     *)
(* step when it is at the head of every one, and is removed by an abort.   *)
(* JavaScript runs each handler to completion, so each is one action.      *)
(* The execution context is the AsyncLocalStorage of the packaged host,    *)
(* src/src/infrastructure/state/keyed-mutation-scheduler.ts: work, and     *)
(* what it awaits, sees the keys that its own call holds.                  *)
(***************************************************************************)
EXTENDS Integers, Sequences, SequencesExt

CONSTANTS Requests,   \* calls of run; each has an AbortSignal of its own
          Keys,       \* canonical subject keys of one scope
          None        \* no request

ASSUME NoneIsNoRequest == None \notin Requests

VARIABLES
    status,   \* [Requests -> Statuses]
    wants,    \* [Requests -> SUBSET Keys], the waiter's keys
    context,  \* [Requests -> SUBSET Keys], keys held where run was called
    caller,   \* [Requests -> Requests \cup {None}], whose work called run
    aborted,  \* the requests whose signal is aborted
    queue,    \* [Keys -> Seq(Requests)], KeyState.queue
    owner     \* [Keys -> Requests \cup {None}], KeyState.owner

vars == <<status, wants, context, caller, aborted, queue, owner>>

(* "granted" is the gap between resolve() and the continuation that starts *)
(* the work; "settled" covers a rejected call as well as finished work.    *)
Statuses == {"idle", "waiting", "granted", "running", "settled"}

TypeOK ==
    /\ status \in [Requests -> Statuses]
    /\ wants \in [Requests -> SUBSET Keys]
    /\ context \in [Requests -> SUBSET Keys]
    /\ caller \in [Requests -> Requests \cup {None}]
    /\ aborted \in SUBSET Requests
    /\ queue \in [Keys -> Seq(Requests)]
    /\ owner \in [Keys -> Requests \cup {None}]

Init ==
    /\ status = [r \in Requests |-> "idle"]
    /\ wants = [r \in Requests |-> {}]
    /\ context = [r \in Requests |-> {}]
    /\ caller = [r \in Requests |-> None]
    /\ aborted = {}
    /\ queue = [k \in Keys |-> <<>>]
    /\ owner = [k \in Keys |-> None]

-----------------------------------------------------------------------------
(* Queues and owners.  q and o stand for the queues and owner slots as the *)
(* handler left them before it calls pump.                                 *)

HeadIs(q, k, r) == q[k] # <<>> /\ Head(q[k]) = r

\* Mutated: the owner of a key is not looked at.
ReadyIfOwned(q, o, w, r) == \A k \in w[r] : HeadIs(q, k, r)
Ready(q, o, w, r) == \A k \in w[r] : o[k] = None /\ HeadIs(q, k, r)

\* Mutated: a wake-up is only passed on to the waiters of one single key.
GrantedSingleKey(q, o, w, ks) ==
    {r \in Requests : (\E k \in ks : w[r] = {k}) /\ Ready(q, o, w, r)}
(* pumpOne on each key of ks.  A grant only occupies keys, so it enables   *)
(* no other one and the order of ks does not matter.                       *)
Granted(q, o, w, ks) ==
    {r \in Requests : /\ \E k \in ks : o[k] = None /\ HeadIs(q, k, r)
                      /\ Ready(q, o, w, r)}

Pump(q, o, st, w, ks) ==
    LET G == Granted(q, o, w, ks)
        Taken(k) == \E r \in G : k \in w[r]
    IN  /\ queue' = [k \in Keys |-> IF Taken(k) THEN Tail(q[k]) ELSE q[k]]
        /\ owner' = [k \in Keys |-> IF Taken(k) THEN Head(q[k]) ELSE o[k]]
        /\ status' = [r \in Requests |-> IF r \in G THEN "granted" ELSE st[r]]

\* Mutated: unshift() where push() is meant.
PushFront(r, ks) == [k \in Keys |-> IF k \in ks THEN <<r>> \o queue[k] ELSE queue[k]]
Push(r, ks) == [k \in Keys |-> IF k \in ks THEN Append(queue[k], r) ELSE queue[k]]

\* Mutated: shift() where splice(index, 1) is meant.
ShiftWaiter(s, r) == IF s = <<>> THEN s ELSE Tail(s)
RemoveWaiter(s, r) ==
    IF \E i \in 1..Len(s) : s[i] = r
    THEN RemoveAt(s, CHOOSE i \in 1..Len(s) : s[i] = r)
    ELSE s

\* Mutated: no finally block around a work that never started.
FreedIfStarted(r) ==
    [k \in Keys |-> IF owner[k] = r /\ status[r] = "running" THEN None ELSE owner[k]]
Freed(r) == [k \in Keys |-> IF k \in wants[r] /\ owner[k] = r THEN None ELSE owner[k]]

\* Mutated: the context carries the waiter's token in place of its keys.
HeldByToken(p) == IF p = None THEN {} ELSE context[p] \cup {p}
HeldBy(p) == IF p = None THEN {} ELSE context[p] \cup wants[p]

-----------------------------------------------------------------------------
(* The handlers.                                                           *)

(* run() called at top level (p = None) or from the work of p.             *)
Call(r, p) ==
    /\ status[r] = "idle"
    /\ p # None => status[p] = "running"
    /\ caller' = [caller EXCEPT ![r] = p]
    /\ context' = [context EXCEPT ![r] = HeldBy(p)]

(* RecursiveMutationAcquisitionError, or a signal aborted before the call. *)
Refuse(r, p, ks) ==
    /\ Call(r, p)
    /\ ks \cap HeldBy(p) # {} \/ r \in aborted
    /\ status' = [status EXCEPT ![r] = "settled"]
    /\ UNCHANGED <<wants, aborted, queue, owner>>

(* acquire(): push on every key, then pump.  A call without keys runs at   *)
(* the next microtask.                                                     *)
Acquire(r, p, ks) ==
    /\ Call(r, p)
    /\ ks \cap HeldBy(p) = {}
    /\ r \notin aborted
    /\ wants' = [wants EXCEPT ![r] = ks]
    /\ Pump(Push(r, ks), owner,
            [status EXCEPT ![r] = IF ks = {} THEN "granted" ELSE "waiting"],
            wants', ks)
    /\ UNCHANGED aborted

(* The abort listener of a waiter: cancel() leaves every queue, then pumps. *)
Cancel(r) ==
    /\ status[r] = "waiting"
    /\ aborted' = aborted \cup {r}
    /\ Pump([k \in Keys |-> IF k \in wants[r] THEN RemoveWaiter(queue[k], r)
                                              ELSE queue[k]],
            owner, [status EXCEPT ![r] = "settled"], wants, wants[r])
    /\ UNCHANGED <<wants, context, caller>>

(* The signal aborts before the call, or after the grant removed the       *)
(* listener; what happens next is decided by throwIfAborted.               *)
AbortUnlistened(r) ==
    /\ status[r] \in {"idle", "granted"}
    /\ aborted' = aborted \cup {r}
    /\ UNCHANGED <<status, wants, context, caller, queue, owner>>

Start(r) ==
    /\ status[r] = "granted"
    /\ r \notin aborted
    /\ status' = [status EXCEPT ![r] = "running"]
    /\ UNCHANGED <<wants, context, caller, aborted, queue, owner>>

(* release() in the finally block: free the keys, then pump them.          *)
Release(r) ==
    /\ Pump(queue, Freed(r), [status EXCEPT ![r] = "settled"], wants, wants[r])
    /\ UNCHANGED <<wants, context, caller, aborted>>

(* Aborted between the grant and the continuation: no work is done.        *)
Withdraw(r) ==
    /\ status[r] = "granted"
    /\ r \in aborted
    /\ Release(r)

(* The work settles; work awaits the calls it made itself.                 *)
Finish(r) ==
    /\ status[r] = "running"
    /\ \A c \in Requests : caller[c] = r => status[c] = "settled"
    /\ Release(r)

Next ==
    \/ \E r \in Requests, p \in Requests \cup {None}, ks \in SUBSET Keys :
           Refuse(r, p, ks) \/ Acquire(r, p, ks)
    \/ \E r \in Requests :
           Cancel(r) \/ AbortUnlistened(r) \/ Start(r) \/ Withdraw(r) \/ Finish(r)

(* Continuations are microtasks the event loop runs, and the work of a     *)
(* call settles unless it waits for a nested call.  Nobody has to call     *)
(* run, and nobody has to abort.                                           *)
Fairness == \A r \in Requests : WF_vars(Start(r) \/ Withdraw(r) \/ Finish(r))

Spec == Init /\ [][Next]_vars
FairSpec == Spec /\ Fairness

-----------------------------------------------------------------------------
(* Properties.                                                             *)

Holding(r) == status[r] \in {"granted", "running"}

(* The queues and the states of the waiters agree: a queue holds exactly   *)
(* the waiters that want its key, each once, and a call that was cancelled *)
(* or served leaves no residue in any of its queues.                       *)
QueuesHoldWaiters ==
    /\ \A k \in Keys : \A i \in 1..Len(queue[k]) :
           status[queue[k][i]] = "waiting" /\ k \in wants[queue[k][i]]
    /\ \A k \in Keys : \A i, j \in 1..Len(queue[k]) :
           queue[k][i] = queue[k][j] => i = j
    /\ \A r \in Requests : status[r] = "waiting" =>
           /\ wants[r] # {}
           /\ \A k \in wants[r] : \E i \in 1..Len(queue[k]) : queue[k][i] = r

(* The owner slots and the states of the calls agree: a call owns all of   *)
(* its keys from its grant to its release and none before or after.        *)
OwnersHold ==
    /\ \A r \in Requests : Holding(r) => \A k \in wants[r] : owner[k] = r
    /\ \A k \in Keys : owner[k] # None =>
           Holding(owner[k]) /\ k \in wants[owner[k]]

(* Two calls in possession of their keys never share one: mutations of the *)
(* same plugin in the same scope are serialized.                           *)
MutualExclusion ==
    \A r, s \in Requests :
        r # s /\ Holding(r) /\ Holding(s) => wants[r] \cap wants[s] = {}

(* No wake-up is lost: whenever the event loop is idle, no waiter is left  *)
(* that is at the head of all its queues with every key free.  pump only   *)
(* looks at the keys of the call that ends, so this is not local.          *)
NoLostWakeup ==
    \A r \in Requests : status[r] = "waiting" => ~ Ready(queue, owner, wants, r)

(* The scheduler serves calls as the single line of FifoKeyLocks does: in  *)
(* order of arrival among calls that share a key, all keys at once.        *)
AbstractPhase ==
    [r \in Requests |-> IF status[r] = "idle" THEN "new"
                        ELSE IF status[r] = "waiting" THEN "waiting"
                        ELSE IF Holding(r) THEN "holding"
                        ELSE "gone"]

QueuedBefore ==
    {pair \in Requests \X Requests :
        \E k \in Keys : \E i, j \in 1..Len(queue[k]) :
            i < j /\ queue[k][i] = pair[1] /\ queue[k][j] = pair[2]}

Line == INSTANCE FifoKeyLocks WITH phase <- AbstractPhase, ahead <- QueuedBefore

ServesInArrivalOrder == Line!Spec

(* Every waiter is served or cancelled, as long as no work calls run       *)
(* itself: atomic entry into all queues leaves no cycle of waiters.        *)
Flat == \A r \in Requests : caller[r] = None
FlatCallsAreServed ==
    []Flat => \A r \in Requests : status[r] = "waiting" ~> status[r] # "waiting"

(* The same without the restriction to flat calls, as the scheduler's test *)
(* "proves disjoint closure recursion safe" has it.  A nested call may     *)
(* wait for ever, though: behind one that wants its key and one of those   *)
(* that are held by the work which makes the nested call.                  *)
NestedCallsAreServed ==
    \A r \in Requests : status[r] = "waiting" ~> status[r] # "waiting"
=============================================================================
