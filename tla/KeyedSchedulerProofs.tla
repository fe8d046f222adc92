------------------------ MODULE KeyedSchedulerProofs ------------------------
(***************************************************************************)
(* Proofs about KeyedScheduler, for any set of calls and keys.             *)
(*                                                                         *)
(* The inductive invariant is TypeOK together with the two bookkeeping     *)
(* invariants QueuesHoldWaiters and OwnersHold.  Every handler but the     *)
(* trivial ones ends in Pump, so the argument is split in two: a handler   *)
(* leaves queues and owners consistent when it calls Pump, and Pump keeps  *)
(* them consistent (lemmas PumpType, PumpQueues, PumpOwners).              *)
(***************************************************************************)
EXTENDS KeyedScheduler, SequenceTheorems, WellFoundedInduction, TLAPS

(* QueuesHoldWaiters and OwnersHold of any queues, owners, states, wants.  *)
Queued(q, st, w) ==
    /\ \A k \in Keys : \A i \in 1..Len(q[k]) :
           st[q[k][i]] = "waiting" /\ k \in w[q[k][i]]
    /\ \A k \in Keys : \A i, j \in 1..Len(q[k]) : q[k][i] = q[k][j] => i = j
    /\ \A r \in Requests : st[r] = "waiting" =>
           /\ w[r] # {}
           /\ \A k \in w[r] : \E i \in 1..Len(q[k]) : q[k][i] = r

Owned(o, st, w) ==
    /\ \A r \in Requests : st[r] \in {"granted", "running"} =>
           \A k \in w[r] : o[k] = r
    /\ \A k \in Keys : o[k] # None =>
           st[o[k]] \in {"granted", "running"} /\ k \in w[o[k]]

Typed(q, o, st, w) ==
    /\ q \in [Keys -> Seq(Requests)]
    /\ o \in [Keys -> Requests \cup {None}]
    /\ st \in [Requests -> Statuses]
    /\ w \in [Requests -> SUBSET Keys]

IInv == TypeOK /\ QueuesHoldWaiters /\ OwnersHold

-----------------------------------------------------------------------------
(* Sequences. *)

(* splice(index, 1): what follows the removed element moves up.            *)
LEMMA RemoveWaiterElements ==
    ASSUME NEW S, NEW s \in Seq(S), NEW r, \E i \in 1..Len(s) : s[i] = r
    PROVE  /\ RemoveWaiter(s, r) \in Seq(S)
           /\ Len(RemoveWaiter(s, r)) = Len(s) - 1
           /\ \E m \in 1..Len(s) :
                 /\ s[m] = r
                 /\ \A i \in 1..Len(s) - 1 :
                       RemoveWaiter(s, r)[i] = IF i < m THEN s[i] ELSE s[i+1]
<1> DEFINE t == RemoveWaiter(s, r)
           m == CHOOSE i \in 1..Len(s) : s[i] = r
           n == Len(s)
           u == SubSeq(s, 1, m-1)
           v == SubSeq(s, m+1, n)
<1>1. m \in 1..n /\ s[m] = r
  OBVIOUS
<1>2. n \in Nat
  BY LenProperties
<1> HIDE DEF m
<1>3. t = u \o v
  BY DEF RemoveWaiter, RemoveAt, m
<1>4. u \in Seq(S) /\ Len(u) = m-1 /\ \A i \in 1..m-1 : u[i] = s[i]
  BY <1>1, <1>2, ElementOfSeq, SubSeqProperties
<1>5. v \in Seq(S) /\ Len(v) = n-m /\ \A i \in 1..n-m : v[i] = s[m+i]
  BY <1>1, <1>2, ElementOfSeq, SubSeqProperties
<1> HIDE DEF t, u, v
<1>6. /\ t \in Seq(S)
      /\ Len(t) = n-1
      /\ \A i \in 1..n-1 : t[i] = IF i < m THEN s[i] ELSE s[i+1]
  <2>1. /\ t \in Seq(S) /\ Len(t) = (m-1) + (n-m)
        /\ \A i \in 1..(m-1)+(n-m) : t[i] = IF i <= m-1 THEN u[i] ELSE v[i-(m-1)]
    <3>1. /\ t \in Seq(S) /\ Len(t) = Len(u) + Len(v)
          /\ \A i \in 1..Len(u)+Len(v) :
                t[i] = IF i <= Len(u) THEN u[i] ELSE v[i-Len(u)]
      BY <1>3, <1>4, <1>5, ConcatProperties
    <3> QED BY <3>1, <1>4, <1>5
  <2>2. (m-1) + (n-m) = n-1
    BY <1>1, <1>2
  <2>3. ASSUME NEW i \in 1..n-1
        PROVE  t[i] = IF i < m THEN s[i] ELSE s[i+1]
    <3>1. CASE i < m
      <4>1. i \in 1..m-1
        BY <3>1, <1>1, <1>2
      <4>2. t[i] = u[i]
        BY <4>1, <2>1, <2>2
      <4> QED BY <3>1, <4>1, <4>2, <1>4
    <3>2. CASE ~(i < m)
      <4>1. i - (m-1) \in 1..n-m /\ m + (i - (m-1)) = i+1
        BY <3>2, <1>1, <1>2
      <4>2. t[i] = v[i - (m-1)]
        BY <3>2, <2>1, <2>2, <1>1, <1>2
      <4> QED BY <3>2, <4>1, <4>2, <1>5
    <3> QED BY <3>1, <3>2
  <2> QED BY <2>1, <2>2, <2>3
<1> QED BY <1>1, <1>6 DEF t

LEMMA RemoveWaiterProperties ==
    ASSUME NEW S, NEW s \in Seq(S), NEW r,
           \A i, j \in 1..Len(s) : s[i] = s[j] => i = j
    PROVE  /\ RemoveWaiter(s, r) \in Seq(S)
           /\ \A j \in 1..Len(RemoveWaiter(s, r)) :
                 RemoveWaiter(s, r)[j] # r
           /\ \A j \in 1..Len(RemoveWaiter(s, r)) :
                 \E i \in 1..Len(s) : s[i] = RemoveWaiter(s, r)[j]
           /\ \A i \in 1..Len(s) : s[i] # r =>
                 \E j \in 1..Len(RemoveWaiter(s, r)) : RemoveWaiter(s, r)[j] = s[i]
           /\ \A i, j \in 1..Len(RemoveWaiter(s, r)) :
                 RemoveWaiter(s, r)[i] = RemoveWaiter(s, r)[j] => i = j
<1> DEFINE t == RemoveWaiter(s, r)
           n == Len(s)
<1>1. CASE ~ \E i \in 1..Len(s) : s[i] = r
  BY <1>1 DEF RemoveWaiter
<1>2. CASE \E i \in 1..Len(s) : s[i] = r
  <2>1. PICK m \in 1..n : /\ s[m] = r
                         /\ \A i \in 1..n-1 : t[i] = IF i < m THEN s[i] ELSE s[i+1]
    BY <1>2, RemoveWaiterElements
  <2>2. n \in Nat
    BY LenProperties
  <2>3. t \in Seq(S) /\ Len(t) = n-1
    BY <1>2, RemoveWaiterElements
  <2> HIDE DEF t
  <2>4. ASSUME NEW j \in 1..Len(t)
        PROVE  t[j] # r /\ \E i \in 1..Len(s) : s[i] = t[j]
    <3> DEFINE i == IF j < m THEN j ELSE j+1
    <3>1. i \in 1..n /\ i # m /\ t[j] = s[i]
      BY <2>1, <2>2, <2>3
    <3> HIDE DEF i
    <3> QED BY <3>1, <2>1
  <2>5. ASSUME NEW i \in 1..Len(s), s[i] # r
        PROVE  \E j \in 1..Len(t) : t[j] = s[i]
    <3>1. CASE i < m
      BY <3>1, <2>1, <2>2, <2>3
    <3>2. CASE i > m
      <4>1. i-1 \in 1..n-1 /\ ~(i-1 < m) /\ (i-1)+1 = i
        BY <3>2, <2>1, <2>2
      <4> QED BY <4>1, <2>1, <2>3
    <3> QED BY <3>1, <3>2, <2>1, <2>2, <2>5
  <2>6. ASSUME NEW i \in 1..Len(t), NEW j \in 1..Len(t), t[i] = t[j]
        PROVE  i = j
    BY <2>1, <2>2, <2>3, <2>6
  <2> QED BY <2>3, <2>4, <2>5, <2>6 DEF t
<1> QED BY <1>1, <1>2

-----------------------------------------------------------------------------
(* Pump. *)

(* A granted call is the head of the queue of each of its keys, all free.  *)
LEMMA GrantedAreHeads ==
    ASSUME NEW q, NEW o, NEW w, NEW ks, NEW r \in Granted(q, o, w, ks)
    PROVE  /\ r \in Requests
           /\ \A k \in w[r] : o[k] = None /\ q[k] # <<>> /\ Head(q[k]) = r
           /\ \E k \in ks : q[k] # <<>> /\ Head(q[k]) = r
BY DEF Granted, Ready, HeadIs

Taken(q, o, w, ks, k) == \E r \in Granted(q, o, w, ks) : k \in w[r]

(* The effect of Pump on one key.                                          *)
LEMMA PumpEffect ==
    ASSUME NEW q, NEW o, NEW st, NEW w, NEW ks,
           Typed(q, o, st, w), Pump(q, o, st, w, ks), NEW k \in Keys
    PROVE  \/ /\ Taken(q, o, w, ks, k)
              /\ q[k] # <<>>
              /\ Head(q[k]) \in Granted(q, o, w, ks)
              /\ k \in w[Head(q[k])]
              /\ owner'[k] = Head(q[k])
              /\ queue'[k] = Tail(q[k])
           \/ /\ ~ Taken(q, o, w, ks, k)
              /\ owner'[k] = o[k]
              /\ queue'[k] = q[k]
<1>1. CASE Taken(q, o, w, ks, k)
  <2>1. PICK r \in Granted(q, o, w, ks) : k \in w[r]
    BY <1>1 DEF Taken
  <2>2. q[k] # <<>> /\ Head(q[k]) = r
    BY <2>1, GrantedAreHeads
  <2> QED BY <1>1, <2>1, <2>2 DEF Pump, Taken
<1>2. CASE ~ Taken(q, o, w, ks, k)
  BY <1>2 DEF Pump, Taken
<1> QED BY <1>1, <1>2

LEMMA PumpType ==
    ASSUME NEW q, NEW o, NEW st, NEW w, NEW ks,
           Typed(q, o, st, w), Pump(q, o, st, w, ks)
    PROVE  Typed(queue', owner', status', w)
<1>1. ASSUME NEW k \in Keys
      PROVE  queue'[k] \in Seq(Requests) /\ owner'[k] \in Requests \cup {None}
  <2>1. q[k] \in Seq(Requests) /\ o[k] \in Requests \cup {None}
    BY DEF Typed
  <2>2. q[k] # <<>> => Tail(q[k]) \in Seq(Requests) /\ Head(q[k]) \in Requests
    BY <2>1, HeadTailProperties
  <2>3. \/ q[k] # <<>> /\ owner'[k] = Head(q[k]) /\ queue'[k] = Tail(q[k])
        \/ owner'[k] = o[k] /\ queue'[k] = q[k]
    BY PumpEffect
  <2> QED BY <2>1, <2>2, <2>3
<1>2. queue' = [k \in Keys |-> queue'[k]] /\ owner' = [k \in Keys |-> owner'[k]]
  BY DEF Pump
<1>3. status' \in [Requests -> Statuses]
  BY DEF Pump, Typed, Statuses
<1> QED BY <1>1, <1>2, <1>3 DEF Typed

(* The states after Pump: granted calls were waiting, others stay.         *)
LEMMA PumpStatus ==
    ASSUME NEW q, NEW o, NEW st, NEW w, NEW ks, ks \subseteq Keys,
           Typed(q, o, st, w), Queued(q, st, w), Pump(q, o, st, w, ks),
           NEW r \in Requests
    PROVE  /\ r \in Granted(q, o, w, ks) =>
                  st[r] = "waiting" /\ status'[r] = "granted"
           /\ r \notin Granted(q, o, w, ks) => status'[r] = st[r]
<1>1. ASSUME r \in Granted(q, o, w, ks)
      PROVE  st[r] = "waiting"
  <2>1. PICK k \in ks : q[k] # <<>> /\ Head(q[k]) = r
    BY <1>1, GrantedAreHeads
  <2>2. q[k] \in Seq(Requests) /\ k \in Keys
    BY <2>1 DEF Typed
  <2>3. q[k][1] = r /\ 1 \in 1..Len(q[k])
    BY <2>1, <2>2, HeadTailProperties, EmptySeq, LenProperties
  <2> QED BY <2>2, <2>3 DEF Queued
<1> QED BY <1>1 DEF Pump

LEMMA PumpQueues ==
    ASSUME NEW q, NEW o, NEW st, NEW w, NEW ks, ks \subseteq Keys,
           Typed(q, o, st, w), Queued(q, st, w), Pump(q, o, st, w, ks)
    PROVE  Queued(queue', status', w)
<1> DEFINE G == Granted(q, o, w, ks)
<1>1. ASSUME NEW k \in Keys, Taken(q, o, w, ks, k)
      PROVE  /\ queue'[k] = Tail(q[k])
             /\ Len(queue'[k]) = Len(q[k]) - 1
             /\ Len(q[k]) \in Nat \ {0}
             /\ \A i \in 1..Len(queue'[k]) :
                   i+1 \in 1..Len(q[k]) /\ queue'[k][i] = q[k][i+1]
             /\ q[k][1] \in G /\ k \in w[q[k][1]]
             /\ \A i \in 1..Len(q[k]) : i = 1 \/ i-1 \in 1..Len(queue'[k])
  <2>1. q[k] \in Seq(Requests)
    BY DEF Typed
  <2>2. q[k] # <<>> /\ queue'[k] = Tail(q[k]) /\ Head(q[k]) \in G /\ k \in w[Head(q[k])]
    BY <1>1, PumpEffect
  <2>3. Len(q[k]) \in Nat /\ Len(q[k]) # 0
    BY <2>1, <2>2, LenProperties, EmptySeq
  <2>4. Len(Tail(q[k])) = Len(q[k]) - 1 /\ Head(q[k]) = q[k][1]
        /\ \A i \in 1..Len(Tail(q[k])) : Tail(q[k])[i] = q[k][i+1]
    BY <2>1, <2>2, HeadTailProperties
  <2> QED BY <2>2, <2>3, <2>4
<1>2. ASSUME NEW k \in Keys, ~ Taken(q, o, w, ks, k)
      PROVE  queue'[k] = q[k]
  BY <1>2, PumpEffect
<1>3. ASSUME NEW k \in Keys
      PROVE  \A i, j \in 1..Len(queue'[k]) : queue'[k][i] = queue'[k][j] => i = j
  <2>1. CASE Taken(q, o, w, ks, k)
    BY <2>1, <1>1 DEF Queued
  <2>2. CASE ~ Taken(q, o, w, ks, k)
    BY <2>2, <1>2 DEF Queued
  <2> QED BY <2>1, <2>2
<1>4. ASSUME NEW k \in Keys, NEW i \in 1..Len(queue'[k])
      PROVE  status'[queue'[k][i]] = "waiting" /\ k \in w[queue'[k][i]]
  <2> DEFINE r == queue'[k][i]
  <2>1. r \in Requests
    BY PumpType, ElementOfSeq DEF Typed
  <2>2. st[r] = "waiting" /\ k \in w[r]
    BY <1>1, <1>2 DEF Queued
  <2>3. r \notin G
    <3> SUFFICES ASSUME r \in G
                 PROVE  FALSE
      OBVIOUS
    <3>1. Taken(q, o, w, ks, k) /\ q[k] # <<>> /\ Head(q[k]) = r
      BY <2>2, GrantedAreHeads DEF Taken
    <3>2. q[k][1] = r
      BY <3>1, HeadTailProperties DEF Typed
    <3>3. i+1 \in 1..Len(q[k]) /\ 1 \in 1..Len(q[k]) /\ q[k][i+1] = r /\ i+1 # 1
      BY <3>1, <1>1
    <3> QED BY <3>2, <3>3 DEF Queued
  <2> QED BY <2>1, <2>2, <2>3, PumpStatus
<1>5. ASSUME NEW r \in Requests, status'[r] = "waiting"
      PROVE  w[r] # {} /\ \A k \in w[r] : \E i \in 1..Len(queue'[k]) : queue'[k][i] = r
  <2>1. st[r] = "waiting" /\ r \notin G
    BY <1>5, PumpStatus
  <2>2. ASSUME NEW k \in w[r]
        PROVE  \E i \in 1..Len(queue'[k]) : queue'[k][i] = r
    <3>1. k \in Keys
      BY DEF Typed
    <3>2. PICK i \in 1..Len(q[k]) : q[k][i] = r
      BY <2>1 DEF Queued
    <3>3. CASE Taken(q, o, w, ks, k)
      <4>1. i # 1
        BY <3>1, <3>2, <3>3, <2>1, <1>1
      <4>2. i-1 \in 1..Len(queue'[k]) /\ queue'[k][i-1] = q[k][(i-1)+1]
        BY <3>1, <3>2, <3>3, <4>1, <1>1
      <4>3. (i-1)+1 = i
        BY <3>2
      <4> QED BY <4>2, <4>3, <3>2
    <3>4. CASE ~ Taken(q, o, w, ks, k)
      BY <3>1, <3>2, <3>4, <1>2
    <3> QED BY <3>3, <3>4
  <2> QED BY <2>1, <2>2 DEF Queued
<1> QED BY <1>3, <1>4, <1>5 DEF Queued

LEMMA PumpOwners ==
    ASSUME NEW q, NEW o, NEW st, NEW w, NEW ks, ks \subseteq Keys,
           Typed(q, o, st, w), Queued(q, st, w), Owned(o, st, w),
           Pump(q, o, st, w, ks)
    PROVE  Owned(owner', status', w)
<1> DEFINE G == Granted(q, o, w, ks)
<1>1. ASSUME NEW r \in Requests, status'[r] \in {"granted", "running"}, NEW k \in w[r]
      PROVE  owner'[k] = r
  <2>1. k \in Keys
    BY DEF Typed
  <2>2. CASE r \in G
    BY <2>1, <2>2, PumpEffect, GrantedAreHeads DEF Taken
  <2>3. CASE r \notin G
    <3>1. st[r] \in {"granted", "running"}
      BY <1>1, <2>3, PumpStatus
    <3>2. o[k] = r
      BY <3>1 DEF Owned
    <3>3. ~ Taken(q, o, w, ks, k)
      BY <3>2, GrantedAreHeads, NoneIsNoRequest DEF Taken
    <3> QED BY <2>1, <3>2, <3>3, PumpEffect
  <2> QED BY <2>2, <2>3
<1>2. ASSUME NEW k \in Keys, owner'[k] # None
      PROVE  status'[owner'[k]] \in {"granted", "running"} /\ k \in w[owner'[k]]
  <2>1. CASE Taken(q, o, w, ks, k)
    <3>1. owner'[k] \in G /\ k \in w[owner'[k]]
      BY <2>1, PumpEffect
    <3> QED BY <3>1, PumpStatus, GrantedAreHeads
  <2>2. CASE ~ Taken(q, o, w, ks, k)
    <3>1. owner'[k] = o[k] /\ o[k] \in Requests
      BY <1>2, <2>2, PumpEffect DEF Typed
    <3>2. st[o[k]] \in {"granted", "running"} /\ k \in w[o[k]]
      BY <1>2, <3>1 DEF Owned
    <3> QED BY <3>1, <3>2, PumpStatus
  <2> QED BY <2>1, <2>2
<1> QED BY <1>1, <1>2 DEF Owned

(* Pumping the keys of everybody whose chances may have changed leaves no  *)
(* waiter behind that could have been served.                              *)
LEMMA PumpWakes ==
    ASSUME NEW q, NEW o, NEW st, NEW w, NEW ks, ks \subseteq Keys,
           Typed(q, o, st, w), Queued(q, st, w), Pump(q, o, st, w, ks),
           \A r \in Requests : st[r] = "waiting" /\ Ready(q, o, w, r)
                                 => w[r] \cap ks # {}
    PROVE  \A r \in Requests :
              status'[r] = "waiting" => ~ Ready(queue', owner', w, r)
<1> SUFFICES ASSUME NEW r \in Requests, status'[r] = "waiting",
                    Ready(queue', owner', w, r)
             PROVE  FALSE
  OBVIOUS
<1>1. r \notin Granted(q, o, w, ks) /\ st[r] = "waiting"
  BY PumpStatus
<1>2. ASSUME NEW k \in w[r]
      PROVE  owner'[k] = o[k] /\ queue'[k] = q[k]
  <2>1. k \in Keys /\ owner'[k] = None
    BY DEF Typed, Ready
  <2>2. CASE Taken(q, o, w, ks, k)
    BY <2>1, <2>2, PumpEffect, GrantedAreHeads, NoneIsNoRequest
  <2> QED BY <2>1, <2>2, PumpEffect
<1>3. Ready(q, o, w, r)
  BY <1>2 DEF Ready, HeadIs
<1>4. PICK k \in ks : k \in w[r]
  BY <1>1, <1>3
<1> QED BY <1>1, <1>3, <1>4 DEF Granted, Ready

-----------------------------------------------------------------------------
(* The handlers: queues and owners are consistent when Pump is called.     *)

LEMMA AcquireBeforePump ==
    ASSUME IInv, NEW r \in Requests, NEW p \in Requests \cup {None},
           NEW ks \in SUBSET Keys, Acquire(r, p, ks),
           NEW st, st = [status EXCEPT ![r] = IF ks = {} THEN "granted" ELSE "waiting"]
    PROVE  /\ Typed(Push(r, ks), owner, st, wants')
           /\ Queued(Push(r, ks), st, wants')
           /\ Owned(owner, st, wants')
<1> DEFINE q == Push(r, ks)
           w == wants'
<1>1. /\ status[r] = "idle" /\ st[r] = (IF ks = {} THEN "granted" ELSE "waiting")
      /\ w[r] = ks /\ st \in [Requests -> Statuses] /\ w \in [Requests -> SUBSET Keys]
      /\ \A s \in Requests \ {r} : st[s] = status[s] /\ w[s] = wants[s]
  BY DEF IInv, TypeOK, Acquire, Call, Statuses
<1>2. ASSUME NEW k \in Keys
      PROVE  /\ q[k] \in Seq(Requests)
             /\ k \notin ks => q[k] = queue[k]
             /\ k \in ks => /\ Len(q[k]) = Len(queue[k]) + 1
                            /\ q[k][Len(queue[k]) + 1] = r
                            /\ \A i \in 1..Len(queue[k]) : q[k][i] = queue[k][i]
  <2>1. queue[k] \in Seq(Requests)
    BY DEF IInv, TypeOK
  <2>2. q[k] = IF k \in ks THEN Append(queue[k], r) ELSE queue[k]
    BY DEF Push
  <2>3. /\ Append(queue[k], r) \in Seq(Requests)
        /\ Len(Append(queue[k], r)) = Len(queue[k]) + 1
        /\ Append(queue[k], r)[Len(queue[k]) + 1] = r
        /\ \A i \in 1..Len(queue[k]) : Append(queue[k], r)[i] = queue[k][i]
    BY <2>1, AppendProperties
  <2> QED BY <2>1, <2>2, <2>3
<1>3. \A k \in Keys : Len(queue[k]) \in Nat
  BY LenProperties DEF IInv, TypeOK
<1>4. \A k \in Keys : \A i \in 1..Len(queue[k]) :
         queue[k][i] # r /\ queue[k][i] \in Requests
  BY <1>1, ElementOfSeq DEF IInv, TypeOK, QueuesHoldWaiters
<1>5. Typed(q, owner, st, w)
  BY <1>1, <1>2 DEF Typed, IInv, TypeOK, Push
<1> HIDE DEF q, w
<1>6. ASSUME NEW k \in Keys, NEW i \in 1..Len(q[k])
      PROVE  st[q[k][i]] = "waiting" /\ k \in w[q[k][i]]
  <2>1. CASE k \in ks /\ i = Len(queue[k]) + 1
    BY <2>1, <1>1, <1>2
  <2>2. CASE ~(k \in ks /\ i = Len(queue[k]) + 1)
    <3>1. i \in 1..Len(queue[k]) /\ q[k][i] = queue[k][i]
      BY <2>2, <1>2, <1>3
    <3> QED BY <3>1, <1>1, <1>4 DEF IInv, QueuesHoldWaiters
  <2> QED BY <2>1, <2>2
<1>7. ASSUME NEW k \in Keys, NEW i \in 1..Len(q[k]), NEW j \in 1..Len(q[k]),
             q[k][i] = q[k][j]
      PROVE  i = j
  <2>1. CASE k \in ks
    <3>1. i = Len(queue[k]) + 1 \/ i \in 1..Len(queue[k])
      BY <2>1, <1>2, <1>3
    <3>2. j = Len(queue[k]) + 1 \/ j \in 1..Len(queue[k])
      BY <2>1, <1>2, <1>3
    <3> QED BY <3>1, <3>2, <2>1, <1>2, <1>4, <1>7 DEF IInv, QueuesHoldWaiters
  <2>2. CASE k \notin ks
    BY <2>2, <1>2, <1>7 DEF IInv, QueuesHoldWaiters
  <2> QED BY <2>1, <2>2
<1>8. ASSUME NEW s \in Requests, st[s] = "waiting"
      PROVE  w[s] # {} /\ \A k \in w[s] : \E i \in 1..Len(q[k]) : q[k][i] = s
  <2>1. CASE s = r
    <3>1. \A k \in ks : Len(queue[k]) + 1 \in 1..Len(q[k]) /\ q[k][Len(queue[k]) + 1] = r
      BY <1>2, <1>3
    <3> QED BY <3>1, <2>1, <1>1, <1>8
  <2>2. CASE s # r
    <3>1. status[s] = "waiting" /\ w[s] = wants[s]
      BY <2>2, <1>1, <1>8
    <3>2. ASSUME NEW k \in w[s]
          PROVE  \E i \in 1..Len(q[k]) : q[k][i] = s
      <4>1. k \in Keys
        BY <1>1
      <4>2. PICK i \in 1..Len(queue[k]) : queue[k][i] = s
        BY <3>1 DEF IInv, QueuesHoldWaiters
      <4>3. i \in 1..Len(q[k]) /\ q[k][i] = s
        BY <4>1, <4>2, <1>2, <1>3
      <4> QED BY <4>3
    <3> QED BY <3>1, <3>2 DEF IInv, QueuesHoldWaiters
  <2> QED BY <2>1, <2>2
<1>9. Owned(owner, st, w)
  <2>1. \A k \in Keys : owner[k] # r
    BY <1>1, NoneIsNoRequest DEF IInv, OwnersHold, Holding
  <2>2. \A k \in Keys : owner[k] # None => owner[k] \in Requests \ {r}
    BY <2>1 DEF IInv, TypeOK
  <2> QED BY <1>1, <2>1, <2>2 DEF IInv, OwnersHold, Holding, Owned
<1>10. Queued(q, st, w)
  BY <1>6, <1>7, <1>8 DEF Queued
<1> QED BY <1>5, <1>9, <1>10 DEF q, w

LEMMA CancelBeforePump ==
    ASSUME IInv, NEW r \in Requests, status[r] = "waiting",
           NEW st, st = [status EXCEPT ![r] = "settled"],
           NEW q, q = [k \in Keys |-> IF k \in wants[r] THEN RemoveWaiter(queue[k], r)
                                                      ELSE queue[k]]
    PROVE  Typed(q, owner, st, wants) /\ Queued(q, st, wants) /\ Owned(owner, st, wants)
<1>1. /\ st[r] = "settled" /\ st \in [Requests -> Statuses]
      /\ \A s \in Requests \ {r} : st[s] = status[s]
  BY DEF IInv, TypeOK, Statuses
<1>2. ASSUME NEW k \in Keys, k \in wants[r]
      PROVE  /\ q[k] \in Seq(Requests)
             /\ \A j \in 1..Len(q[k]) : q[k][j] # r
             /\ \A j \in 1..Len(q[k]) : \E i \in 1..Len(queue[k]) : queue[k][i] = q[k][j]
             /\ \A i \in 1..Len(queue[k]) :
                   queue[k][i] # r => \E j \in 1..Len(q[k]) : q[k][j] = queue[k][i]
             /\ \A i, j \in 1..Len(q[k]) : q[k][i] = q[k][j] => i = j
  <2>1. queue[k] \in Seq(Requests)
    BY DEF IInv, TypeOK
  <2>2. \A i, j \in 1..Len(queue[k]) : queue[k][i] = queue[k][j] => i = j
    BY DEF IInv, QueuesHoldWaiters
  <2>3. q[k] = RemoveWaiter(queue[k], r)
    BY <1>2
  <2> DEFINE s == queue[k]
             t == RemoveWaiter(s, r)
  <2>4. s \in Seq(Requests) /\ \A i, j \in 1..Len(s) : s[i] = s[j] => i = j
    BY <2>1, <2>2
  <2> HIDE DEF s
  <2>5. /\ t \in Seq(Requests)
        /\ \A j \in 1..Len(t) : t[j] # r
        /\ \A j \in 1..Len(t) : \E i \in 1..Len(s) : s[i] = t[j]
        /\ \A i \in 1..Len(s) : s[i] # r => \E j \in 1..Len(t) : t[j] = s[i]
        /\ \A i, j \in 1..Len(t) : t[i] = t[j] => i = j
    BY ONLY <2>4, RemoveWaiterProperties
  <2> HIDE DEF t
  <2>6. q[k] = t /\ queue[k] = s
    BY <2>3 DEF t, s
  <2>7. /\ q[k] \in Seq(Requests)
        /\ \A j \in 1..Len(q[k]) : q[k][j] # r
        /\ \A j \in 1..Len(q[k]) : \E i \in 1..Len(s) : s[i] = q[k][j]
        /\ \A i \in 1..Len(s) : s[i] # r => \E j \in 1..Len(q[k]) : q[k][j] = s[i]
        /\ \A i, j \in 1..Len(q[k]) : q[k][i] = q[k][j] => i = j
    BY ONLY <2>5, <2>6, Zenon
  <2> QED BY ONLY <2>6, <2>7, Zenon
<1>3. ASSUME NEW k \in Keys, k \notin wants[r]
      PROVE  q[k] = queue[k]
  BY <1>3
<1>4. Typed(q, owner, st, wants)
  <2>1. \A k \in Keys : q[k] \in Seq(Requests)
    BY <1>2, <1>3 DEF IInv, TypeOK
  <2> QED BY <2>1, <1>1 DEF Typed, IInv, TypeOK
<1>5. ASSUME NEW k \in Keys, NEW i \in 1..Len(q[k])
      PROVE  st[q[k][i]] = "waiting" /\ k \in wants[q[k][i]]
  <2>1. PICK j \in 1..Len(queue[k]) : queue[k][j] = q[k][i]
    BY <1>2, <1>3
  <2>2. status[q[k][i]] = "waiting" /\ k \in wants[q[k][i]] /\ q[k][i] \in Requests
    BY <2>1, ElementOfSeq DEF IInv, TypeOK, QueuesHoldWaiters
  <2>3. q[k][i] # r
    BY <2>2, <1>2
  <2> QED BY <2>2, <2>3, <1>1
<1>6. ASSUME NEW k \in Keys
      PROVE  \A i, j \in 1..Len(q[k]) : q[k][i] = q[k][j] => i = j
  BY <1>2, <1>3 DEF IInv, QueuesHoldWaiters
<1>7. ASSUME NEW s \in Requests, st[s] = "waiting"
      PROVE  wants[s] # {} /\ \A k \in wants[s] : \E i \in 1..Len(q[k]) : q[k][i] = s
  <2>1. s # r /\ status[s] = "waiting"
    BY <1>1, <1>7
  <2>2. ASSUME NEW k \in wants[s]
        PROVE  \E i \in 1..Len(q[k]) : q[k][i] = s
    <3>1. k \in Keys
      BY DEF IInv, TypeOK
    <3>2. PICK i \in 1..Len(queue[k]) : queue[k][i] = s
      BY <2>1 DEF IInv, QueuesHoldWaiters
    <3> QED BY <2>1, <3>1, <3>2, <1>2, <1>3
  <2> QED BY <2>1, <2>2 DEF IInv, QueuesHoldWaiters
<1>8. Queued(q, st, wants)
  BY <1>5, <1>6, <1>7 DEF Queued
<1>9. Owned(owner, st, wants)
  <2>1. \A k \in Keys : owner[k] # r
    BY NoneIsNoRequest DEF IInv, OwnersHold, Holding
  <2>2. \A k \in Keys : owner[k] # None => owner[k] \in Requests \ {r}
    BY <2>1 DEF IInv, TypeOK
  <2> QED BY <1>1, <2>1, <2>2 DEF IInv, OwnersHold, Holding, Owned
<1> QED BY <1>4, <1>8, <1>9

LEMMA ReleaseBeforePump ==
    ASSUME IInv, NEW r \in Requests, Holding(r),
           NEW st, st = [status EXCEPT ![r] = "settled"]
    PROVE  /\ Typed(queue, Freed(r), st, wants)
           /\ Queued(queue, st, wants)
           /\ Owned(Freed(r), st, wants)
<1>1. /\ st[r] = "settled" /\ st \in [Requests -> Statuses]
      /\ \A s \in Requests \ {r} : st[s] = status[s]
  BY DEF IInv, TypeOK, Statuses
<1>2. Typed(queue, Freed(r), st, wants)
  BY <1>1 DEF Typed, IInv, TypeOK, Freed
<1>3. \A k \in Keys : \A i \in 1..Len(queue[k]) : queue[k][i] \in Requests \ {r}
  BY ElementOfSeq DEF IInv, TypeOK, QueuesHoldWaiters, Holding
<1>4. Queued(queue, st, wants)
  BY <1>1, <1>3 DEF Queued, IInv, QueuesHoldWaiters
<1>5. \A k \in Keys : Freed(r)[k] = IF owner[k] = r THEN None ELSE owner[k]
  BY NoneIsNoRequest DEF Freed, IInv, OwnersHold
<1>6. ASSUME NEW s \in Requests, st[s] \in {"granted", "running"}, NEW k \in wants[s]
      PROVE  Freed(r)[k] = s
  <2>1. s # r /\ status[s] = st[s]
    BY <1>1, <1>6
  <2>2. k \in Keys /\ owner[k] = s
    BY <2>1, <1>6 DEF IInv, TypeOK, OwnersHold, Holding
  <2> QED BY <2>1, <2>2, <1>5
<1>7. ASSUME NEW k \in Keys, Freed(r)[k] # None
      PROVE  st[Freed(r)[k]] \in {"granted", "running"} /\ k \in wants[Freed(r)[k]]
  <2>1. Freed(r)[k] = owner[k] /\ owner[k] \in Requests \ {r}
    BY <1>5, <1>7 DEF IInv, TypeOK
  <2> QED BY <2>1, <1>1, <1>7 DEF IInv, OwnersHold, Holding
<1> QED BY <1>2, <1>4, <1>6, <1>7 DEF Owned

-----------------------------------------------------------------------------
(* The inductive invariant and what follows from it. *)

LEMMA InitIInv == Init => IInv
<1> SUFFICES ASSUME Init
             PROVE  IInv
  OBVIOUS
<1>1. \A k \in Keys : queue[k] = <<>> /\ Len(queue[k]) = 0 /\ owner[k] = None
  BY EmptySeq DEF Init
<1>2. TypeOK
  BY EmptySeq DEF Init, TypeOK, Statuses
<1> QED BY <1>1, <1>2 DEF Init, IInv, QueuesHoldWaiters, OwnersHold, Holding

(* After a Pump, the parametrised forms are the invariants themselves.     *)
LEMMA AfterPump ==
    ASSUME NEW q, NEW o, NEW st, NEW ks \in SUBSET Keys,
           Typed(q, o, st, wants'), Queued(q, st, wants'), Owned(o, st, wants'),
           Pump(q, o, st, wants', ks),
           context' \in [Requests -> SUBSET Keys],
           caller' \in [Requests -> Requests \cup {None}],
           aborted' \in SUBSET Requests
    PROVE  IInv'
<1>1. Typed(queue', owner', status', wants')
  BY PumpType
<1>2. Queued(queue', status', wants')
  BY PumpQueues
<1>3. Owned(owner', status', wants')
  BY PumpOwners
<1>4. TypeOK'
  BY <1>1 DEF Typed, TypeOK
<1>5. QueuesHoldWaiters'
  BY <1>2 DEF Queued, QueuesHoldWaiters
<1>6. OwnersHold'
  BY <1>3 DEF Owned, OwnersHold, Holding
<1> QED BY <1>4, <1>5, <1>6 DEF IInv

LEMMA HeldByType ==
    ASSUME TypeOK, NEW p \in Requests \cup {None}
    PROVE  HeldBy(p) \in SUBSET Keys
BY DEF TypeOK, HeldBy

LEMMA NextIInv == IInv /\ [Next]_vars => IInv'
<1> SUFFICES ASSUME IInv, [Next]_vars
             PROVE  IInv'
  OBVIOUS
<1>1. ASSUME NEW r \in Requests, NEW p \in Requests \cup {None}, NEW ks \in SUBSET Keys,
             Refuse(r, p, ks)
      PROVE  IInv'
  <2>1. TypeOK'
    BY <1>1, HeldByType DEF IInv, TypeOK, Refuse, Call, Statuses
  <2>2. /\ status[r] = "idle" /\ status' = [status EXCEPT ![r] = "settled"]
        /\ UNCHANGED <<wants, queue, owner>>
    BY <1>1 DEF Refuse, Call
  <2>3. \A s \in Requests : status'[s] = status[s] \/ (s = r /\ status'[s] = "settled")
    BY <2>2 DEF IInv, TypeOK
  <2>4. \A k \in Keys : \A i \in 1..Len(queue[k]) : queue[k][i] \in Requests
    BY ElementOfSeq DEF IInv, TypeOK
  <2>5. QueuesHoldWaiters'
    BY <2>2, <2>3, <2>4 DEF IInv, QueuesHoldWaiters
  <2>6. \A k \in Keys : owner[k] # None => owner[k] \in Requests \ {r}
    BY <2>2 DEF IInv, TypeOK, OwnersHold, Holding
  <2>7. OwnersHold'
    BY <2>2, <2>3, <2>6 DEF IInv, OwnersHold, Holding
  <2> QED BY <2>1, <2>5, <2>7 DEF IInv
<1>2. ASSUME NEW r \in Requests, NEW p \in Requests \cup {None}, NEW ks \in SUBSET Keys,
             Acquire(r, p, ks)
      PROVE  IInv'
  <2> DEFINE st == [status EXCEPT ![r] = IF ks = {} THEN "granted" ELSE "waiting"]
  <2>1. /\ Typed(Push(r, ks), owner, st, wants')
        /\ Queued(Push(r, ks), st, wants')
        /\ Owned(owner, st, wants')
    BY <1>2, AcquireBeforePump
  <2>2. Pump(Push(r, ks), owner, st, wants', ks)
    BY <1>2 DEF Acquire
  <2>3. /\ context' \in [Requests -> SUBSET Keys]
        /\ caller' \in [Requests -> Requests \cup {None}]
        /\ aborted' \in SUBSET Requests
    BY <1>2, HeldByType DEF Acquire, Call, IInv, TypeOK
  <2> HIDE DEF st
  <2> QED BY <2>1, <2>2, <2>3, AfterPump
<1>3. ASSUME NEW r \in Requests, Cancel(r)
      PROVE  IInv'
  <2> DEFINE st == [status EXCEPT ![r] = "settled"]
             q == [k \in Keys |-> IF k \in wants[r] THEN RemoveWaiter(queue[k], r)
                                                   ELSE queue[k]]
  <2>1. wants' = wants /\ status[r] = "waiting" /\ wants[r] \in SUBSET Keys
    BY <1>3 DEF Cancel, IInv, TypeOK
  <2>2. Typed(q, owner, st, wants) /\ Queued(q, st, wants) /\ Owned(owner, st, wants)
    BY <2>1, CancelBeforePump
  <2>3. Pump(q, owner, st, wants, wants[r])
    BY <1>3 DEF Cancel
  <2>4. /\ context' \in [Requests -> SUBSET Keys]
        /\ caller' \in [Requests -> Requests \cup {None}]
        /\ aborted' \in SUBSET Requests
    BY <1>3 DEF Cancel, IInv, TypeOK
  <2> HIDE DEF st, q
  <2> QED BY <2>1, <2>2, <2>3, <2>4, AfterPump
<1>4. ASSUME NEW r \in Requests, AbortUnlistened(r)
      PROVE  IInv'
  BY <1>4 DEF AbortUnlistened, IInv, TypeOK, QueuesHoldWaiters, OwnersHold, Holding
<1>5. ASSUME NEW r \in Requests, Start(r)
      PROVE  IInv'
  <2>1. /\ status[r] = "granted" /\ status' = [status EXCEPT ![r] = "running"]
        /\ UNCHANGED <<wants, context, caller, aborted, queue, owner>>
    BY <1>5 DEF Start
  <2>2. TypeOK'
    BY <2>1 DEF IInv, TypeOK, Statuses
  <2>3. \A s \in Requests : /\ status'[s] = "waiting" <=> status[s] = "waiting"
                            /\ Holding(s)' <=> Holding(s)
    BY <2>1 DEF IInv, TypeOK, Holding
  <2>4. /\ \A k \in Keys : \A i \in 1..Len(queue[k]) : queue[k][i] \in Requests
        /\ \A k \in Keys : owner[k] # None => owner[k] \in Requests
    BY ElementOfSeq DEF IInv, TypeOK
  <2>5. QueuesHoldWaiters'
    BY <2>1, <2>3, <2>4 DEF IInv, QueuesHoldWaiters
  <2>6. OwnersHold'
    BY <2>1, <2>3, <2>4 DEF IInv, OwnersHold, Holding
  <2> QED BY <2>2, <2>5, <2>6 DEF IInv
<1>6. ASSUME NEW r \in Requests, Holding(r), Release(r)
      PROVE  IInv'
  <2> DEFINE st == [status EXCEPT ![r] = "settled"]
  <2>1. wants' = wants /\ wants[r] \in SUBSET Keys
    BY <1>6 DEF Release, IInv, TypeOK
  <2>2. Typed(queue, Freed(r), st, wants) /\ Queued(queue, st, wants) /\ Owned(Freed(r), st, wants)
    BY <1>6, ReleaseBeforePump
  <2>3. Pump(queue, Freed(r), st, wants, wants[r])
    BY <1>6 DEF Release
  <2>4. /\ context' \in [Requests -> SUBSET Keys]
        /\ caller' \in [Requests -> Requests \cup {None}]
        /\ aborted' \in SUBSET Requests
    BY <1>6 DEF Release, IInv, TypeOK
  <2> HIDE DEF st
  <2> QED BY <2>1, <2>2, <2>3, <2>4, AfterPump
<1>7. CASE UNCHANGED vars
  BY <1>7 DEF vars, IInv, TypeOK, QueuesHoldWaiters, OwnersHold, Holding
<1> QED BY <1>1, <1>2, <1>3, <1>4, <1>5, <1>6, <1>7
        DEF Next, Withdraw, Finish, Holding

(* In every reachable state the queues and owner slots agree with the      *)
(* states of the calls.                                                    *)
THEOREM InductiveInvariant == Spec => []IInv
BY InitIInv, NextIInv, PTL DEF Spec

(* Every variable keeps the type declared for it.                          *)
THEOREM TypeCorrect == Spec => []TypeOK
<1>1. IInv => TypeOK
  BY DEF IInv
<1> QED BY <1>1, InductiveInvariant, PTL

(* A queue holds exactly the waiters that want its key, each once.         *)
THEOREM QueuesCorrect == Spec => []QueuesHoldWaiters
<1>1. IInv => QueuesHoldWaiters
  BY DEF IInv
<1> QED BY <1>1, InductiveInvariant, PTL

(* A call owns all of its keys from its grant to its release, and no other. *)
THEOREM OwnersCorrect == Spec => []OwnersHold
<1>1. IInv => OwnersHold
  BY DEF IInv
<1> QED BY <1>1, InductiveInvariant, PTL

(* Two calls in possession of their keys never share one, whatever the     *)
(* numbers of calls and keys, with nested calls and aborts at any point.   *)
THEOREM MutualExclusionHolds == Spec => []MutualExclusion
<1>1. IInv => MutualExclusion
  BY DEF IInv, OwnersHold, MutualExclusion
<1> QED BY <1>1, InductiveInvariant, PTL

-----------------------------------------------------------------------------
(* A handler changes heads and owners of its own keys only: a waiter that  *)
(* is ready when it pumps wants one of them.                               *)

LEMMA AcquireTouches ==
    ASSUME IInv, NoLostWakeup, NEW r \in Requests, NEW p \in Requests \cup {None},
           NEW ks \in SUBSET Keys, Acquire(r, p, ks),
           NEW st, st = [status EXCEPT ![r] = IF ks = {} THEN "granted" ELSE "waiting"],
           NEW s \in Requests, st[s] = "waiting", Ready(Push(r, ks), owner, wants', s)
    PROVE  wants'[s] \cap ks # {}
<1> SUFFICES ASSUME wants'[s] \cap ks = {} PROVE FALSE
  OBVIOUS
<1>1. wants'[r] = ks /\ (ks = {} => st[r] = "granted")
  BY DEF Acquire, IInv, TypeOK
<1>2. s # r
  BY <1>1
<1>3. status[s] = "waiting" /\ wants'[s] = wants[s]
  BY <1>2 DEF Acquire, IInv, TypeOK
<1>4. \A k \in wants[s] : Push(r, ks)[k] = queue[k]
  BY <1>3 DEF Push, IInv, TypeOK
<1>5. Ready(queue, owner, wants, s)
  BY <1>3, <1>4 DEF Ready, HeadIs
<1> QED BY <1>3, <1>5 DEF NoLostWakeup

LEMMA CancelTouches ==
    ASSUME IInv, NoLostWakeup, NEW r \in Requests,
           NEW q, q = [k \in Keys |-> IF k \in wants[r] THEN RemoveWaiter(queue[k], r)
                                                       ELSE queue[k]],
           NEW s \in Requests, status[s] = "waiting", Ready(q, owner, wants, s)
    PROVE  wants[s] \cap wants[r] # {}
<1> SUFFICES ASSUME wants[s] \cap wants[r] = {} PROVE FALSE
  OBVIOUS
<1>1. \A k \in wants[s] : q[k] = queue[k]
  BY DEF IInv, TypeOK
<1>2. Ready(queue, owner, wants, s)
  BY <1>1 DEF Ready, HeadIs
<1> QED BY <1>2 DEF NoLostWakeup

LEMMA ReleaseTouches ==
    ASSUME IInv, NoLostWakeup, NEW r \in Requests,
           NEW s \in Requests, status[s] = "waiting", Ready(queue, Freed(r), wants, s)
    PROVE  wants[s] \cap wants[r] # {}
<1> SUFFICES ASSUME wants[s] \cap wants[r] = {} PROVE FALSE
  OBVIOUS
<1>1. \A k \in wants[s] : Freed(r)[k] = owner[k]
  BY DEF Freed, IInv, TypeOK
<1>2. Ready(queue, owner, wants, s)
  BY <1>1 DEF Ready
<1> QED BY <1>2 DEF NoLostWakeup

(* pump looks only at the keys of the call that enters, leaves or ends,    *)
(* and still no waiter that could be served is ever left behind.           *)
THEOREM NoLostWakeupHolds == Spec => []NoLostWakeup
<1>1. Init => NoLostWakeup
  BY DEF Init, NoLostWakeup
<1>2. IInv /\ NoLostWakeup /\ [Next]_vars => NoLostWakeup'
  <2> SUFFICES ASSUME IInv, NoLostWakeup, [Next]_vars
               PROVE  NoLostWakeup'
    OBVIOUS
  <2>1. ASSUME NEW r \in Requests, NEW p \in Requests \cup {None}, NEW ks \in SUBSET Keys,
               Refuse(r, p, ks)
        PROVE  NoLostWakeup'
    BY <2>1 DEF Refuse, Call, NoLostWakeup, Ready, HeadIs, IInv, TypeOK
  <2>2. ASSUME NEW r \in Requests, NEW p \in Requests \cup {None}, NEW ks \in SUBSET Keys,
               Acquire(r, p, ks)
        PROVE  NoLostWakeup'
    <3> DEFINE st == [status EXCEPT ![r] = IF ks = {} THEN "granted" ELSE "waiting"]
               q == Push(r, ks)
    <3>1. Typed(q, owner, st, wants') /\ Queued(q, st, wants')
      BY <2>2, AcquireBeforePump
    <3>2. Pump(q, owner, st, wants', ks)
      BY <2>2 DEF Acquire
    <3>3. \A s \in Requests :
             st[s] = "waiting" /\ Ready(q, owner, wants', s) => wants'[s] \cap ks # {}
      BY <2>2, AcquireTouches
    <3> HIDE DEF st, q
    <3> QED BY <3>1, <3>2, <3>3, PumpWakes DEF NoLostWakeup
  <2>3. ASSUME NEW r \in Requests, Cancel(r)
        PROVE  NoLostWakeup'
    <3> DEFINE st == [status EXCEPT ![r] = "settled"]
               q == [k \in Keys |-> IF k \in wants[r] THEN RemoveWaiter(queue[k], r)
                                                     ELSE queue[k]]
    <3>1. wants' = wants /\ status[r] = "waiting" /\ wants[r] \in SUBSET Keys
      BY <2>3 DEF Cancel, IInv, TypeOK
    <3>2. Typed(q, owner, st, wants) /\ Queued(q, st, wants)
      BY <3>1, CancelBeforePump
    <3>3. Pump(q, owner, st, wants, wants[r])
      BY <2>3 DEF Cancel
    <3>4. \A s \in Requests :
             st[s] = "waiting" /\ Ready(q, owner, wants, s) => wants[s] \cap wants[r] # {}
      BY CancelTouches DEF IInv, TypeOK
    <3> HIDE DEF st, q
    <3> QED BY <3>1, <3>2, <3>3, <3>4, PumpWakes DEF NoLostWakeup
  <2>4. ASSUME NEW r \in Requests, AbortUnlistened(r)
        PROVE  NoLostWakeup'
    BY <2>4 DEF AbortUnlistened, NoLostWakeup, Ready, HeadIs
  <2>5. ASSUME NEW r \in Requests, Start(r)
        PROVE  NoLostWakeup'
    BY <2>5 DEF Start, NoLostWakeup, Ready, HeadIs, IInv, TypeOK
  <2>6. ASSUME NEW r \in Requests, Holding(r), Release(r)
        PROVE  NoLostWakeup'
    <3> DEFINE st == [status EXCEPT ![r] = "settled"]
               o == Freed(r)
    <3>1. wants' = wants /\ wants[r] \in SUBSET Keys
      BY <2>6 DEF Release, IInv, TypeOK
    <3>2. Typed(queue, o, st, wants) /\ Queued(queue, st, wants)
      BY <2>6, ReleaseBeforePump
    <3>3. Pump(queue, o, st, wants, wants[r])
      BY <2>6 DEF Release
    <3>4. \A s \in Requests :
             st[s] = "waiting" /\ Ready(queue, o, wants, s) => wants[s] \cap wants[r] # {}
      BY ReleaseTouches DEF IInv, TypeOK
    <3> HIDE DEF st, o
    <3> QED BY <3>1, <3>2, <3>3, <3>4, PumpWakes DEF NoLostWakeup
  <2>7. CASE UNCHANGED vars
    BY <2>7 DEF vars, NoLostWakeup, Ready, HeadIs
  <2> QED BY <2>1, <2>2, <2>3, <2>4, <2>5, <2>6, <2>7
          DEF Next, Withdraw, Finish, Holding
<1> QED BY <1>1, <1>2, InductiveInvariant, PTL DEF Spec
-----------------------------------------------------------------------------
(***************************************************************************)
(* Last, KeyedScheduler implements FifoKeyLocks.                           *)
(*                                                                         *)
(* The heart is ReadyIsEligible: with queues and owners as the invariants  *)
(* above have them, a waiter is at the head of all its queues with all     *)
(* keys free if, and only if, nobody served and nobody before it in the    *)
(* line wants one of its keys.  As no wake-up is lost, a pump of the       *)
(* caller's own keys then serves whom the line serves.                     *)
(***************************************************************************)

(* AbstractPhase and QueuedBefore of any states and queues.                *)
PhaseOf(st) ==
    [r \in Requests |-> IF st[r] = "idle" THEN "new"
                        ELSE IF st[r] = "waiting" THEN "waiting"
                        ELSE IF st[r] \in {"granted", "running"} THEN "holding"
                        ELSE "gone"]

Before(q) ==
    {pair \in Requests \X Requests :
        \E k \in Keys : \E i, j \in 1..Len(q[k]) :
            i < j /\ q[k][i] = pair[1] /\ q[k][j] = pair[2]}

LEMMA AbstractState == AbstractPhase = PhaseOf(status) /\ QueuedBefore = Before(queue)
BY DEF AbstractPhase, PhaseOf, QueuedBefore, Before, Holding

LEMMA PhaseOfValues ==
    ASSUME NEW st \in [Requests -> Statuses], NEW r \in Requests
    PROVE  /\ PhaseOf(st)[r] = "new" <=> st[r] = "idle"
           /\ PhaseOf(st)[r] = "waiting" <=> st[r] = "waiting"
           /\ PhaseOf(st)[r] = "holding" <=> st[r] \in {"granted", "running"}
           /\ PhaseOf(st)[r] = "gone" <=> st[r] = "settled"
BY DEF PhaseOf, Statuses

(* Two waiting calls with a key in common stand in one order or the other. *)
LEMMA ReadyIsEligible ==
    ASSUME NEW q, NEW o, NEW st, NEW w,
           Typed(q, o, st, w), Queued(q, st, w), Owned(o, st, w), NEW r \in Requests
    PROVE  r \in Line!Eligible(w, PhaseOf(st), Before(q))
              <=> st[r] = "waiting" /\ Ready(q, o, w, r)
<1>0. /\ \A k \in Keys : q[k] \in Seq(Requests) /\ Len(q[k]) \in Nat
      /\ st \in [Requests -> Statuses] /\ w \in [Requests -> SUBSET Keys]
      /\ \A k \in Keys : o[k] \in Requests \cup {None}
      /\ \A k \in Keys : \A i \in 1..Len(q[k]) : q[k][i] \in Requests
  BY ElementOfSeq, LenProperties DEF Typed
<1>1. ASSUME st[r] = "waiting", Ready(q, o, w, r)
      PROVE  r \in Line!Eligible(w, PhaseOf(st), Before(q))
  <2> SUFFICES ASSUME NEW s \in Requests, Line!Share(w, r, s)
               PROVE  /\ st[s] \notin {"granted", "running"}
                      /\ ~ (st[s] = "waiting" /\ <<s, r>> \in Before(q))
    BY <1>0, <1>1, PhaseOfValues DEF Line!Eligible
  <2>1. PICK k \in Keys : k \in w[r] /\ k \in w[s] /\ r # s
    BY <1>0 DEF Line!Share
  <2>2. o[k] = None
    BY <1>1, <2>1 DEF Ready
  <2>3. st[s] \notin {"granted", "running"}
    BY <2>1, <2>2, NoneIsNoRequest DEF Owned
  <2>4. ASSUME <<s, r>> \in Before(q)
        PROVE  FALSE
    <3>1. PICK l \in Keys : \E i, j \in 1..Len(q[l]) : i < j /\ q[l][i] = s /\ q[l][j] = r
      BY <2>4 DEF Before
    <3>2. PICK i \in 1..Len(q[l]), j \in 1..Len(q[l]) : i < j /\ q[l][i] = s /\ q[l][j] = r
      BY <3>1
    <3>3. l \in w[r]
      BY <3>2 DEF Queued
    <3>4. q[l] # <<>> /\ Head(q[l]) = r
      BY <1>1, <3>3 DEF Ready, HeadIs
    <3>5. 1 \in 1..Len(q[l]) /\ q[l][1] = r
      BY <1>0, <3>2, <3>4, HeadTailProperties
    <3>6. j = 1
      BY <3>2, <3>5 DEF Queued
    <3> QED BY <1>0, <3>2, <3>6
  <2> QED BY <2>3, <2>4
<1>2. ASSUME r \in Line!Eligible(w, PhaseOf(st), Before(q))
      PROVE  st[r] = "waiting" /\ Ready(q, o, w, r)
  <2>1. st[r] = "waiting"
    BY <1>0, <1>2, PhaseOfValues DEF Line!Eligible
  <2>2. ASSUME NEW s \in Requests, Line!Share(w, r, s)
        PROVE  /\ st[s] \notin {"granted", "running"}
               /\ ~ (st[s] = "waiting" /\ <<s, r>> \in Before(q))
    BY <1>0, <1>2, <2>2, PhaseOfValues DEF Line!Eligible
  <2>3. ASSUME NEW k \in w[r]
        PROVE  o[k] = None /\ HeadIs(q, k, r)
    <3>1. k \in Keys
      BY <1>0
    <3>2. o[k] = None
      <4>1. ASSUME o[k] # None
            PROVE  FALSE
        <5>1. /\ o[k] \in Requests /\ st[o[k]] \in {"granted", "running"} /\ k \in w[o[k]]
          BY <1>0, <3>1, <4>1 DEF Owned
        <5>2. Line!Share(w, r, o[k])
          BY <2>1, <5>1 DEF Line!Share
        <5> QED BY <2>2, <5>1, <5>2
      <4> QED BY <4>1
    <3>3. PICK j \in 1..Len(q[k]) : q[k][j] = r
      BY <2>1, <3>1 DEF Queued
    <3>4. 1 \in 1..Len(q[k]) /\ q[k] # <<>> /\ Head(q[k]) = q[k][1]
      BY <1>0, <3>1, <3>3, HeadTailProperties, EmptySeq
    <3>5. ASSUME j # 1
          PROVE  FALSE
      <4> DEFINE s == q[k][1]
      <4>1. s \in Requests /\ st[s] = "waiting" /\ k \in w[s] /\ s # r
        BY <1>0, <3>1, <3>3, <3>4, <3>5 DEF Queued
      <4>2. <<s, r>> \in Before(q)
        BY <1>0, <3>1, <3>3, <3>4, <3>5, <4>1 DEF Before
      <4>3. Line!Share(w, r, s)
        BY <4>1 DEF Line!Share
      <4> QED BY <2>2, <4>1, <4>2, <4>3
    <3> QED BY <3>2, <3>3, <3>4, <3>5 DEF HeadIs
  <2> QED BY <2>1, <2>3 DEF Ready
<1> QED BY <1>1, <1>2

(* Those granted are those the line serves.                                *)
LEMMA GrantedAreEligible ==
    ASSUME NEW q, NEW o, NEW st, NEW w, NEW ks \in SUBSET Keys,
           Typed(q, o, st, w), Queued(q, st, w), Owned(o, st, w),
           Pump(q, o, st, w, ks),
           \A s \in Requests : st[s] = "waiting" /\ Ready(q, o, w, s) => w[s] \cap ks # {}
    PROVE  Granted(q, o, w, ks) = Line!Eligible(w, PhaseOf(st), Before(q))
<1>1. ASSUME NEW r \in Requests, r \in Granted(q, o, w, ks)
      PROVE  st[r] = "waiting" /\ Ready(q, o, w, r)
  BY <1>1, PumpStatus DEF Granted
<1>2. ASSUME NEW r \in Requests, st[r] = "waiting", Ready(q, o, w, r)
      PROVE  r \in Granted(q, o, w, ks)
  <2>1. PICK k \in ks : k \in w[r]
    BY <1>2
  <2> QED BY <1>2, <2>1 DEF Granted, Ready
<1>3. \A r \in Requests : r \in Line!Eligible(w, PhaseOf(st), Before(q))
                            <=> st[r] = "waiting" /\ Ready(q, o, w, r)
  BY ReadyIsEligible
<1>4. /\ Granted(q, o, w, ks) \subseteq Requests
      /\ Line!Eligible(w, PhaseOf(st), Before(q)) \subseteq Requests
  BY DEF Granted, Line!Eligible
<1> QED BY <1>1, <1>2, <1>3, <1>4

(* A pump that serves everybody it must, as each handler calls it.         *)
PumpsAll(q, o, st, w, ks) ==
    /\ Typed(q, o, st, w) /\ Queued(q, st, w) /\ Owned(o, st, w)
    /\ Pump(q, o, st, w, ks)
    /\ \A s \in Requests : st[s] = "waiting" /\ Ready(q, o, w, s) => w[s] \cap ks # {}

(* Pump is the line's Serve.                                               *)
LEMMA PumpServes ==
    ASSUME NEW q, NEW o, NEW st, NEW w, NEW ks \in SUBSET Keys, PumpsAll(q, o, st, w, ks)
    PROVE  /\ PhaseOf(status') =
                [r \in Requests |-> IF r \in Line!Eligible(w, PhaseOf(st), Before(q))
                                    THEN "holding" ELSE PhaseOf(st)[r]]
           /\ Before(queue') =
                {pair \in Before(q) : /\ status'[pair[1]] = "waiting"
                                      /\ status'[pair[2]] = "waiting"}
<1> DEFINE G == Granted(q, o, w, ks)
<1>0. /\ Typed(q, o, st, w) /\ Queued(q, st, w) /\ Owned(o, st, w)
      /\ Pump(q, o, st, w, ks)
      /\ \A s \in Requests : st[s] = "waiting" /\ Ready(q, o, w, s) => w[s] \cap ks # {}
  BY DEF PumpsAll
<1>1. PhaseOf(status') =
        [r \in Requests |-> IF r \in G THEN "holding" ELSE PhaseOf(st)[r]]
  BY <1>0, PumpStatus DEF PhaseOf
<1>2. \A k \in Keys : q[k] \in Seq(Requests) /\ Len(q[k]) \in Nat
  BY <1>0, LenProperties DEF Typed
<1>3. ASSUME NEW pair \in Before(queue')
      PROVE  /\ pair \in Before(q)
             /\ status'[pair[1]] = "waiting" /\ status'[pair[2]] = "waiting"
  <2>1. pair \in Requests \X Requests
    BY DEF Before
  <2>2. PICK k \in Keys : \E i, j \in 1..Len(queue'[k]) :
             i < j /\ queue'[k][i] = pair[1] /\ queue'[k][j] = pair[2]
    BY DEF Before
  <2>3. PICK i, j \in 1..Len(queue'[k]) :
             i < j /\ queue'[k][i] = pair[1] /\ queue'[k][j] = pair[2]
    BY <2>2
  <2>4. status'[pair[1]] = "waiting" /\ status'[pair[2]] = "waiting"
    <3>1. Queued(queue', status', w)
      BY <1>0, PumpQueues
    <3> QED BY <2>3, <3>1 DEF Queued
  <2>5. CASE queue'[k] = q[k]
    BY <2>1, <2>3, <2>4, <2>5 DEF Before
  <2>6. CASE q[k] # <<>> /\ queue'[k] = Tail(q[k])
    <3>1. /\ Len(queue'[k]) = Len(q[k]) - 1
          /\ \A m \in 1..Len(queue'[k]) : queue'[k][m] = q[k][m+1]
      BY <1>2, <2>6, HeadTailProperties
    <3>2. /\ i+1 \in 1..Len(q[k]) /\ j+1 \in 1..Len(q[k]) /\ i+1 < j+1
          /\ q[k][i+1] = pair[1] /\ q[k][j+1] = pair[2]
      BY <1>2, <2>3, <3>1
    <3> QED BY <2>1, <2>4, <3>2 DEF Before
  <2> QED BY <1>0, <2>5, <2>6, PumpEffect
<1>4. ASSUME NEW pair \in Before(q),
             status'[pair[1]] = "waiting", status'[pair[2]] = "waiting"
      PROVE  pair \in Before(queue')
  <2>1. pair \in Requests \X Requests
    BY DEF Before
  <2>2. PICK k \in Keys : \E i, j \in 1..Len(q[k]) :
             i < j /\ q[k][i] = pair[1] /\ q[k][j] = pair[2]
    BY DEF Before
  <2>3. PICK i, j \in 1..Len(q[k]) :
             i < j /\ q[k][i] = pair[1] /\ q[k][j] = pair[2]
    BY <2>2
  <2>4. CASE queue'[k] = q[k]
    BY <2>1, <2>3, <2>4 DEF Before
  <2>5. CASE q[k] # <<>> /\ Head(q[k]) \in G /\ queue'[k] = Tail(q[k])
    <3>1. /\ Len(queue'[k]) = Len(q[k]) - 1 /\ Head(q[k]) = q[k][1]
          /\ \A m \in 1..Len(queue'[k]) : queue'[k][m] = q[k][m+1]
      BY <1>2, <2>5, HeadTailProperties
    <3>2. status'[q[k][1]] = "granted"
      BY <1>0, <2>5, <3>1, GrantedAreHeads, PumpStatus
    <3>3. i # 1
      BY <1>4, <2>3, <3>2
    <3>4. /\ i-1 \in 1..Len(queue'[k]) /\ j-1 \in 1..Len(queue'[k]) /\ i-1 < j-1
          /\ queue'[k][i-1] = pair[1] /\ queue'[k][j-1] = pair[2]
      BY <1>2, <2>3, <3>1, <3>3
    <3> QED BY <2>1, <2>3, <3>4 DEF Before
  <2> QED BY <1>0, <2>4, <2>5, PumpEffect
<1>5. Before(queue') \subseteq Requests \X Requests
  BY DEF Before
<1> QED BY <1>0, <1>1, <1>3, <1>4, <1>5, GrantedAreEligible

-----------------------------------------------------------------------------
(* The handlers.                                                           *)

(* A new arrival stands behind everybody it shares a key with.             *)
LEMMA ArrivalOrder ==
    ASSUME IInv, NEW r \in Requests, status[r] = "idle", NEW ks \in SUBSET Keys,
           NEW w, w = [wants EXCEPT ![r] = ks]
    PROVE  Before(Push(r, ks)) = Before(queue) \cup
               {<<s, r>> : s \in {t \in Requests : status[t] = "waiting" /\ Line!Share(w, t, r)}}
<1> DEFINE q == Push(r, ks)
           N == {<<s, r>> : s \in {t \in Requests : status[t] = "waiting" /\ Line!Share(w, t, r)}}
<1>1. \A k \in Keys : /\ queue[k] \in Seq(Requests) /\ Len(queue[k]) \in Nat
                      /\ q[k] = IF k \in ks THEN Append(queue[k], r) ELSE queue[k]
  BY LenProperties DEF Push, IInv, TypeOK
<1>2. ASSUME NEW k \in ks
      PROVE  /\ Len(q[k]) = Len(queue[k]) + 1 /\ q[k][Len(queue[k]) + 1] = r
             /\ \A i \in 1..Len(queue[k]) : q[k][i] = queue[k][i]
  <2>1. k \in Keys /\ queue[k] \in Seq(Requests) /\ q[k] = Append(queue[k], r)
    BY <1>1
  <2> HIDE DEF q
  <2> QED BY <2>1, AppendProperties
<1>3. \A k \in Keys : \A i \in 1..Len(queue[k]) :
         /\ queue[k][i] \in Requests /\ queue[k][i] # r
         /\ status[queue[k][i]] = "waiting" /\ k \in wants[queue[k][i]]
  BY <1>1, ElementOfSeq DEF IInv, QueuesHoldWaiters
<1>4. w[r] = ks /\ \A s \in Requests : s # r => w[s] = wants[s] /\ wants[s] \in SUBSET Keys
  BY DEF IInv, TypeOK
<1> HIDE DEF q
<1>5. ASSUME NEW pair \in Before(q)
      PROVE  pair \in Before(queue) \cup N
  <2>1. pair \in Requests \X Requests
    BY DEF Before
  <2>2. PICK k \in Keys : \E i, j \in 1..Len(q[k]) :
             i < j /\ q[k][i] = pair[1] /\ q[k][j] = pair[2]
    BY DEF Before
  <2>3. PICK i, j \in 1..Len(q[k]) :
             i < j /\ q[k][i] = pair[1] /\ q[k][j] = pair[2]
    BY <2>2
  <2>4. CASE i \in 1..Len(queue[k]) /\ j \in 1..Len(queue[k])
    <3>1. queue[k][i] = pair[1] /\ queue[k][j] = pair[2]
      BY <1>1, <1>2, <2>3, <2>4
    <3> QED BY <2>1, <2>3, <2>4, <3>1 DEF Before
  <2>5. CASE k \in ks /\ i \in 1..Len(queue[k]) /\ j = Len(queue[k]) + 1
    <3>1. pair[2] = r /\ pair[1] = queue[k][i]
      BY <1>2, <2>3, <2>5
    <3>2. pair[1] \in Requests /\ status[pair[1]] = "waiting" /\ Line!Share(w, pair[1], r)
      BY <1>3, <1>4, <2>5, <3>1 DEF Line!Share
    <3>3. pair = <<pair[1], r>>
      BY <2>1, <3>1
    <3> QED BY <3>2, <3>3
  <2>6. k \notin ks => Len(q[k]) = Len(queue[k])
    BY <1>1
  <2>7. k \in ks => Len(q[k]) = Len(queue[k]) + 1
    BY <1>2
  <2>8. \/ i \in 1..Len(queue[k]) /\ j \in 1..Len(queue[k])
        \/ k \in ks /\ i \in 1..Len(queue[k]) /\ j = Len(queue[k]) + 1
    BY <1>1, <2>3, <2>6, <2>7
  <2> HIDE DEF N
  <2> QED BY <2>4, <2>5, <2>8
<1>6. ASSUME NEW pair \in Before(queue)
      PROVE  pair \in Before(q)
  <2>1. pair \in Requests \X Requests
    BY DEF Before
  <2>2. PICK k \in Keys : \E i, j \in 1..Len(queue[k]) :
             i < j /\ queue[k][i] = pair[1] /\ queue[k][j] = pair[2]
    BY DEF Before
  <2>3. PICK i, j \in 1..Len(queue[k]) :
             i < j /\ queue[k][i] = pair[1] /\ queue[k][j] = pair[2]
    BY <2>2
  <2>4. i \in 1..Len(q[k]) /\ j \in 1..Len(q[k]) /\ q[k][i] = pair[1] /\ q[k][j] = pair[2]
    BY <1>1, <1>2, <2>3
  <2> QED BY <2>1, <2>3, <2>4 DEF Before
<1>7. ASSUME NEW s \in Requests, status[s] = "waiting", Line!Share(w, s, r)
      PROVE  <<s, r>> \in Before(q)
  <2>1. PICK k \in Keys : k \in wants[s] /\ k \in ks
    BY <1>4, <1>7 DEF Line!Share
  <2>2. PICK i \in 1..Len(queue[k]) : queue[k][i] = s
    BY <1>7, <2>1 DEF IInv, QueuesHoldWaiters
  <2>3. /\ i \in 1..Len(q[k]) /\ Len(queue[k]) + 1 \in 1..Len(q[k])
        /\ i < Len(queue[k]) + 1 /\ q[k][i] = s /\ q[k][Len(queue[k]) + 1] = r
    BY <1>1, <1>2, <2>1, <2>2
  <2> QED BY <2>3 DEF Before
<1> QED BY <1>5, <1>6, <1>7 DEF q

LEMMA AcquireRefines ==
    ASSUME IInv, NoLostWakeup, NEW r \in Requests, NEW p \in Requests \cup {None},
           NEW ks \in SUBSET Keys, Acquire(r, p, ks)
    PROVE  Line!Arrive(r, ks)
<1> DEFINE st == [status EXCEPT ![r] = IF ks = {} THEN "granted" ELSE "waiting"]
           q == Push(r, ks)
           w == wants'
           ph == [AbstractPhase EXCEPT ![r] = "waiting"]
           ah == QueuedBefore \cup
                   {<<s, r>> : s \in {t \in Requests :
                                 AbstractPhase[t] = "waiting" /\ Line!Share(wants', t, r)}}
<1>1. /\ status[r] = "idle" /\ w = [wants EXCEPT ![r] = ks] /\ w[r] = ks
      /\ status \in [Requests -> Statuses] /\ st \in [Requests -> Statuses]
  BY DEF Acquire, Call, IInv, TypeOK, Statuses
<1>2. Typed(q, owner, st, w) /\ Queued(q, st, w) /\ Owned(owner, st, w)
  BY AcquireBeforePump
<1>3. Pump(q, owner, st, w, ks)
  BY DEF Acquire
<1>4. \A s \in Requests : st[s] = "waiting" /\ Ready(q, owner, w, s) => w[s] \cap ks # {}
  BY AcquireTouches
<1>5. Before(q) = ah
  <2> HIDE DEF q, w
  <2>1. {t \in Requests : AbstractPhase[t] = "waiting" /\ Line!Share(w, t, r)}
          = {t \in Requests : status[t] = "waiting" /\ Line!Share(w, t, r)}
    BY <1>1, AbstractState, PhaseOfValues
  <2>2. Before(q) = Before(queue) \cup
               {<<s, r>> : s \in {t \in Requests : status[t] = "waiting" /\ Line!Share(w, t, r)}}
    <3>1. status[r] = "idle" /\ w = [wants EXCEPT ![r] = ks]
      BY <1>1
    <3>2. \A v : v = [wants EXCEPT ![r] = ks] =>
             Before(Push(r, ks)) = Before(queue) \cup
               {<<s, r>> : s \in {t \in Requests : status[t] = "waiting" /\ Line!Share(v, t, r)}}
      BY <3>1, ArrivalOrder
    <3> QED BY <3>1, <3>2 DEF q
  <2> QED BY <2>1, <2>2, AbstractState DEF w
<1>6. /\ PhaseOf(st) \in [Requests -> {"new", "waiting", "holding", "gone"}]
      /\ \A s \in Requests : s # r => PhaseOf(st)[s] = ph[s]
      /\ PhaseOf(st)[r] = IF ks = {} THEN "holding" ELSE "waiting"
      /\ ph \in [Requests -> {"new", "waiting", "holding", "gone"}] /\ ph[r] = "waiting"
  BY <1>1, AbstractState DEF PhaseOf
<1> HIDE DEF st, q, ph, ah
<1>7. /\ PhaseOf(status') =
           [s \in Requests |-> IF s \in Line!Eligible(w, PhaseOf(st), Before(q))
                               THEN "holding" ELSE PhaseOf(st)[s]]
      /\ Before(queue') = {pair \in Before(q) : /\ status'[pair[1]] = "waiting"
                                                /\ status'[pair[2]] = "waiting"}
  <2>1. PumpsAll(q, owner, st, w, ks)
    BY <1>2, <1>3, <1>4 DEF PumpsAll
  <2> QED BY <2>1, PumpServes
<1>8. PhaseOf(status') =
        [s \in Requests |-> IF s \in Line!Eligible(w, ph, ah) THEN "holding" ELSE ph[s]]
  <2>1. CASE ks # {}
    <3>1. PhaseOf(st) = ph
      BY <1>6, <2>1
    <3> QED BY <1>5, <1>7, <3>1
  <2>2. CASE ks = {}
    <3>1. \A s \in Requests : ~ Line!Share(w, s, r) /\ ~ Line!Share(w, r, s)
      BY <1>1, <2>2 DEF Line!Share
    <3>2. r \in Line!Eligible(w, ph, ah)
      BY <1>6, <3>1 DEF Line!Eligible
    <3>3. \A s \in Requests : s # r =>
             (s \in Line!Eligible(w, ph, ah) <=> s \in Line!Eligible(w, PhaseOf(st), ah))
      BY <1>6, <3>1 DEF Line!Eligible
    <3>4. PhaseOf(st)[r] = "holding"
      BY <1>6, <2>2
    <3> QED BY <1>5, <1>6, <1>7, <3>2, <3>3, <3>4
  <2> QED BY <2>1, <2>2
<1>9. Typed(queue', owner', status', w)
  BY <1>2, <1>3, PumpType
<1>10. Before(queue') = {pair \in ah : /\ PhaseOf(status')[pair[1]] = "waiting"
                                       /\ PhaseOf(status')[pair[2]] = "waiting"}
  <2>1. \A pair \in ah : pair[1] \in Requests /\ pair[2] \in Requests
    BY <1>5 DEF Before
  <2>2. \A s \in Requests : PhaseOf(status')[s] = "waiting" <=> status'[s] = "waiting"
    BY <1>9, PhaseOfValues DEF Typed
  <2> QED BY <1>5, <1>7, <2>1, <2>2
<1>11. AbstractPhase' = PhaseOf(status') /\ QueuedBefore' = Before(queue')
  BY DEF AbstractPhase, PhaseOf, QueuedBefore, Before, Holding
<1>12. AbstractPhase[r] = "new"
  BY <1>1, AbstractState, PhaseOfValues
<1> QED BY <1>1, <1>8, <1>10, <1>11, <1>12 DEF Line!Arrive, Line!Serve, ph, ah

(* A call that gives up or returns its keys.                               *)
LEMMA LeaveRefines ==
    ASSUME IInv, NEW r \in Requests, status[r] \in {"waiting", "granted", "running"},
           UNCHANGED wants, NEW ks \in SUBSET Keys, NEW q, NEW o,
           NEW st, st[r] = "settled", \A s \in Requests : s # r => st[s] = status[s],
           PumpsAll(q, o, st, wants, ks),
           Before(q) = {pair \in Before(queue) : pair[1] # r /\ pair[2] # r}
    PROVE  Line!Leave(r)
<1> DEFINE ph == [AbstractPhase EXCEPT ![r] = "gone"]
<1>1. status \in [Requests -> Statuses] /\ st \in [Requests -> Statuses]
  BY DEF IInv, TypeOK, PumpsAll, Typed
<1>2. PhaseOf(st) = ph
  BY <1>1, AbstractState DEF PhaseOf
<1>3. Line!Eligible(wants, ph, QueuedBefore) = Line!Eligible(wants, ph, Before(q))
  <2>1. ph[r] = "gone"
    BY <1>1, <1>2 DEF PhaseOf
  <2>2. \A s, t \in Requests : ph[s] = "waiting" /\ ph[t] = "waiting" =>
           (<<s, t>> \in QueuedBefore <=> <<s, t>> \in Before(q))
    BY <2>1, AbstractState
  <2> HIDE DEF ph
  <2> QED BY <2>2 DEF Line!Eligible
<1>4. /\ PhaseOf(status') =
           [s \in Requests |-> IF s \in Line!Eligible(wants, PhaseOf(st), Before(q))
                               THEN "holding" ELSE PhaseOf(st)[s]]
      /\ Before(queue') = {pair \in Before(q) : /\ status'[pair[1]] = "waiting"
                                                /\ status'[pair[2]] = "waiting"}
  BY PumpServes
<1>5. Typed(queue', owner', status', wants)
  BY PumpType DEF PumpsAll
<1>6. status'[r] = "settled"
  BY <1>1, PumpStatus DEF PumpsAll
<1>7. Before(queue') = {pair \in QueuedBefore : /\ PhaseOf(status')[pair[1]] = "waiting"
                                               /\ PhaseOf(status')[pair[2]] = "waiting"}
  <2>1. \A pair \in Before(queue) : pair[1] \in Requests /\ pair[2] \in Requests
    BY DEF Before
  <2>2. \A s \in Requests : PhaseOf(status')[s] = "waiting" <=> status'[s] = "waiting"
    BY <1>5, PhaseOfValues DEF Typed
  <2> QED BY <1>4, <1>6, <2>1, <2>2, AbstractState
<1>8. AbstractPhase' = PhaseOf(status') /\ QueuedBefore' = Before(queue')
  BY DEF AbstractPhase, PhaseOf, QueuedBefore, Before, Holding
<1>9. AbstractPhase[r] \in {"waiting", "holding"}
  BY <1>1, AbstractState, PhaseOfValues
<1> QED BY <1>2, <1>3, <1>4, <1>7, <1>8, <1>9 DEF Line!Leave, Line!Serve

(* The others keep their order when a waiter leaves its queues.            *)
LEMMA CancelOrder ==
    ASSUME IInv, NEW r \in Requests, status[r] = "waiting",
           NEW q, q = [k \in Keys |-> IF k \in wants[r] THEN RemoveWaiter(queue[k], r)
                                                       ELSE queue[k]]
    PROVE  Before(q) = {pair \in Before(queue) : pair[1] # r /\ pair[2] # r}
<1>1. ASSUME NEW k \in Keys, k \notin wants[r]
      PROVE  /\ q[k] = queue[k]
             /\ \A i \in 1..Len(queue[k]) : queue[k][i] # r
  BY <1>1 DEF IInv, QueuesHoldWaiters
<1>2. ASSUME NEW k \in Keys, k \in wants[r]
      PROVE  /\ Len(queue[k]) \in Nat /\ Len(q[k]) = Len(queue[k]) - 1
             /\ \E m \in 1..Len(queue[k]) :
                   /\ queue[k][m] = r
                   /\ \A i \in 1..Len(queue[k]) - 1 :
                         q[k][i] = IF i < m THEN queue[k][i] ELSE queue[k][i+1]
  <2>1. queue[k] \in Seq(Requests) /\ \E i \in 1..Len(queue[k]) : queue[k][i] = r
    BY <1>2 DEF IInv, TypeOK, QueuesHoldWaiters
  <2>2. q[k] = RemoveWaiter(queue[k], r)
    BY <1>2
  <2> QED BY <2>1, <2>2, RemoveWaiterElements, LenProperties
<1>3. \A k \in Keys : \A i, j \in 1..Len(queue[k]) : queue[k][i] = queue[k][j] => i = j
  BY DEF IInv, QueuesHoldWaiters
<1> HIDE DEF RemoveWaiter
<1>4. ASSUME NEW k \in Keys, NEW i \in 1..Len(q[k]), NEW j \in 1..Len(q[k]), i < j
      PROVE  /\ q[k][i] # r /\ q[k][j] # r
             /\ \E a, b \in 1..Len(queue[k]) :
                   a < b /\ queue[k][a] = q[k][i] /\ queue[k][b] = q[k][j]
  <2>1. CASE k \notin wants[r]
    BY <1>1, <1>4, <2>1
  <2>2. CASE k \in wants[r]
    <3>1. Len(queue[k]) \in Nat /\ Len(q[k]) = Len(queue[k]) - 1
      BY <1>2, <2>2
    <3>2. PICK m \in 1..Len(queue[k]) :
                   /\ queue[k][m] = r
                   /\ \A l \in 1..Len(queue[k]) - 1 :
                         q[k][l] = IF l < m THEN queue[k][l] ELSE queue[k][l+1]
      BY <1>2, <2>2
    <3> DEFINE up(l) == IF l < m THEN l ELSE l + 1
    <3>3. \A l \in 1..Len(q[k]) : /\ up(l) \in 1..Len(queue[k]) /\ up(l) # m
                                  /\ q[k][l] = queue[k][up(l)]
      BY <3>1, <3>2
    <3>4. up(i) < up(j)
      BY <1>4, <3>1
    <3> HIDE DEF up
    <3>5. queue[k][up(i)] # r /\ queue[k][up(j)] # r
      BY <1>3, <3>2, <3>3
    <3> QED BY <3>3, <3>4, <3>5
  <2> QED BY <2>1, <2>2
<1>5. ASSUME NEW k \in Keys, NEW a \in 1..Len(queue[k]), NEW b \in 1..Len(queue[k]), a < b,
             queue[k][a] # r, queue[k][b] # r
      PROVE  \E i, j \in 1..Len(q[k]) :
                 i < j /\ q[k][i] = queue[k][a] /\ q[k][j] = queue[k][b]
  <2>1. CASE k \notin wants[r]
    BY <1>1, <1>5, <2>1
  <2>2. CASE k \in wants[r]
    <3>1. Len(queue[k]) \in Nat /\ Len(q[k]) = Len(queue[k]) - 1
      BY <1>2, <2>2
    <3>2. PICK m \in 1..Len(queue[k]) :
                   /\ queue[k][m] = r
                   /\ \A l \in 1..Len(queue[k]) - 1 :
                         q[k][l] = IF l < m THEN queue[k][l] ELSE queue[k][l+1]
      BY <1>2, <2>2
    <3> DEFINE down(l) == IF l < m THEN l ELSE l - 1
    <3>3. a # m /\ b # m
      BY <1>5, <3>2
    <3>4. \A l \in 1..Len(queue[k]) : l # m =>
             down(l) \in 1..Len(q[k]) /\ q[k][down(l)] = queue[k][l]
      BY <3>1, <3>2
    <3>5. down(a) < down(b)
      BY <1>5, <3>1, <3>3
    <3> HIDE DEF down
    <3> QED BY <3>3, <3>4, <3>5
  <2> QED BY <2>1, <2>2
<1>6. ASSUME NEW pair \in Before(q)
      PROVE  pair \in Before(queue) /\ pair[1] # r /\ pair[2] # r
  <2>1. PICK k \in Keys : \E i, j \in 1..Len(q[k]) :
             i < j /\ q[k][i] = pair[1] /\ q[k][j] = pair[2]
    BY DEF Before
  <2>2. PICK i, j \in 1..Len(q[k]) : i < j /\ q[k][i] = pair[1] /\ q[k][j] = pair[2]
    BY <2>1
  <2>3. /\ q[k][i] # r /\ q[k][j] # r
        /\ \E a, b \in 1..Len(queue[k]) :
              a < b /\ queue[k][a] = q[k][i] /\ queue[k][b] = q[k][j]
    BY <1>4, <2>2
  <2>4. pair \in Requests \X Requests
    BY DEF Before
  <2> QED BY <2>2, <2>3, <2>4 DEF Before
<1>7. ASSUME NEW pair \in Before(queue), pair[1] # r, pair[2] # r
      PROVE  pair \in Before(q)
  <2>1. PICK k \in Keys : \E i, j \in 1..Len(queue[k]) :
             i < j /\ queue[k][i] = pair[1] /\ queue[k][j] = pair[2]
    BY DEF Before
  <2>2. PICK a, b \in 1..Len(queue[k]) :
             a < b /\ queue[k][a] = pair[1] /\ queue[k][b] = pair[2]
    BY <2>1
  <2>3. \E i, j \in 1..Len(q[k]) :
             i < j /\ q[k][i] = queue[k][a] /\ q[k][j] = queue[k][b]
    BY <1>5, <1>7, <2>2
  <2>4. pair \in Requests \X Requests
    BY DEF Before
  <2> QED BY <2>2, <2>3, <2>4 DEF Before
<1> QED BY <1>6, <1>7

LEMMA CancelRefines ==
    ASSUME IInv, NoLostWakeup, NEW r \in Requests, Cancel(r)
    PROVE  Line!Leave(r)
<1> DEFINE st == [status EXCEPT ![r] = "settled"]
           q == [k \in Keys |-> IF k \in wants[r] THEN RemoveWaiter(queue[k], r)
                                                 ELSE queue[k]]
<1>1. wants' = wants /\ status[r] = "waiting" /\ wants[r] \in SUBSET Keys
  BY DEF Cancel, IInv, TypeOK
<1>2. Typed(q, owner, st, wants) /\ Queued(q, st, wants) /\ Owned(owner, st, wants)
  BY <1>1, CancelBeforePump
<1>3. Pump(q, owner, st, wants, wants[r])
  BY DEF Cancel
<1>4. \A s \in Requests :
         st[s] = "waiting" /\ Ready(q, owner, wants, s) => wants[s] \cap wants[r] # {}
  BY CancelTouches DEF IInv, TypeOK
<1>5. Before(q) = {pair \in Before(queue) : pair[1] # r /\ pair[2] # r}
  BY <1>1, CancelOrder
<1>6. status[r] \in {"waiting", "granted", "running"}
  BY <1>1
<1> HIDE DEF st, q
<1>7. st[r] = "settled" /\ \A s \in Requests : s # r => st[s] = status[s]
  BY DEF st, IInv, TypeOK
<1>8. PumpsAll(q, owner, st, wants, wants[r])
  BY <1>2, <1>3, <1>4 DEF PumpsAll
<1> QED BY <1>1, <1>5, <1>6, <1>7, <1>8, LeaveRefines

LEMMA ReleaseRefines ==
    ASSUME IInv, NoLostWakeup, NEW r \in Requests, Holding(r), Release(r)
    PROVE  Line!Leave(r)
<1> DEFINE st == [status EXCEPT ![r] = "settled"]
           o == Freed(r)
<1>1. wants' = wants /\ wants[r] \in SUBSET Keys
  BY DEF Release, IInv, TypeOK
<1>2. Typed(queue, o, st, wants) /\ Queued(queue, st, wants) /\ Owned(o, st, wants)
  BY ReleaseBeforePump
<1>3. Pump(queue, o, st, wants, wants[r])
  BY DEF Release
<1>4. \A s \in Requests :
         st[s] = "waiting" /\ Ready(queue, o, wants, s) => wants[s] \cap wants[r] # {}
  BY ReleaseTouches DEF IInv, TypeOK
<1>5. Before(queue) = {pair \in Before(queue) : pair[1] # r /\ pair[2] # r}
  <2>1. \A k \in Keys : \A i \in 1..Len(queue[k]) : queue[k][i] # r
    BY DEF IInv, QueuesHoldWaiters, Holding
  <2> QED BY <2>1 DEF Before
<1>6. status[r] \in {"waiting", "granted", "running"}
  BY DEF Holding
<1> HIDE DEF st, o
<1>7. st[r] = "settled" /\ \A s \in Requests : s # r => st[s] = status[s]
  BY DEF st, IInv, TypeOK
<1>8. PumpsAll(queue, o, st, wants, wants[r])
  BY <1>2, <1>3, <1>4 DEF PumpsAll
<1> QED BY <1>1, <1>5, <1>6, <1>7, <1>8, LeaveRefines

-----------------------------------------------------------------------------
LEMMA InitRefines == Init => Line!Init
<1> SUFFICES ASSUME Init PROVE Line!Init
  OBVIOUS
<1>1. \A k \in Keys : Len(queue[k]) = 0
  BY EmptySeq DEF Init
<1>2. QueuedBefore = {}
  BY <1>1 DEF QueuedBefore
<1> QED BY <1>2 DEF Init, Line!Init, AbstractPhase

LEMMA StepRefines ==
    IInv /\ NoLostWakeup /\ [Next]_vars => [Line!Next]_<<wants, AbstractPhase, QueuedBefore>>
<1> SUFFICES ASSUME IInv, NoLostWakeup, [Next]_vars
             PROVE  Line!Next \/ UNCHANGED <<wants, AbstractPhase, QueuedBefore>>
  OBVIOUS
<1>1. ASSUME NEW r \in Requests, NEW p \in Requests \cup {None}, NEW ks \in SUBSET Keys,
             Refuse(r, p, ks)
      PROVE  Line!Next
  <2>1. /\ status[r] = "idle" /\ status' = [status EXCEPT ![r] = "settled"]
        /\ UNCHANGED <<wants, queue>>
    BY <1>1 DEF Refuse, Call
  <2>2. AbstractPhase[r] = "new" /\ AbstractPhase' = [AbstractPhase EXCEPT ![r] = "gone"]
    BY <2>1 DEF AbstractPhase, Holding, IInv, TypeOK
  <2>3. QueuedBefore' = QueuedBefore
    BY <2>1 DEF QueuedBefore
  <2> QED BY <2>1, <2>2, <2>3 DEF Line!Next, Line!Refuse
<1>2. ASSUME NEW r \in Requests, NEW p \in Requests \cup {None}, NEW ks \in SUBSET Keys,
             Acquire(r, p, ks)
      PROVE  Line!Next
  BY <1>2, AcquireRefines DEF Line!Next
<1>3. ASSUME NEW r \in Requests, Cancel(r)
      PROVE  Line!Next
  BY <1>3, CancelRefines DEF Line!Next
<1>4. ASSUME NEW r \in Requests, Holding(r), Release(r)
      PROVE  Line!Next
  BY <1>4, ReleaseRefines DEF Line!Next
<1>5. ASSUME NEW r \in Requests, AbortUnlistened(r) \/ Start(r)
      PROVE  UNCHANGED <<wants, AbstractPhase, QueuedBefore>>
  <2>1. UNCHANGED <<wants, queue>>
    BY <1>5 DEF AbortUnlistened, Start
  <2>2. status' = status \/ (status[r] = "granted" /\ status' = [status EXCEPT ![r] = "running"])
    BY <1>5 DEF AbortUnlistened, Start
  <2>3. AbstractPhase' = AbstractPhase
    BY <2>2 DEF AbstractPhase, Holding, IInv, TypeOK
  <2> QED BY <2>1, <2>3 DEF QueuedBefore
<1>6. CASE UNCHANGED vars
  BY <1>6 DEF vars, AbstractPhase, QueuedBefore, Holding
<1> QED BY <1>1, <1>2, <1>3, <1>4, <1>5, <1>6 DEF Next, Withdraw, Finish, Holding

(* Calls that share a key are served in the order of their arrival, each   *)
(* receives all its keys at once, and everybody is served as soon as he    *)
(* can be: queues, owner slots and wake-ups are one fair line.             *)
THEOREM ServesInArrivalOrderHolds == Spec => ServesInArrivalOrder
BY InitRefines, StepRefines, InductiveInvariant, NoLostWakeupHolds, PTL
   DEF Spec, ServesInArrivalOrder, Line!Spec, Line!vars

-----------------------------------------------------------------------------
(* No cycle of waiters.  As a call enters all of its queues at once, the   *)
(* orders of the queues never contradict each other: who stands before     *)
(* whom, in any queue, is well-founded.  So among any waiters there is a   *)
(* first one, and as no wake-up is lost, it waits for somebody else.       *)
NoCycle == IsWellFoundedOn(QueuedBefore, Requests)

(* There are no waiters that only wait for each other.                     *)
NoCircularWait ==
    \A T \in SUBSET {r \in Requests : status[r] = "waiting"} : T # {} =>
        \E r \in T, s \in Requests \ T :
            /\ Line!Share(wants, r, s)
            /\ Holding(s) \/ (status[s] = "waiting" /\ <<s, r>> \in QueuedBefore)

LEMMA QueuedAreWaiting ==
    ASSUME IInv, NEW s, NEW r, <<s, r>> \in QueuedBefore
    PROVE  /\ s \in Requests /\ status[s] = "waiting"
           /\ r \in Requests /\ status[r] = "waiting"
BY DEF IInv, QueuesHoldWaiters, QueuedBefore

(* Who arrives last stands before nobody.                                  *)
LEMMA LastArrival ==
    ASSUME NEW R, IsWellFoundedOn(R, Requests), NEW r, \A s : <<r, s>> \notin R,
           NEW N, N \subseteq {<<s, r>> : s \in Requests \ {r}}
    PROVE  IsWellFoundedOn(R \cup N, Requests)
<1> SUFFICES ASSUME NEW T \in SUBSET Requests, T # {}
             PROVE  \E x \in T : \A y \in T : <<y, x>> \notin R \cup N
  BY MinWF
<1>1. CASE T \subseteq {r}
  BY <1>1
<1>2. CASE T \ {r} # {}
  <2>1. PICK x \in T \ {r} : \A y \in T \ {r} : <<y, x>> \notin R
    BY <1>2, WFMin
  <2> QED BY <2>1
<1> QED BY <1>1, <1>2

LEMMA NoCycleStep ==
    ASSUME IInv, NoCycle, [Line!Next]_<<wants, AbstractPhase, QueuedBefore>>
    PROVE  NoCycle'
<1>1. ASSUME NEW r \in Requests, NEW ks \in SUBSET Keys, Line!Arrive(r, ks)
      PROVE  NoCycle'
  <2> DEFINE N == {<<s, r>> : s \in {t \in Requests : AbstractPhase[t] = "waiting" /\ Line!Share(wants', t, r)}}
  <2>1. QueuedBefore' \subseteq QueuedBefore \cup N
    BY <1>1 DEF Line!Arrive, Line!Serve
  <2>2. N \subseteq {<<s, r>> : s \in Requests \ {r}}
    BY DEF Line!Share
  <2>3. status[r] # "waiting"
    BY <1>1 DEF Line!Arrive, AbstractPhase
  <2>4. \A s : <<r, s>> \notin QueuedBefore
    BY <2>3, QueuedAreWaiting
  <2> HIDE DEF N
  <2>5. IsWellFoundedOn(QueuedBefore \cup N, Requests)
    BY <2>2, <2>4, LastArrival DEF NoCycle
  <2> QED BY <2>1, <2>5, IsWellFoundedOnSubrelation DEF NoCycle
<1>2. CASE QueuedBefore' \subseteq QueuedBefore
  BY <1>2, IsWellFoundedOnSubrelation DEF NoCycle
<1>3. ASSUME NEW r \in Requests, Line!Refuse(r) \/ Line!Leave(r)
      PROVE  QueuedBefore' \subseteq QueuedBefore
  BY <1>3 DEF Line!Refuse, Line!Leave, Line!Serve
<1> QED BY <1>1, <1>2, <1>3 DEF Line!Next

(* The orders of the queues have no cycle, whatever the calls want and     *)
(* however they are nested, cancelled and withdrawn.                       *)
THEOREM NoCycleHolds == Spec => []NoCycle
<1>1. Init => NoCycle
  <2> SUFFICES ASSUME Init PROVE NoCycle
    OBVIOUS
  <2>1. QueuedBefore = {}
    BY InitRefines DEF Line!Init
  <2> QED BY <2>1, EmptyIsWellFounded DEF NoCycle
<1>2. IInv /\ NoLostWakeup /\ NoCycle /\ [Next]_vars => NoCycle'
  BY StepRefines, NoCycleStep
<1> QED BY <1>1, <1>2, InductiveInvariant, NoLostWakeupHolds, PTL DEF Spec

(* The scheduler has no deadlock of its own: of any waiters, one waits for *)
(* somebody who is served or who is not among them.  The calls that wait   *)
(* for ever against NestedCallsAreServed wait, one for the other, for a    *)
(* call that is served, whose work awaits the last of them.                *)
THEOREM NoCircularWaitHolds == Spec => []NoCircularWait
<1>1. IInv /\ NoLostWakeup /\ NoCycle => NoCircularWait
  <2> SUFFICES ASSUME IInv, NoLostWakeup, NoCycle,
                      NEW T \in SUBSET {r \in Requests : status[r] = "waiting"}, T # {}
               PROVE  \E r \in T, s \in Requests \ T :
                         /\ Line!Share(wants, r, s)
                         /\ Holding(s) \/ (status[s] = "waiting" /\ <<s, r>> \in QueuedBefore)
    BY DEF NoCircularWait
  <2>1. PICK r \in T : \A s \in T : <<s, r>> \notin QueuedBefore
    BY WFMin DEF NoCycle
  <2>2. r \in Requests /\ status[r] = "waiting" /\ ~Ready(queue, owner, wants, r)
    BY DEF NoLostWakeup
  <2>3. Typed(queue, owner, status, wants) /\ Queued(queue, status, wants) /\ Owned(owner, status, wants)
    BY DEF IInv, TypeOK, QueuesHoldWaiters, OwnersHold, Typed, Queued, Owned, Holding
  <2>4. r \notin Line!Eligible(wants, AbstractPhase, QueuedBefore)
    BY <2>2, <2>3, ReadyIsEligible, AbstractState
  <2>5. PICK s \in Requests :
          /\ Line!Share(wants, r, s)
          /\ AbstractPhase[s] = "holding" \/ (AbstractPhase[s] = "waiting" /\ <<s, r>> \in QueuedBefore)
    BY <2>2, <2>4 DEF Line!Eligible, AbstractPhase
  <2>6. Holding(s) \/ (status[s] = "waiting" /\ <<s, r>> \in QueuedBefore)
    BY <2>5 DEF AbstractPhase, Holding
  <2>7. s \notin T
    BY <2>1, <2>6 DEF Holding
  <2> QED BY <2>5, <2>6, <2>7
<1> QED BY <1>1, InductiveInvariant, NoLostWakeupHolds, NoCycleHolds, PTL
=============================================================================
