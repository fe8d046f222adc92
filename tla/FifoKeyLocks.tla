---------------------------- MODULE FifoKeyLocks ----------------------------
(***************************************************************************)
(* What the keyed mutation scheduler promises its callers, with no queue,  *)
(* owner slot or wake-up in sight: requests that share a key are served in *)
(* the order of their arrival, a request receives all of its keys at once, *)
(* and nobody waits who could be served (the ideal "single line" from      *)
(* which a request steps out as soon as nobody before it wants one of its  *)
(* keys).  KeyedScheduler implements this module.                          *)
(***************************************************************************)
CONSTANTS Requests,   \* calls of KeyedMutationScheduler.run
          Keys        \* canonical subject keys

VARIABLES wants,   \* the keys a request asked for
          phase,   \* "new", "waiting", "holding" or "gone"
          ahead    \* pairs <<s, r>> of waiting requests: s arrived before r
                   \* and the two share a key

vars == <<wants, phase, ahead>>

Init ==
    /\ wants = [r \in Requests |-> {}]
    /\ phase = [r \in Requests |-> "new"]
    /\ ahead = {}

Share(w, r, s) == r # s /\ w[r] \cap w[s] # {}

(* The waiting requests that nobody holds up, given wants w, phases ph and *)
(* arrival order ah.                                                       *)
Eligible(w, ph, ah) ==
    {r \in Requests :
        /\ ph[r] = "waiting"
        /\ \A s \in Requests :
              Share(w, r, s) => /\ ph[s] # "holding"
                                /\ ~ (ph[s] = "waiting" /\ <<s, r>> \in ah)}

(* Every step ends with everyone who can be served being served.           *)
Serve(ph, ah) ==
    /\ phase' = [r \in Requests |->
                    IF r \in Eligible(wants', ph, ah) THEN "holding" ELSE ph[r]]
    /\ ahead' = {pair \in ah : /\ phase'[pair[1]] = "waiting"
                               /\ phase'[pair[2]] = "waiting"}

Arrive(r, ks) ==
    /\ phase[r] = "new"
    /\ wants' = [wants EXCEPT ![r] = ks]
    /\ Serve([phase EXCEPT ![r] = "waiting"],
             ahead \cup {<<s, r>> : s \in {t \in Requests :
                            phase[t] = "waiting" /\ Share(wants', t, r)}})

(* A call that is turned away without ever standing in line.               *)
Refuse(r) ==
    /\ phase[r] = "new"
    /\ phase' = [phase EXCEPT ![r] = "gone"]
    /\ UNCHANGED <<wants, ahead>>

(* A waiting request gives up, or a served one returns its keys.           *)
Leave(r) ==
    /\ phase[r] \in {"waiting", "holding"}
    /\ UNCHANGED wants
    /\ Serve([phase EXCEPT ![r] = "gone"], ahead)

Next == \E r \in Requests :
            \/ \E ks \in SUBSET Keys : Arrive(r, ks)
            \/ Refuse(r)
            \/ Leave(r)

Spec == Init /\ [][Next]_vars
=============================================================================
