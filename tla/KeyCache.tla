------------------------------- MODULE KeyCache -------------------------------
(***************************************************************************)
(* What getWBIKey (internal/proxy/quality.go) promises its callers, with    *)
(* no word about how: no lock, no refresh channel, no waiting.  Each        *)
(* request gets one answer, and gets it in one step: the key in the cache   *)
(* while it is fresh, or the key it has just fetched itself, or an error.   *)
(* A key is named by the request whose fetch brought it, so that two        *)
(* fetches never count as one.                                              *)
(***************************************************************************)
EXTENDS Naturals

CONSTANTS Requests, \* the calls of getWBIKey
          NoKey,    \* the empty wbiMixinKey
          Failed,   \* the answer of a call that returned an error
          Pending,  \* the answer of a call that has not returned
          KeyTTL,   \* wbiKeyTTL
          MaxClock  \* bound on the clock, for model checking only

VARIABLES clock, key, expires, answer

vars == <<clock, key, expires, answer>>

Init == /\ clock = 0
        /\ key = NoKey
        /\ expires = 0
        /\ answer = [r \in Requests |-> Pending]

Fresh == key # NoKey /\ clock < expires

Answer(r, a) == /\ answer[r] = Pending
                /\ answer' = [answer EXCEPT ![r] = a]

Hit(r) == /\ Fresh
          /\ Answer(r, key)
          /\ UNCHANGED <<clock, key, expires>>

\* A key is fetched only to replace one that has run out.
Fill(r) == /\ ~Fresh
           /\ Answer(r, r)
           /\ key' = r
           /\ expires' = clock + KeyTTL
           /\ UNCHANGED clock

Fail(r) == /\ Answer(r, Failed)
           /\ UNCHANGED <<clock, key, expires>>

Tick == /\ clock < MaxClock
        /\ clock' = clock + 1
        /\ UNCHANGED <<key, expires, answer>>

Next == \/ \E r \in Requests : Hit(r) \/ Fill(r) \/ Fail(r)
        \/ Tick

Spec == Init /\ [][Next]_vars
===============================================================================
