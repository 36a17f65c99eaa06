----------------------------- MODULE WbiKeyProofs -----------------------------
(***************************************************************************)
(* For every set of calls and every lifetime of the key: the fetch of the   *)
(* signing key is single, no waiter is lost, a failure stays with the call  *)
(* that caused it, and the cache implements KeyCache.                       *)
(***************************************************************************)
EXTENDS WbiKey, TLAPS

\* A call has an answer exactly when it has returned.
AnsweredWhenDone == \A r \in Requests : answer[r] = Pending <=> pc[r] # "done"

\* What a leader knows: it led, and once its fetch is over it has a result.
LeadersFetch == /\ Leaders \subseteq led
                /\ \A r \in Requests :
                     pc[r] = "publish" => fetched[r] \in {r, Failed}

\* Nothing stores a key while a leader is out fetching, so the key it found
\* stale is stale when it comes back.
StaleWhileFetching == Leaders # {} => ~Fresh

IInv == /\ TypeOK
        /\ SingleFetch
        /\ NoLostWakeup
        /\ ErrorIsolation
        /\ AnsweredWhenDone
        /\ LeadersFetch
        /\ StaleWhileFetching

-------------------------------------------------------------------------------
\* The type invariant: each variable of the cache keeps its type.
THEOREM TypeCorrect == Spec => []TypeOK
<1> USE ConstantsAssumption
<1>1. Init => TypeOK
  BY DEF Init, TypeOK
<1>2. TypeOK /\ [Next]_vars => TypeOK'
  <2> SUFFICES ASSUME TypeOK, [Next]_vars PROVE TypeOK'
    OBVIOUS
  <2> USE DEF TypeOK, Goto, Return
  <2>1. CASE Tick
    BY <2>1 DEF Tick
  <2>2. CASE UNCHANGED vars
    BY <2>2 DEF vars
  <2>3. ASSUME NEW r \in Requests, Hit(r) PROVE TypeOK'
    BY <2>3 DEF Hit, Fresh
  <2>4. ASSUME NEW r \in Requests, Join(r) PROVE TypeOK'
    BY <2>4 DEF Join
  <2>5. ASSUME NEW r \in Requests, Lead(r) PROVE TypeOK'
    BY <2>5 DEF Lead
  <2>6. ASSUME NEW r \in Requests, Wake(r) PROVE TypeOK'
    BY <2>6 DEF Wake
  <2>7. ASSUME NEW r \in Requests, GiveUp(r) PROVE TypeOK'
    BY <2>7 DEF GiveUp
  <2>8. ASSUME NEW r \in Requests, FetchDone(r) PROVE TypeOK'
    BY <2>8 DEF FetchDone
  <2>9. ASSUME NEW r \in Requests, Publish(r) PROVE TypeOK'
    BY <2>9 DEF Publish, Store
  <2>10. ASSUME NEW r \in Requests, Expire(r) PROVE TypeOK'
    BY <2>10 DEF Expire
  <2>11. QED
    BY <2>1, <2>2, <2>3, <2>4, <2>5, <2>6, <2>7, <2>8, <2>9, <2>10
    DEF Next, Lookup, Select
<1>3. QED
  BY <1>1, <1>2, PTL DEF Spec

-------------------------------------------------------------------------------
\* Every reachable state satisfies the inductive invariant.
LEMMA Invariance == Spec => []IInv
<1> USE ConstantsAssumption
<1>1. Init => IInv
  BY DEF Init, IInv, TypeOK, SingleFetch, NoLostWakeup, ErrorIsolation, Leaders,
         AnsweredWhenDone, LeadersFetch, StaleWhileFetching, Fresh
<1>2. TypeOK /\ TypeOK' /\ IInv /\ [Next]_vars => IInv'
  <2> SUFFICES ASSUME TypeOK, TypeOK', IInv, [Next]_vars PROVE IInv'
    OBVIOUS
  <2> USE DEF IInv, TypeOK, SingleFetch, NoLostWakeup, ErrorIsolation, Leaders,
              AnsweredWhenDone, LeadersFetch, StaleWhileFetching, Fresh, Goto, Return
  <2>1. CASE Tick
    BY <2>1 DEF Tick
  <2>2. CASE UNCHANGED vars
    BY <2>2 DEF vars
  <2>3. ASSUME NEW r \in Requests, Hit(r) PROVE IInv'
    BY <2>3 DEF Hit, Fresh
  <2>4. ASSUME NEW r \in Requests, Join(r) PROVE IInv'
    BY <2>4 DEF Join
  <2>5. ASSUME NEW r \in Requests, Lead(r) PROVE IInv'
    BY <2>5 DEF Lead
  <2>6. ASSUME NEW r \in Requests, Wake(r) PROVE IInv'
    BY <2>6 DEF Wake
  <2>7. ASSUME NEW r \in Requests, GiveUp(r) PROVE IInv'
    BY <2>7 DEF GiveUp
  <2>8. ASSUME NEW r \in Requests, FetchDone(r) PROVE IInv'
    BY <2>8 DEF FetchDone
  <2>9. ASSUME NEW r \in Requests, Publish(r) PROVE IInv'
    BY <2>9 DEF Publish, Store
  <2>10. ASSUME NEW r \in Requests, Expire(r) PROVE IInv'
    BY <2>10 DEF Expire
  <2>11. QED
    BY <2>1, <2>2, <2>3, <2>4, <2>5, <2>6, <2>7, <2>8, <2>9, <2>10
    DEF Next, Lookup, Select
<1>3. QED
  BY <1>1, <1>2, TypeCorrect, PTL DEF Spec

\* Upstream never sees two key fetches at once.
THEOREM OneFetchAtATime == Spec => []SingleFetch
  BY Invariance, PTL DEF IInv

\* No call waits on a channel that nobody is going to close.
THEOREM NobodyLeftWaiting == Spec => []NoLostWakeup
  BY Invariance, PTL DEF IInv

\* A call fails only because of its own context or its own fetch.
THEOREM FailuresStayApart == Spec => []ErrorIsolation
  BY Invariance, PTL DEF IInv

-------------------------------------------------------------------------------
\* The locked cache with its waiters implements the plain cache of KeyCache: a
\* step that returns from getWBIKey is a Hit, a Fill or a Fail, and every other
\* step is a Tick or nothing at all.
THEOREM Refinement == Spec => ImplementsKeyCache
<1> USE ConstantsAssumption
<1>1. Init => Cache!Init
  BY DEF Init, Cache!Init
<1>2. IInv /\ [Next]_vars => [Cache!Next]_Cache!vars
  <2> SUFFICES ASSUME IInv, [Next]_vars PROVE [Cache!Next]_Cache!vars
    OBVIOUS
  <2> USE DEF IInv, AnsweredWhenDone, TypeOK, Goto, Return, Cache!Answer,
              Cache!vars, Cache!Next, Fresh, Cache!Fresh
  <2>1. CASE Tick
    BY <2>1 DEF Tick, Cache!Tick
  <2>2. CASE UNCHANGED vars
    BY <2>2 DEF vars
  <2>3. ASSUME NEW r \in Requests, Hit(r) PROVE Cache!Hit(r)
    BY <2>3 DEF Hit, Cache!Hit
  <2>4. ASSUME NEW r \in Requests, Join(r) PROVE UNCHANGED Cache!vars
    BY <2>4 DEF Join
  <2>5. ASSUME NEW r \in Requests, Lead(r) PROVE UNCHANGED Cache!vars
    BY <2>5 DEF Lead
  <2>6. ASSUME NEW r \in Requests, Wake(r) PROVE UNCHANGED Cache!vars
    BY <2>6 DEF Wake
  <2>7. ASSUME NEW r \in Requests, GiveUp(r) PROVE Cache!Fail(r)
    BY <2>7 DEF GiveUp, Cache!Fail
  <2>8. ASSUME NEW r \in Requests, FetchDone(r) PROVE UNCHANGED Cache!vars
    BY <2>8 DEF FetchDone
  <2>9. ASSUME NEW r \in Requests, Publish(r) PROVE Cache!Fill(r) \/ Cache!Fail(r)
    <3>1. ~Fresh
      BY <2>9 DEF Publish, StaleWhileFetching, Leaders
    <3>2. CASE fetched[r] = r
      BY <2>9, <3>1, <3>2 DEF Publish, Store, Cache!Fill
    <3>3. CASE fetched[r] = Failed
      BY <2>9, <3>3 DEF Publish, Store, Cache!Fail
    <3>4. QED
      BY <2>9, <3>2, <3>3 DEF Publish, LeadersFetch
  <2>10. ASSUME NEW r \in Requests, Expire(r) PROVE UNCHANGED Cache!vars
    BY <2>10 DEF Expire
  <2>11. QED
    BY <2>1, <2>2, <2>3, <2>4, <2>5, <2>6, <2>7, <2>8, <2>9, <2>10
    DEF Next, Lookup, Select
<1>3. QED
  BY <1>1, <1>2, Invariance, PTL DEF Spec, ImplementsKeyCache, Cache!Spec
===============================================================================
