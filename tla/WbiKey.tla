-------------------------------- MODULE WbiKey --------------------------------
(***************************************************************************)
(* The signing key cache of the proxy: getWBIKey in                         *)
(* internal/proxy/quality.go, called by every request whose playurl has to  *)
(* be signed.  The key is fetched from upstream by one request at a time;   *)
(* the others wait on the channel wbiRefresh, which its maker closes.       *)
(*                                                                         *)
(* A request makes at most one channel (it returns after its own fetch), so *)
(* a channel is named by its maker, and so is the key its fetch brought.    *)
(* Every section under wbiMu is one action; the fetch, which runs outside   *)
(* the lock, is another, and the clock may move between any two.            *)
(***************************************************************************)
EXTENDS Naturals

CONSTANTS Requests, \* the calls of getWBIKey, one per signed playurl request
          NoKey,    \* wbiMixinKey before the first fetch
          NoChan,   \* wbiRefresh == nil
          Failed,   \* the answer of a call that returned an error
          Pending,  \* a call that has not returned
          KeyTTL,   \* wbiKeyTTL
          MaxClock  \* bound on the clock, for model checking only

ASSUME ConstantsAssumption ==
  /\ KeyTTL \in Nat \ {0}
  /\ MaxClock \in Nat
  /\ {NoKey, NoChan, Failed, Pending} \cap Requests = {}
  /\ Failed # Pending

VARIABLES clock,      \* what s.now() returns
          mixinKey,   \* wbiMixinKey
          keyExpires, \* wbiKeyExpires
          refresh,    \* wbiRefresh
          closed,     \* the channels that have been closed
          pc,         \* where each call stands in the loop
          chan,       \* the channel a waiting call selects on
          fetched,    \* what fetchWBIKey returned to a leader
          expired,    \* the calls whose context is done
          led,        \* history: the calls that started a fetch
          answer      \* what each call returned

vars == <<clock, mixinKey, keyExpires, refresh, closed, pc, chan, fetched,
          expired, led, answer>>

TypeOK ==
  /\ clock \in Nat
  /\ mixinKey \in Requests \cup {NoKey}
  /\ keyExpires \in Nat
  /\ refresh \in Requests \cup {NoChan}
  /\ closed \subseteq Requests
  /\ pc \in [Requests -> {"lookup", "wait", "fetch", "publish", "done"}]
  /\ chan \in [Requests -> Requests \cup {NoChan}]
  /\ fetched \in [Requests -> Requests \cup {Failed, Pending}]
  /\ expired \subseteq Requests
  /\ led \subseteq Requests
  /\ answer \in [Requests -> Requests \cup {Failed, Pending}]

Init ==
  /\ clock = 0
  /\ mixinKey = NoKey
  /\ keyExpires = 0
  /\ refresh = NoChan
  /\ closed = {}
  /\ pc = [r \in Requests |-> "lookup"]
  /\ chan = [r \in Requests |-> NoChan]
  /\ fetched = [r \in Requests |-> Pending]
  /\ expired = {}
  /\ led = {}
  /\ answer = [r \in Requests |-> Pending]

-------------------------------------------------------------------------------
Goto(r, label) == pc' = [pc EXCEPT ![r] = label]

Return(r, a) == /\ Goto(r, "done")
                /\ answer' = [answer EXCEPT ![r] = a]

FreshNoExpiry == mixinKey # NoKey

Fresh == mixinKey # NoKey /\ clock < keyExpires

\* First section under wbiMu, a fresh key: return it.
Hit(r) == /\ pc[r] = "lookup"
          /\ Fresh
          /\ Return(r, mixinKey)
          /\ UNCHANGED <<clock, mixinKey, keyExpires, refresh, closed, chan,
                         fetched, expired, led>>

\* The same section, another call is fetching: remember its channel and wait.
Join(r) == /\ pc[r] = "lookup"
           /\ ~Fresh
           /\ refresh # NoChan
           /\ chan' = [chan EXCEPT ![r] = refresh]
           /\ Goto(r, "wait")
           /\ UNCHANGED <<clock, mixinKey, keyExpires, refresh, closed,
                          fetched, expired, led, answer>>

LeadAlways(r) ==
  /\ pc[r] = "lookup"
  /\ ~Fresh
  /\ refresh' = r
  /\ led' = led \cup {r}
  /\ Goto(r, "fetch")
  /\ UNCHANGED <<clock, mixinKey, keyExpires, closed, chan, fetched, expired,
                 answer>>

\* The same section, nobody is fetching: become the leader.
Lead(r) == /\ pc[r] = "lookup"
           /\ ~Fresh
           /\ refresh = NoChan
           /\ refresh' = r
           /\ led' = led \cup {r}
           /\ Goto(r, "fetch")
           /\ UNCHANGED <<clock, mixinKey, keyExpires, closed, chan, fetched,
                          expired, answer>>

WakeWithError(r) ==
  /\ pc[r] = "wait"
  /\ chan[r] \in closed
  /\ IF fetched[chan[r]] = Failed
     THEN Return(r, Failed)
     ELSE Goto(r, "lookup") /\ UNCHANGED answer
  /\ UNCHANGED <<clock, mixinKey, keyExpires, refresh, closed, chan, fetched,
                 expired, led>>

\* select: the channel is closed, so look again.  The waiter learns nothing of
\* how the fetch ended.
Wake(r) == /\ pc[r] = "wait"
           /\ chan[r] \in closed
           /\ Goto(r, "lookup")
           /\ UNCHANGED <<clock, mixinKey, keyExpires, refresh, closed, chan,
                          fetched, expired, led, answer>>

\* select: the caller's context is done.
GiveUp(r) == /\ pc[r] = "wait"
             /\ r \in expired
             /\ Return(r, Failed)
             /\ UNCHANGED <<clock, mixinKey, keyExpires, refresh, closed, chan,
                            fetched, expired, led>>

\* fetchWBIKey returns, outside the lock: a key, or an error for a transport
\* failure, a status other than 200, a bad body, a bad key, a done context.
FetchDone(r) == /\ pc[r] = "fetch"
                /\ \E result \in {r, Failed} :
                     fetched' = [fetched EXCEPT ![r] = result]
                /\ Goto(r, "publish")
                /\ UNCHANGED <<clock, mixinKey, keyExpires, refresh, closed,
                               chan, expired, led, answer>>

Store(r) == IF fetched[r] = r
            THEN /\ mixinKey' = r
                 /\ keyExpires' = clock + KeyTTL
            ELSE UNCHANGED <<mixinKey, keyExpires>>

PublishKeepsChannel(r) ==
  /\ pc[r] = "publish"
  /\ Store(r)
  /\ closed' = closed \cup {r}
  /\ Return(r, fetched[r])
  /\ UNCHANGED <<clock, refresh, chan, fetched, expired, led>>

PublishClosesOnSuccess(r) ==
  /\ pc[r] = "publish"
  /\ Store(r)
  /\ closed' = IF fetched[r] = r THEN closed \cup {r} ELSE closed
  /\ refresh' = NoChan
  /\ Return(r, fetched[r])
  /\ UNCHANGED <<clock, chan, fetched, expired, led>>

\* Second section under wbiMu: keep the key if there is one, close the channel
\* in either case, clear wbiRefresh, return.
Publish(r) == /\ pc[r] = "publish"
              /\ Store(r)
              /\ closed' = closed \cup {r}
              /\ refresh' = NoChan
              /\ Return(r, fetched[r])
              /\ UNCHANGED <<clock, chan, fetched, expired, led>>

\* qualityCtx is done: wbiFetchTimeout has passed, or the client has gone.
Expire(r) == /\ pc[r] # "done"
             /\ r \notin expired
             /\ expired' = expired \cup {r}
             /\ UNCHANGED <<clock, mixinKey, keyExpires, refresh, closed, pc,
                            chan, fetched, led, answer>>

Tick == /\ clock < MaxClock
        /\ clock' = clock + 1
        /\ UNCHANGED <<mixinKey, keyExpires, refresh, closed, pc, chan, fetched,
                       expired, led, answer>>

Lookup(r) == Hit(r) \/ Join(r) \/ Lead(r)

Select(r) == Wake(r) \/ GiveUp(r)

Next == \/ \E r \in Requests : \/ Lookup(r)
                               \/ Select(r)
                               \/ FetchDone(r)
                               \/ Publish(r)
                               \/ Expire(r)
        \/ Tick

\* A goroutine that can run does run, and a fetch ends: its context has a
\* deadline.  Nothing is assumed of the deadlines of the calls that wait.
Fairness == \A r \in Requests : /\ WF_vars(Lookup(r))
                                /\ WF_vars(Select(r))
                                /\ WF_vars(FetchDone(r))
                                /\ WF_vars(Publish(r))

Spec == Init /\ [][Next]_vars

FairSpec == Spec /\ Fairness

-------------------------------------------------------------------------------
Leaders == {r \in Requests : pc[r] \in {"fetch", "publish"}}

\* At most one call is between making wbiRefresh and clearing it, and wbiRefresh
\* is that call's channel: upstream never sees two key fetches at once, however
\* many requests find the key stale together.
SingleFetch == Leaders = {refresh} \ {NoChan}

\* A call that waits has a channel that is closed already or that the present
\* leader is going to close: the check of wbiRefresh and the wait are two
\* steps, and a fetch that ends in between, well or badly, must not leave a
\* waiter behind on a channel nobody holds any more.
NoLostWakeup == \A r \in Requests :
                  pc[r] = "wait" => chan[r] \in closed \cup Leaders

\* A call fails only by its own doing: its own context was done, or its own
\* fetch failed.  The leader fetches with its own cookie and its own deadline,
\* so a client that goes away must not fail the requests that wait for it.
ErrorIsolation == \A r \in Requests :
                    answer[r] = Failed => \/ r \in expired
                                          \/ r \in led /\ fetched[r] = Failed

\* Every call returns, without any help from its own deadline: each failed
\* leader hands over to the waiters, one of which leads next.
EveryCallReturns == \A r \in Requests : <>(pc[r] = "done")

\* The cache with its lock, channel and waiters gives the answers of the plain
\* cache of KeyCache: a fresh key is never fetched again or replaced, and the
\* key a call returns is fresh when it is returned or fetched by the call.
Cache == INSTANCE KeyCache WITH key <- mixinKey, expires <- keyExpires

ImplementsKeyCache == Cache!Spec
===============================================================================
