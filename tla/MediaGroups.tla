----------------------------- MODULE MediaGroups ------------------------------
(***************************************************************************)
(* The table of media groups of the proxy: registerMediaGroups, the lookup  *)
(* at the head of mediaGroupCandidates and pruneMediaGroupsLocked in        *)
(* internal/proxy/fallback.go.  A client registers the candidate URLs of a  *)
(* stream and gets an id; it asks for /proxy-group/<token>/<id>/<index>     *)
(* later.  The table keeps a group for mediaGroupTTL and holds no more than *)
(* maxMediaGroups.                                                          *)
(*                                                                         *)
(* Every call reads the clock BEFORE it takes mediaGroupMu, so the critical *)
(* sections may run in another order than their time stamps.  A group is    *)
(* its id here: ids are random 128 bit numbers, modelled as never used      *)
(* before, and both times of a group come from one stamp.                   *)
(***************************************************************************)
EXTENDS Naturals, FiniteSets, Eviction

CONSTANTS Ids,      \* the ids there are to hand out
          Workers,  \* the goroutines that call into the table
          TTL,      \* mediaGroupTTL
          Cap,      \* maxMediaGroups
          MaxBatch, \* bound on the groups of one registration
          MaxClock  \* bound on the clock, for model checking only

ASSUME ConstantsAssumption ==
  /\ TTL \in Nat \ {0}
  /\ Cap \in Nat \ {0}
  /\ MaxBatch \in Nat \ {0}
  /\ MaxClock \in Nat
  /\ IsFiniteSet(Ids)

VARIABLES clock,   \* what s.now() returns
          groups,  \* the ids in s.mediaGroups
          issued,  \* history: every id handed out so far
          created, \* CreatedAt of each issued id, kept when the group has gone
          call     \* what each goroutine is doing, and its time stamp

vars == <<clock, groups, issued, created, call>>

Idle == [op |-> "idle"]

\* A call between its reading of the clock and the end of its critical section,
\* and the answer of a lookup, kept until the goroutine's next call.  "known"
\* is history: the id had been handed out when the request came in.
Calls == {Idle}
         \cup [op : {"register"}, size : 1 .. MaxBatch, now : Nat]
         \cup [op : {"lookup", "found", "gone"}, id : Ids, inRange : BOOLEAN,
               known : BOOLEAN, now : Nat]

TypeOK == /\ clock \in Nat
          /\ groups \subseteq issued
          /\ issued \subseteq Ids
          /\ created \in [Ids -> Nat]
          /\ call \in [Workers -> Calls]

Init == /\ clock = 0
        /\ groups = {}
        /\ issued = {}
        /\ created = [i \in Ids |-> 0]
        /\ call = [w \in Workers |-> Idle]

-------------------------------------------------------------------------------
\* group.ExpiresAt
ExpiresAt(born, i) == born[i] + TTL

Unexpired(ids, born, now) == {i \in ids : now < ExpiresAt(born, i)}

EvictNewest(ids, born, now) ==
  Youngest(Unexpired(ids, born, now), [i \in Ids |-> MaxClock - born[i]], Cap)

EvictAtCap(ids, born, now) == Youngest(Unexpired(ids, born, now), born, Cap - 1)

\* What pruneMediaGroupsLocked may leave of the table: the groups that have not
\* expired at the caller's stamp and, of these, Cap of the youngest.
Pruned(ids, born, now) == Youngest(Unexpired(ids, born, now), born, Cap)

Ready(w) == call[w].op \in {"idle", "found", "gone"}

\* now := s.now(), outside the lock: the call is on its way.
Begin(w, c) == /\ Ready(w)
               /\ call' = [call EXCEPT ![w] = c]
               /\ UNCHANGED <<clock, groups, issued, created>>

\* A registration of some groups, by a client that posts them or for a rewritten
\* playurl response; only the first is limited (maxGroupsPerRequest).
BeginRegister(w) ==
  \E size \in 1 .. MaxBatch :
    Begin(w, [op |-> "register", size |-> size, now |-> clock])

\* A media request for an id the proxy has issued, or for one it has not, with
\* an index inside or outside the group's list.
BeginLookup(w) ==
  \E id \in Ids, inRange \in BOOLEAN :
    Begin(w, [op |-> "lookup", id |-> id, inRange |-> inRange,
              known |-> id \in issued, now |-> clock])

\* registerMediaGroups under mediaGroupMu: prune, insert the batch, prune again.
\* The second prune may take groups of the very batch.  The ids are returned.
Register(w) ==
  /\ call[w].op = "register"
  /\ \E new \in SUBSET (Ids \ issued) :
       LET now  == call[w].now
           born == [i \in Ids |-> IF i \in new THEN now ELSE created[i]]
       IN /\ Cardinality(new) = call[w].size
          /\ \E kept \in Pruned(groups, created, now) :
               groups' \in Pruned(kept \cup new, born, now)
          /\ issued' = issued \cup new
          /\ created' = born
  /\ call' = [call EXCEPT ![w] = Idle]
  /\ UNCHANGED clock

LookupUnpruned(w) ==
  /\ call[w].op = "lookup"
  /\ groups' = groups
  /\ call' = [call EXCEPT ![w].op =
                IF call[w].id \in groups' /\ call[w].inRange
                THEN "found" ELSE "gone"]
  /\ UNCHANGED <<clock, issued, created>>

\* mediaGroupCandidates under mediaGroupMu: prune, then find the group and the
\* index; otherwise the client gets 410.
Lookup(w) ==
  /\ call[w].op = "lookup"
  /\ groups' \in Pruned(groups, created, call[w].now)
  /\ call' = [call EXCEPT ![w].op =
                IF call[w].id \in groups' /\ call[w].inRange
                THEN "found" ELSE "gone"]
  /\ UNCHANGED <<clock, issued, created>>

Tick == /\ clock < MaxClock
        /\ clock' = clock + 1
        /\ UNCHANGED <<groups, issued, created, call>>

Next == \/ \E w \in Workers : \/ BeginRegister(w)
                              \/ BeginLookup(w)
                              \/ Register(w)
                              \/ Lookup(w)
        \/ Tick

Spec == Init /\ [][Next]_vars

-------------------------------------------------------------------------------
\* Outside the critical sections the table is never above its limit, whatever
\* the size of a batch and however late a section runs.
TableBounded == Cardinality(groups) <= Cap

\* A group may be missing from the table at a time when it has expired, or when
\* Cap of the groups handed out, all of them no older, can have displaced it.
MayBeGone(ids, born, i, now) ==
  \/ ExpiresAt(born, i) <= now
  \/ Cardinality({j \in ids \ {i} : born[i] <= born[j]}) >= Cap

\* The promise to a client that holds an id: until the group's time is over it
\* can be lost only to Cap other groups that are no older.  In particular the
\* table never sheds a group early because of a stamp read before the lock, and
\* never keeps an older group in place of a younger one.
KeptUntilDisplaced ==
  \A i \in issued \ groups : MayBeGone(issued, created, i, clock)

\* The answers: a group that is served had not expired at the request's stamp,
\* and a request for an id the client holds is told 410 only for an index out of
\* range or a group that is over or displaced.
AnswersHonest ==
  \A w \in Workers :
    /\ call[w].op = "found" => call[w].now < ExpiresAt(created, call[w].id)
    /\ call[w].op = "gone" /\ call[w].inRange /\ call[w].known =>
         MayBeGone(issued, created, call[w].id, clock)

\* A registration by the youngest stamp of all, of no more groups than the table
\* holds, is there in full when its ids are handed out: neither prune of the
\* section takes one of them.
FreshBatchLands ==
  [][\A w \in Workers :
       /\ Register(w)
       /\ call[w].size <= Cap
       /\ \A i \in groups : created[i] < call[w].now
       => issued' \ issued \subseteq groups']_vars
===============================================================================
