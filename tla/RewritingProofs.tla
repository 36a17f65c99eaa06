---------------------------- MODULE RewritingProofs ---------------------------
(***************************************************************************)
(* What the proxy changes in what passes through it, and the media groups     *)
(* that the links it writes lead to.                                        *)
(*                                                                         *)
(* For every capacity, lifetime, batch size and number of goroutines: the   *)
(* table of media groups is bounded, loses a group only when its time is    *)
(* over or to Cap groups that are no older, and answers lookups             *)
(* accordingly, although every stamp is read before the lock is taken.      *)
(*                                                                         *)
(* For every document, playlist, query and message: each link of a playurl    *)
(* answer leads to the address that it replaced, its summary does not depend  *)
(* on the order in which Go walks its maps, the player of a playlist is sent   *)
(* nowhere but to the proxy and sees of a cut one the last segments, as        *)
(* upstream described them, a signature covers the whole query that is sent,  *)
(* and a gRPC message loses its field and nothing else.                      *)
(***************************************************************************)
EXTENDS Rewriting, MediaGroups, NaturalsInduction, SequenceTheorems, FiniteSetTheorems, TLAPS

-------------------------------------------------------------------------------
(* The table of media groups.                                               *)

\* No stamp is ahead of the clock: neither a group's nor that of a call.
StampsPast == /\ \A i \in Ids : created[i] <= clock
              /\ \A w \in Workers : call[w].op # "idle" => call[w].now <= clock

\* What a lookup knows of its id is in the history.
KnownIssued == \A w \in Workers :
                 /\ call[w].op \in {"lookup", "gone"} /\ call[w].known
                      => call[w].id \in issued
                 /\ call[w].op = "found" => call[w].id \in issued

IInv == /\ TypeOK
        /\ StampsPast
        /\ KnownIssued
        /\ TableBounded
        /\ KeptUntilDisplaced
        /\ AnswersHonest

-------------------------------------------------------------------------------
\* What pruneMediaGroupsLocked leaves: no more than Cap groups, none expired at
\* the stamp, and a reason for each group that it took.
LEMMA PruneReasons ==
  ASSUME NEW ids \in SUBSET Ids, NEW born \in [Ids -> Nat], NEW now \in Nat,
         NEW kept \in Pruned(ids, born, now)
  PROVE  /\ kept \subseteq ids
         /\ Cardinality(kept) <= Cap
         /\ \A i \in kept : now < ExpiresAt(born, i)
         /\ \A i \in ids \ kept :
              \/ ExpiresAt(born, i) <= now
              \/ Cardinality(kept) = Cap /\ \A k \in kept : born[i] <= born[k]
<1> USE ConstantsAssumption
<1> DEFINE live == Unexpired(ids, born, now)
<1>1. \A i \in ids \ live : ExpiresAt(born, i) <= now
  BY DEF Unexpired, ExpiresAt
<1> USE DEF Youngest, Unexpired
<1>2. CASE Cardinality(live) <= Cap
  <2>1. kept = live
    BY <1>2 DEF Pruned
  <2>2. QED
    BY <1>1, <1>2, <2>1
<1>3. CASE ~(Cardinality(live) <= Cap)
  <2>1. /\ kept \subseteq live
        /\ Cardinality(kept) = Cap
        /\ \A i \in kept, j \in live \ kept : born[j] <= born[i]
    BY <1>3 DEF Pruned
  <2>2. QED
    BY <1>1, <2>1
<1>4. QED
  BY <1>2, <1>3

\* A group that may be gone may be gone for ever: later, when more ids have been
\* handed out.
LEMMA GoneForGood ==
  ASSUME NEW more \in SUBSET Ids, NEW ids \in SUBSET more, NEW i \in ids,
         NEW born \in [Ids -> Nat], NEW later \in [Ids -> Nat],
         \A j \in ids : later[j] = born[j],
         NEW now \in Nat, NEW then \in Nat, now <= then,
         MayBeGone(ids, born, i, now)
  PROVE  MayBeGone(more, later, i, then)
<1> USE ConstantsAssumption
<1> DEFINE others == {j \in ids \ {i} : born[i] <= born[j]}
           laterOthers == {j \in more \ {i} : later[i] <= later[j]}
<1>1. CASE ExpiresAt(born, i) <= now
  BY <1>1 DEF MayBeGone, ExpiresAt
<1>2. CASE Cardinality(others) >= Cap
  <2>1. others \subseteq laterOthers
    OBVIOUS
  <2>2. IsFiniteSet(laterOthers) /\ IsFiniteSet(others)
    BY FS_Subset
  <2>3. Cardinality(laterOthers) >= Cap
    BY <1>2, <2>1, <2>2, FS_Subset, FS_CardinalityType
  <2>4. QED
    BY <2>3 DEF MayBeGone
<1>3. QED
  BY <1>1, <1>2 DEF MayBeGone

\* Cap survivors that are no older than a group are a reason for it to be gone.
LEMMA DisplacedBySurvivors ==
  ASSUME NEW ids \in SUBSET Ids, NEW born \in [Ids -> Nat], NEW i \in ids,
         NEW kept \in SUBSET ids, i \notin kept, Cardinality(kept) = Cap,
         \A k \in kept : born[i] <= born[k], NEW now
  PROVE  MayBeGone(ids, born, i, now)
<1> USE ConstantsAssumption
<1> DEFINE others == {j \in ids \ {i} : born[i] <= born[j]}
<1>1. kept \subseteq others
  OBVIOUS
<1>2. IsFiniteSet(others)
  BY FS_Subset
<1>3. Cardinality(others) >= Cap
  BY <1>1, <1>2, FS_Subset, FS_CardinalityType
<1>4. QED
  BY <1>3 DEF MayBeGone

\* What one prune takes from the table may be gone.
LEMMA PrunedMayBeGone ==
  ASSUME NEW ids \in SUBSET Ids, NEW born \in [Ids -> Nat], NEW held \in SUBSET ids,
         NEW now \in Nat, NEW then \in Nat, now <= then,
         NEW kept \in Pruned(held, born, now)
  PROVE  \A i \in held \ kept : MayBeGone(ids, born, i, then)
<1> USE ConstantsAssumption
<1>1. /\ kept \subseteq held
      /\ \A i \in held \ kept :
           \/ ExpiresAt(born, i) <= now
           \/ Cardinality(kept) = Cap /\ \A k \in kept : born[i] <= born[k]
  BY PruneReasons
<1> SUFFICES ASSUME NEW i \in held \ kept PROVE MayBeGone(ids, born, i, then)
  OBVIOUS
<1>2. CASE ExpiresAt(born, i) <= now
  BY <1>2 DEF MayBeGone, ExpiresAt
<1>3. CASE Cardinality(kept) = Cap /\ \A k \in kept : born[i] <= born[k]
  BY <1>1, <1>3, DisplacedBySurvivors
<1>4. QED
  BY <1>1, <1>2, <1>3

-------------------------------------------------------------------------------
\* The type invariant: each variable of the table keeps its type.
THEOREM TypeCorrect == Spec => []TypeOK
<1> USE ConstantsAssumption
<1>1. Init => TypeOK
  BY DEF Init, TypeOK, Calls, Idle
<1>2. TypeOK /\ [Next]_vars => TypeOK'
  <2> SUFFICES ASSUME TypeOK, [Next]_vars PROVE TypeOK'
    OBVIOUS
  <2> USE DEF TypeOK, Calls, Idle
  <2>1. CASE Tick
    BY <2>1 DEF Tick
  <2>2. CASE UNCHANGED vars
    BY <2>2 DEF vars
  <2>3. ASSUME NEW w \in Workers, BeginRegister(w) PROVE TypeOK'
    BY <2>3 DEF BeginRegister, Begin
  <2>4. ASSUME NEW w \in Workers, BeginLookup(w) PROVE TypeOK'
    BY <2>4 DEF BeginLookup, Begin
  <2>5. ASSUME NEW w \in Workers, Register(w) PROVE TypeOK'
    <3> DEFINE now == call[w].now
    <3>1. now \in Nat /\ groups \in SUBSET Ids /\ created \in [Ids -> Nat]
      BY <2>5 DEF Register
    <3>2. PICK new \in SUBSET (Ids \ issued) :
            LET born == [i \in Ids |-> IF i \in new THEN now ELSE created[i]]
            IN /\ \E kept \in Pruned(groups, created, now) :
                    groups' \in Pruned(kept \cup new, born, now)
               /\ issued' = issued \cup new
               /\ created' = born
      BY <2>5 DEF Register
    <3> HIDE DEF now
    <3>3. created' \in [Ids -> Nat] /\ issued' \subseteq Ids
      BY <3>1, <3>2
    <3>4. PICK kept \in Pruned(groups, created, now) :
            groups' \in Pruned(kept \cup new, created', now)
      BY <3>2
    <3> HIDE DEF TypeOK
    <3>5. kept \subseteq groups
      BY <3>1, <3>4, PruneReasons
    <3>6. groups' \subseteq kept \cup new
      BY <3>1, <3>3, <3>4, <3>5, PruneReasons
    <3> USE DEF TypeOK
    <3>7. call' \in [Workers -> Calls] /\ clock' \in Nat
      BY <2>5 DEF Register
    <3>8. QED
      BY <3>2, <3>3, <3>5, <3>6, <3>7
  <2>6. ASSUME NEW w \in Workers, Lookup(w) PROVE TypeOK'
    <3> DEFINE now == call[w].now
    <3>1. /\ now \in Nat /\ groups \in SUBSET Ids /\ created \in [Ids -> Nat]
          /\ groups' \in Pruned(groups, created, now)
      BY <2>6 DEF Lookup
    <3> HIDE DEF now, TypeOK
    <3>2. groups' \subseteq groups
      BY <3>1, PruneReasons
    <3> USE DEF TypeOK
    <3>3. QED
      BY <2>6, <3>2 DEF Lookup
  <2>7. QED
    BY <2>1, <2>2, <2>3, <2>4, <2>5, <2>6 DEF Next
<1>3. QED
  BY <1>1, <1>2, PTL DEF Spec

-------------------------------------------------------------------------------
\* Every reachable state satisfies the inductive invariant.
LEMMA Invariance == Spec => []IInv
<1> USE ConstantsAssumption
<1>1. Init => IInv
  BY FS_EmptySet DEF Init, IInv, TypeOK, Calls, Idle, StampsPast, KnownIssued, TableBounded,
         KeptUntilDisplaced, AnswersHonest
<1>2. TypeOK' /\ IInv /\ [Next]_vars => IInv'
  <2> SUFFICES ASSUME TypeOK', IInv, [Next]_vars PROVE IInv'
    OBVIOUS
  <2> USE DEF IInv
  <2>1. CASE Tick
    BY <2>1 DEF Tick, TypeOK, Calls, Idle, StampsPast, KnownIssued, TableBounded,
         KeptUntilDisplaced, AnswersHonest, MayBeGone, ExpiresAt
  <2>2. CASE UNCHANGED vars
    BY <2>2 DEF vars, TypeOK, Calls, Idle, StampsPast, KnownIssued, TableBounded,
         KeptUntilDisplaced, AnswersHonest, MayBeGone, ExpiresAt
  <2>3. ASSUME NEW w \in Workers, NEW c, Begin(w, c), c.op \in {"register", "lookup"},
               c.now = clock, c.op = "lookup" /\ c.known => c.id \in issued
        PROVE IInv'
    BY <2>3 DEF Begin, TypeOK, StampsPast, KnownIssued, TableBounded,
         KeptUntilDisplaced, AnswersHonest, MayBeGone, ExpiresAt
  <2>4. ASSUME NEW w \in Workers, BeginRegister(w) PROVE IInv'
    BY <2>4, <2>3 DEF BeginRegister
  <2>5. ASSUME NEW w \in Workers, BeginLookup(w) PROVE IInv'
    BY <2>5, <2>3 DEF BeginLookup
  <2>6. ASSUME NEW w \in Workers, Register(w) PROVE IInv'
    <3> DEFINE now == call[w].now
    <3>1. /\ now \in Nat /\ now <= clock /\ clock \in Nat
          /\ groups \in SUBSET issued /\ issued \in SUBSET Ids
          /\ created \in [Ids -> Nat]
          /\ call' = [call EXCEPT ![w] = Idle] /\ clock' = clock
      BY <2>6 DEF Register, TypeOK, Calls, Idle, StampsPast
    <3>2. PICK new \in SUBSET (Ids \ issued) :
            LET born == [i \in Ids |-> IF i \in new THEN now ELSE created[i]]
            IN /\ \E kept \in Pruned(groups, created, now) :
                    groups' \in Pruned(kept \cup new, born, now)
               /\ issued' = issued \cup new
               /\ created' = born
      BY <2>6 DEF Register
    <3>3. PICK kept \in Pruned(groups, created, now) :
            groups' \in Pruned(kept \cup new, created', now)
      BY <3>2
    <3> HIDE DEF now
    <3>4. kept \subseteq groups
      BY <3>1, <3>3, PruneReasons
    <3>5. /\ created' \in [Ids -> Nat]
          /\ issued' \in SUBSET Ids /\ issued \in SUBSET issued'
          /\ kept \cup new \in SUBSET issued' /\ kept \cup new \in SUBSET Ids
          /\ \A i \in issued : created'[i] = created[i]
          /\ \A i \in Ids : created'[i] \in {now, created[i]}
      BY <3>1, <3>2, <3>4
    <3>6. Cardinality(groups') <= Cap
      BY <3>1, <3>3, <3>5, PruneReasons
    <3>7. KeptUntilDisplaced'
      <4>1. \A i \in issued \ groups : MayBeGone(issued', created', i, clock)
        BY <3>1, <3>5, GoneForGood DEF KeptUntilDisplaced
      <4>2. \A i \in groups \ kept : MayBeGone(issued', created', i, clock)
        <5>1. \A i \in groups \ kept : MayBeGone(issued, created, i, clock)
          BY <3>1, <3>3, PrunedMayBeGone
        <5>2. QED
          BY <3>1, <3>5, <5>1, GoneForGood
      <4>3. \A i \in (kept \cup new) \ groups' : MayBeGone(issued', created', i, clock)
        BY <3>1, <3>3, <3>5, PrunedMayBeGone
      <4>4. QED
        BY <3>1, <3>2, <4>1, <4>2, <4>3 DEF KeptUntilDisplaced
    <3>8. AnswersHonest'
      <4> SUFFICES ASSUME NEW v \in Workers
                   PROVE  /\ call'[v].op = "found" =>
                                call'[v].now < ExpiresAt(created', call'[v].id)
                          /\ call'[v].op = "gone" /\ call'[v].inRange /\ call'[v].known =>
                               MayBeGone(issued', created', call'[v].id, clock')
        BY DEF AnswersHonest
      <4>1. call'[v] = call[v] \/ call'[v] = Idle
        BY <3>1 DEF TypeOK
      <4>2. CASE call'[v] = Idle
        BY <4>2 DEF Idle
      <4>3. CASE call'[v] = call[v] /\ call[v].op = "found"
        BY <3>5, <4>3 DEF AnswersHonest, KnownIssued, ExpiresAt
      <4>4. CASE call'[v] = call[v] /\ call[v].op = "gone" /\ call[v].inRange /\ call[v].known
        <5>1. call[v].id \in issued /\ MayBeGone(issued, created, call[v].id, clock)
          BY <4>4 DEF KnownIssued, AnswersHonest
        <5>2. MayBeGone(issued', created', call[v].id, clock)
          BY <3>1, <3>5, <5>1, GoneForGood
        <5>3. QED
          BY <3>1, <4>4, <5>2
      <4>5. QED
        BY <4>1, <4>2, <4>3, <4>4
    <3>9. StampsPast' /\ TableBounded'
      BY <3>1, <3>5, <3>6 DEF StampsPast, TableBounded, TypeOK, Idle
    <3>10. KnownIssued'
      BY <3>1, <3>5 DEF KnownIssued, TypeOK, Idle
    <3>11. QED
      BY <3>7, <3>8, <3>9, <3>10
  <2>7. ASSUME NEW w \in Workers, Lookup(w) PROVE IInv'
    <3> DEFINE now == call[w].now
    <3>1. /\ now \in Nat /\ now <= clock /\ clock \in Nat
          /\ groups \in SUBSET issued /\ issued \in SUBSET Ids
          /\ created \in [Ids -> Nat]
          /\ groups' \in Pruned(groups, created, now)
      BY <2>7 DEF Lookup, TypeOK, Calls, Idle, StampsPast
    <3>2. /\ call[w].op = "lookup"
          /\ call' = [call EXCEPT ![w].op =
                         IF call[w].id \in groups' /\ call[w].inRange
                         THEN "found" ELSE "gone"]
          /\ clock' = clock /\ issued' = issued /\ created' = created
      BY <2>7 DEF Lookup
    <3>3. /\ call'[w].id = call[w].id /\ call'[w].inRange = call[w].inRange
          /\ call'[w].known = call[w].known /\ call'[w].now = now
          /\ call'[w].op = IF call[w].id \in groups' /\ call[w].inRange
                           THEN "found" ELSE "gone"
      <4>1. call[w] \in [op : {"lookup", "found", "gone"}, id : Ids, inRange : BOOLEAN,
                         known : BOOLEAN, now : Nat]
        BY <3>2 DEF TypeOK, Calls, Idle
      <4>2. QED
        BY <3>2, <4>1 DEF TypeOK
    <3> HIDE DEF now
    <3>4. /\ groups' \subseteq groups
          /\ Cardinality(groups') <= Cap
          /\ \A i \in groups' : now < ExpiresAt(created, i)
      BY <3>1, PruneReasons
    <3>5. \A i \in issued \ groups' : MayBeGone(issued, created, i, clock)
      <4>1. \A i \in groups \ groups' : MayBeGone(issued, created, i, clock)
        BY <3>1, PrunedMayBeGone
      <4>2. QED
        BY <4>1 DEF KeptUntilDisplaced
    <3>6. KeptUntilDisplaced'
      BY <3>2, <3>5 DEF KeptUntilDisplaced
    <3>7. \A v \in Workers \ {w} : call'[v] = call[v]
      BY <3>2 DEF TypeOK
    <3>8. KnownIssued' /\ StampsPast' /\ TableBounded'
      BY <3>1, <3>2, <3>3, <3>4, <3>7 DEF KnownIssued, StampsPast, TableBounded
    <3>9. AnswersHonest'
      <4> SUFFICES ASSUME NEW v \in Workers
                   PROVE  /\ call'[v].op = "found" =>
                                call'[v].now < ExpiresAt(created, call'[v].id)
                          /\ call'[v].op = "gone" /\ call'[v].inRange /\ call'[v].known =>
                               MayBeGone(issued, created, call'[v].id, clock)
        BY <3>2 DEF AnswersHonest
      <4>1. CASE v = w
        <5>1. CASE call'[w].op = "found"
          BY <3>3, <3>4, <4>1, <5>1
        <5>2. CASE call'[w].op = "gone" /\ call[w].inRange /\ call[w].known
          <6>1. call[w].id \in issued \ groups'
            BY <3>2, <3>3, <5>2 DEF KnownIssued
          <6>2. QED
            BY <3>3, <3>5, <4>1, <5>2, <6>1
        <5>3. QED
          BY <3>3, <4>1, <5>1, <5>2
      <4>2. CASE v # w
        BY <3>7, <4>2 DEF AnswersHonest
      <4>3. QED
        BY <4>1, <4>2
    <3>10. QED
      BY <3>6, <3>8, <3>9
  <2>8. QED
    BY <2>1, <2>2, <2>4, <2>5, <2>6, <2>7 DEF Next
<1>3. QED
  BY <1>1, <1>2, TypeCorrect, PTL DEF Spec

-------------------------------------------------------------------------------
\* Outside the critical sections the table never exceeds its limit.
THEOREM NeverAboveCap == Spec => []TableBounded
  BY Invariance, PTL DEF IInv

\* A group is lost only when its time is over or to Cap groups no older.
THEOREM GroupsKept == Spec => []KeptUntilDisplaced
  BY Invariance, PTL DEF IInv

\* No expired group is served, and 410 has a reason.
THEOREM LookupsAnsweredHonestly == Spec => []AnswersHonest
  BY Invariance, PTL DEF IInv

\* A batch stamped later than everything in the table, and no larger than the table,
\* is there in full when its ids are handed out: the second prune of
\* registerMediaGroups takes none of it.
THEOREM BatchLands == Spec => FreshBatchLands
<1>1. ASSUME TypeOK, NEW w \in Workers, Register(w), call[w].size <= Cap,
             \A i \in groups : created[i] < call[w].now
      PROVE  issued' \ issued \subseteq groups'
  <2> USE ConstantsAssumption
  <2> DEFINE now == call[w].now
  <2>1. now \in Nat /\ call[w].size \in Nat /\ groups \in SUBSET issued
        /\ issued \in SUBSET Ids /\ created \in [Ids -> Nat]
    BY <1>1 DEF Register, TypeOK, Calls, Idle
  <2>2. PICK new \in SUBSET (Ids \ issued) :
          LET born == [i \in Ids |-> IF i \in new THEN now ELSE created[i]]
          IN /\ Cardinality(new) = call[w].size
             /\ \E kept \in Pruned(groups, created, now) :
                  groups' \in Pruned(kept \cup new, born, now)
             /\ issued' = issued \cup new
             /\ created' = born
    BY <1>1 DEF Register
  <2>3. PICK kept \in Pruned(groups, created, now) :
          groups' \in Pruned(kept \cup new, created', now)
    BY <2>2
  <2> HIDE DEF now
  <2>4. kept \subseteq groups
    BY <2>1, <2>3, PruneReasons
  <2>5. /\ created' \in [Ids -> Nat] /\ kept \cup new \in SUBSET Ids
        /\ \A i \in new : created'[i] = now
        /\ \A i \in kept : created'[i] = created[i]
    BY <2>1, <2>2, <2>4
  <2>6. /\ groups' \subseteq kept \cup new
        /\ \A i \in (kept \cup new) \ groups' :
             \/ ExpiresAt(created', i) <= now
             \/ Cardinality(groups') = Cap /\ \A k \in groups' : created'[i] <= created'[k]
    BY <2>1, <2>3, <2>5, PruneReasons
  <2>7. ASSUME NEW i \in new, i \notin groups' PROVE FALSE
    <3>1. ~(ExpiresAt(created', i) <= now)
      BY <2>1, <2>5 DEF ExpiresAt
    <3>2. Cardinality(groups') = Cap /\ \A k \in groups' : now <= created'[k]
      BY <2>5, <2>6, <2>7, <3>1
    <3>3. \A k \in kept : created'[k] < now
      BY <1>1, <2>4, <2>5 DEF now
    <3>4. groups' \subseteq new \ {i}
      <4> SUFFICES ASSUME NEW k \in groups', k \in kept PROVE FALSE
        BY <2>6, <2>7
      <4>1. created'[k] \in Nat /\ now <= created'[k] /\ created'[k] < now
        BY <2>5, <3>2, <3>3
      <4>2. QED
        BY <2>1, <4>1
    <3>5. IsFiniteSet(new) /\ IsFiniteSet(new \ {i})
      BY FS_Subset
    <3>6. Cardinality(new \ {i}) = call[w].size - 1
      BY <2>2, <3>5, FS_RemoveElement
    <3>7. Cardinality(groups') <= Cardinality(new \ {i})
      BY <3>4, <3>5, FS_Subset
    <3>8. QED
      BY <1>1, <2>1, <3>2, <3>6, <3>7
  <2>8. QED
    BY <2>2, <2>7
<1>2. TypeOK /\ [Next]_vars =>
        [\A w \in Workers :
           /\ Register(w)
           /\ call[w].size <= Cap
           /\ \A i \in groups : created[i] < call[w].now
           => issued' \ issued \subseteq groups']_vars
  BY <1>1
<1>3. QED
  BY <1>2, TypeCorrect, PTL DEF Spec, FreshBatchLands

-------------------------------------------------------------------------------
(* Numbers and sequences.                                                   *)

\* A set of numbers has a least one.
LEMMA LeastNatural ==
  ASSUME NEW S \in SUBSET Nat, S # {}
  PROVE  \E x \in S : \A y \in S : x <= y
<1>1. PICK x \in S : \A y \in S : ~(<<y, x>> \in OpToRel(<, Nat))
  BY WFMin, NatLessThanWellFounded, Zenon
<1>2. \A y \in S : y < x => <<y, x>> \in OpToRel(<, Nat)
  BY DEF OpToRel
<1>3. \A y \in S : ~(y < x)
  BY <1>1, <1>2, Zenon
<1>4. QED
  BY <1>3

\* Induction over the natural numbers, for a set of them.
LEMMA NatSetInduction ==
  ASSUME NEW G, 0 \in G, \A n \in Nat : n \in G => n + 1 \in G
  PROVE  \A n \in Nat : n \in G
<1> DEFINE Bad == {n \in Nat : n \notin G}
<1>1. SUFFICES ASSUME Bad # {} PROVE FALSE
  OBVIOUS
<1>2. PICK n \in Bad : \A m \in Bad : n <= m
  <2>1. Bad \in SUBSET Nat
    OBVIOUS
  <2> HIDE DEF Bad
  <2>2. QED
    BY <1>1, <2>1, LeastNatural
<1>3. n # 0 /\ n - 1 \in Nat /\ n - 1 \notin Bad
  BY <1>2
<1>4. QED
  BY <1>2, <1>3

-------------------------------------------------------------------------------
\* The equation of the table that Chosen builds, up to the place n.
Builds(f, s, places, n) ==
  f = [k \in 0 .. n |-> IF k = 0 THEN <<>>
                        ELSE IF k \in places THEN Append(f[k - 1], s[k]) ELSE f[k - 1]]

\* How the recursion goes on, at any place.
LEMMA BuildsStep ==
  ASSUME NEW f, NEW s, NEW places, NEW n \in Nat, Builds(f, s, places, n)
  PROVE  /\ f[0] = <<>>
         /\ \A k \in 1 .. n :
              f[k] = IF k \in places THEN Append(f[k - 1], s[k]) ELSE f[k - 1]
<1>1. \A k \in 0 .. n : f[k] = IF k = 0 THEN <<>>
                     ELSE IF k \in places THEN Append(f[k - 1], s[k]) ELSE f[k - 1]
  BY Zenon DEF Builds
<1>2. 0 \in 0 .. n /\ \A k \in 1 .. n : k \in 0 .. n /\ k # 0
  OBVIOUS
<1>3. QED
  BY <1>1, <1>2

\* It has a solution, by induction over the place.
LEMMA BuildsExist ==
  ASSUME NEW s, NEW places, NEW n \in Nat
  PROVE  \E f : Builds(f, s, places, n)
<1> DEFINE G == {k \in Nat : \E f : Builds(f, s, places, k)}
<1>1. 0 \in G
  <2>1. Builds([k \in 0 .. 0 |-> <<>>], s, places, 0)
    BY DEF Builds
  <2>2. QED
    BY <2>1
<1>2. ASSUME NEW m \in Nat, m \in G
      PROVE  m + 1 \in G
  <2>1. PICK f : Builds(f, s, places, m)
    BY <1>2
  <2> DEFINE g == [k \in 0 .. m + 1 |-> IF k = 0 THEN <<>>
                     ELSE IF k \in places THEN Append(f[k - 1], s[k]) ELSE f[k - 1]]
  <2>2. \A k \in 0 .. m : g[k] = f[k]
    <3>1. SUFFICES ASSUME NEW k \in 0 .. m PROVE g[k] = f[k]
      OBVIOUS
    <3>2. g[k] = IF k = 0 THEN <<>>
                 ELSE IF k \in places THEN Append(f[k - 1], s[k]) ELSE f[k - 1]
      OBVIOUS
    <3> HIDE DEF g
    <3>3. CASE k = 0
      BY <2>1, <3>2, <3>3, BuildsStep
    <3>4. CASE k # 0
      <4>1. k \in 1 .. m
        BY <3>4
      <4>2. f[k] = IF k \in places THEN Append(f[k - 1], s[k]) ELSE f[k - 1]
        BY <2>1, <4>1, BuildsStep
      <4>3. QED
        BY <3>2, <3>4, <4>2
    <3>5. QED
      BY <3>3, <3>4
  <2>3. \A k \in 0 .. m + 1 : k # 0 => k - 1 \in 0 .. m
    OBVIOUS
  <2>4. \A k \in 0 .. m + 1 : g[k] = IF k = 0 THEN <<>>
                     ELSE IF k \in places THEN Append(g[k - 1], s[k]) ELSE g[k - 1]
    <3> HIDE DEF G
    <3>1. SUFFICES ASSUME NEW k \in 0 .. m + 1
                   PROVE  g[k] = IF k = 0 THEN <<>>
                     ELSE IF k \in places THEN Append(g[k - 1], s[k]) ELSE g[k - 1]
      OBVIOUS
    <3>2. k # 0 => g[k - 1] = f[k - 1]
      BY <2>2, <2>3
    <3>3. g[k] = IF k = 0 THEN <<>> ELSE IF k \in places THEN Append(f[k - 1], s[k]) ELSE f[k - 1]
      OBVIOUS
    <3> HIDE DEF g
    <3>4. QED
      BY <3>2, <3>3
  <2>5. Builds(g, s, places, m + 1)
    <3>1. DOMAIN g = 0 .. m + 1 /\ g = [k \in 0 .. m + 1 |-> g[k]]
      OBVIOUS
    <3> HIDE DEF g
    <3>2. g = [k \in 0 .. m + 1 |-> IF k = 0 THEN <<>>
                     ELSE IF k \in places THEN Append(g[k - 1], s[k]) ELSE g[k - 1]]
      BY <2>4, <3>1, Zenon
    <3>3. QED
      BY <3>2 DEF Builds
  <2>6. QED
    BY <2>5
<1>3. QED
  <2> HIDE DEF G
  <2>1. \A k \in Nat : k \in G
    BY <1>1, <1>2, NatSetInduction
  <2>2. QED
    BY <2>1 DEF G

\* And only one, as far as the sequences and the places agree.
LEMMA BuildsAgree ==
  ASSUME NEW s, NEW t, NEW P, NEW Q, NEW n \in Nat, NEW m \in Nat, n <= m,
         NEW f, NEW g, Builds(f, s, P, n), Builds(g, t, Q, m),
         \A k \in 1 .. n : s[k] = t[k] /\ (k \in P <=> k \in Q)
  PROVE  f[n] = g[n]
<1> DEFINE G == {k \in Nat : k <= n => f[k] = g[k]}
<1>1. 0 \in G
  BY DEF Builds
<1>2. ASSUME NEW k \in Nat, k \in G
      PROVE  k + 1 \in G
  <2>1. ASSUME k + 1 <= n
        PROVE  f[k + 1] = g[k + 1]
    <3>1. k + 1 \in 0 .. n /\ k + 1 \in 1 .. n /\ k + 1 \in 0 .. m /\ k + 1 # 0 /\ k + 1 - 1 = k
      BY <2>1
    <3>2. f[k + 1] = IF k + 1 \in P THEN Append(f[k], s[k + 1]) ELSE f[k]
      BY <3>1, BuildsStep
    <3>3. g[k + 1] = IF k + 1 \in Q THEN Append(g[k], t[k + 1]) ELSE g[k]
      BY <3>1, BuildsStep
    <3>4. f[k] = g[k]
      BY <1>2, <2>1
    <3>5. QED
      BY <3>1, <3>2, <3>3, <3>4
  <2>2. QED
    BY <2>1
<1>3. \A k \in Nat : k \in G
  <2> HIDE DEF G
  <2>1. QED
    BY <1>1, <1>2, NatSetInduction
<1>4. QED
  BY <1>3

\* Chosen, as what its recursion builds.
LEMMA ChosenBuilt ==
  ASSUME NEW S, NEW s \in Seq(S), NEW places
  PROVE  \E f : Builds(f, s, places, Len(s)) /\ Chosen(s, places) = f[Len(s)]
<1> DEFINE f == CHOOSE f : Builds(f, s, places, Len(s))
<1>1. Builds(f, s, places, Len(s))
  BY BuildsExist
<1>2. Chosen(s, places) = f[Len(s)]
  BY DEF Chosen, Builds
<1>3. QED
  BY <1>1, <1>2

\* Chosen only looks at the places of the sequence.
LEMMA ChosenSame ==
  ASSUME NEW S, NEW s \in Seq(S), NEW P, NEW Q, \A k \in 1 .. Len(s) : k \in P <=> k \in Q
  PROVE  Chosen(s, P) = Chosen(s, Q)
<1>1. PICK f : Builds(f, s, P, Len(s)) /\ Chosen(s, P) = f[Len(s)]
  BY ChosenBuilt
<1>2. PICK g : Builds(g, s, Q, Len(s)) /\ Chosen(s, Q) = g[Len(s)]
  BY ChosenBuilt
<1>3. QED
  BY <1>1, <1>2, BuildsAgree

\* Of nothing, nothing is chosen.
LEMMA ChosenEmpty == \A P : Chosen(<<>>, P) = <<>>
<1>1. SUFFICES ASSUME NEW P PROVE Chosen(<<>>, P) = <<>>
  OBVIOUS
<1>2. PICK f : Builds(f, <<>>, P, 0) /\ Chosen(<<>>, P) = f[0]
  <2>1. <<>> \in Seq({}) /\ Len(<<>>) = 0
    OBVIOUS
  <2>2. QED
    BY <2>1, ChosenBuilt
<1>3. QED
  BY <1>2 DEF Builds

\* The recursion of Chosen, from the end of the sequence.
LEMMA ChosenAppend ==
  ASSUME NEW S, NEW s \in Seq(S), NEW e \in S, NEW P
  PROVE  Chosen(Append(s, e), P)
           = IF Len(s) + 1 \in P THEN Append(Chosen(s, P), e) ELSE Chosen(s, P)
<1> DEFINE t == Append(s, e)
<1>1. t \in Seq(S) /\ Len(t) = Len(s) + 1 /\ t[Len(s) + 1] = e /\ \A k \in 1 .. Len(s) : t[k] = s[k]
  OBVIOUS
<1> HIDE DEF t
<1>2. PICK f : Builds(f, s, P, Len(s)) /\ Chosen(s, P) = f[Len(s)]
  BY ChosenBuilt
<1>3. PICK g : Builds(g, t, P, Len(t)) /\ Chosen(t, P) = g[Len(t)]
  BY <1>1, ChosenBuilt
<1>4. f[Len(s)] = g[Len(s)]
  <2>1. Len(s) \in Nat /\ Len(t) \in Nat /\ Len(s) <= Len(t)
    BY <1>1
  <2>2. QED
    BY <1>1, <1>2, <1>3, <2>1, BuildsAgree
<1>5. g[Len(s) + 1] = IF Len(s) + 1 \in P THEN Append(g[Len(s)], t[Len(s) + 1]) ELSE g[Len(s)]
  <2>1. Len(s) + 1 \in 1 .. Len(t) /\ Len(s) + 1 - 1 = Len(s) /\ Len(t) \in Nat
    BY <1>1
  <2>2. QED
    BY <1>3, <2>1, BuildsStep
<1>6. QED
  BY <1>1, <1>2, <1>3, <1>4, <1>5 DEF t

\* Induction over sequences, for a set of them.
LEMMA SeqSetInduction ==
  ASSUME NEW S, NEW G, <<>> \in G, \A s \in Seq(S), e \in S : s \in G => Append(s, e) \in G
  PROVE  \A s \in Seq(S) : s \in G
<1> DEFINE H == {n \in Nat : \A s \in Seq(S) : Len(s) = n => s \in G}
<1>1. 0 \in H
  <2>1. \A s \in Seq(S) : Len(s) = 0 => s = <<>>
    BY EmptySeq
  <2>2. QED
    BY <2>1
<1>2. ASSUME NEW n \in Nat, n \in H
      PROVE  n + 1 \in H
  <2>1. SUFFICES ASSUME NEW s \in Seq(S), Len(s) = n + 1
                 PROVE  s \in G
    OBVIOUS
  <2>2. PICK t \in Seq(S), e \in S : s = Append(t, e)
    BY <2>1, SequenceEmptyOrAppend
  <2>3. Len(t) = n
    BY <2>1, <2>2
  <2>4. QED
    BY <1>2, <2>2, <2>3
<1>3. \A n \in Nat : n \in H
  <2> HIDE DEF H
  <2>1. QED
    BY <1>1, <1>2, NatSetInduction
<1>4. QED
  BY <1>3

\* What is chosen stands in the sequence, and is there all.
LEMMA ChosenMembers ==
  ASSUME NEW S, NEW s \in Seq(S), NEW P
  PROVE  /\ Chosen(s, P) \in Seq(S)
         /\ Len(Chosen(s, P)) <= Len(s)
         /\ \A i \in 1 .. Len(Chosen(s, P)) :
              \E p \in 1 .. Len(s) : p \in P /\ Chosen(s, P)[i] = s[p]
         /\ \A p \in 1 .. Len(s) : p \in P =>
              \E i \in 1 .. Len(Chosen(s, P)) : Chosen(s, P)[i] = s[p]
<1> DEFINE Good(r) ==
         /\ Chosen(r, P) \in Seq(S)
         /\ Len(Chosen(r, P)) <= Len(r)
         /\ \A i \in 1 .. Len(Chosen(r, P)) :
              \E p \in 1 .. Len(r) : p \in P /\ Chosen(r, P)[i] = r[p]
         /\ \A p \in 1 .. Len(r) : p \in P =>
              \E i \in 1 .. Len(Chosen(r, P)) : Chosen(r, P)[i] = r[p]
         G == {r \in Seq(S) : Good(r)}
<1>1. <<>> \in G
  <2>1. Chosen(<<>>, P) = <<>> /\ <<>> \in Seq(S) /\ Len(<<>>) = 0
    BY ChosenEmpty
  <2>2. 1 .. 0 = {}
    OBVIOUS
  <2>3. Good(<<>>)
    <3>1. Len(<<>>) <= Len(<<>>)
      OBVIOUS
    <3>2. \A i \in 1 .. Len(<<>>) : FALSE
      BY <2>1, <2>2
    <3>3. QED
      BY <2>1, <3>1, <3>2, Zenon
  <2>4. QED
    BY <2>1, <2>3
<1>2. ASSUME NEW r \in Seq(S), NEW e \in S, r \in G
      PROVE  Append(r, e) \in G
  <2> DEFINE t == Append(r, e)
             c == Chosen(r, P)
             d == Chosen(t, P)
  <2>1. /\ t \in Seq(S) /\ Len(t) = Len(r) + 1 /\ t[Len(r) + 1] = e
        /\ \A k \in 1 .. Len(r) : t[k] = r[k]
    OBVIOUS
  <2>2. d = IF Len(t) \in P THEN Append(c, e) ELSE c
    BY <2>1, ChosenAppend
  <2>3. Good(r)
    BY <1>2
  <2> SUFFICES Good(t)
    BY <2>1
  <2> HIDE DEF t
  <2>4. CASE Len(t) \notin P
    <3>1. d = c
      BY <2>2, <2>4
    <3>2. \A p \in 1 .. Len(t) : p \in P => p \in 1 .. Len(r)
      BY <2>1, <2>4
    <3>3. /\ c \in Seq(S) /\ Len(c) <= Len(r)
          /\ \A i \in 1 .. Len(c) : \E p \in 1 .. Len(r) : p \in P /\ c[i] = r[p]
          /\ \A p \in 1 .. Len(r) : p \in P => \E i \in 1 .. Len(c) : c[i] = r[p]
      BY <2>3
    <3>4. /\ c \in Seq(S) /\ Len(c) <= Len(t)
          /\ \A i \in 1 .. Len(c) : \E p \in 1 .. Len(t) : p \in P /\ c[i] = t[p]
          /\ \A p \in 1 .. Len(t) : p \in P => \E i \in 1 .. Len(c) : c[i] = t[p]
      <4> HIDE DEF c
      <4>1. c \in Seq(S) /\ Len(c) <= Len(t)
        BY <2>1, <3>3
      <4>2. \A p \in 1 .. Len(r) : p \in 1 .. Len(t) /\ t[p] = r[p]
        BY <2>1
      <4>3. \A i \in 1 .. Len(c) : \E p \in 1 .. Len(t) : p \in P /\ c[i] = t[p]
        BY <3>3, <4>2
      <4>4. \A p \in 1 .. Len(t) : p \in P => \E i \in 1 .. Len(c) : c[i] = t[p]
        BY <3>2, <3>3, <4>2
      <4>5. QED
        BY <4>1, <4>3, <4>4
    <3>5. QED
      BY <3>1, <3>4 DEF Good
  <2>5. CASE Len(t) \in P
    <3>1. d = Append(c, e)
      BY <2>2, <2>5
    <3>2. c \in Seq(S) /\ Len(c) <= Len(r)
      BY <2>3
    <3>3. /\ d \in Seq(S) /\ Len(d) = Len(c) + 1 /\ d[Len(c) + 1] = e
          /\ \A i \in 1 .. Len(c) : d[i] = c[i]
      BY <3>1, <3>2
    <3>4. \A i \in 1 .. Len(c) : \E p \in 1 .. Len(r) : p \in P /\ c[i] = r[p]
      BY <2>3
    <3>5. \A p \in 1 .. Len(r) : p \in P => \E i \in 1 .. Len(c) : c[i] = r[p]
      BY <2>3
    <3> HIDE DEF c, d
    <3>6. \A i \in 1 .. Len(d) : \E p \in 1 .. Len(t) : p \in P /\ d[i] = t[p]
      <4>1. SUFFICES ASSUME NEW i \in 1 .. Len(d)
                     PROVE  \E p \in 1 .. Len(t) : p \in P /\ d[i] = t[p]
        OBVIOUS
      <4>2. CASE i = Len(c) + 1
        BY <2>1, <2>5, <3>3, <4>2
      <4>3. CASE i # Len(c) + 1
        <5>1. i \in 1 .. Len(c)
          BY <3>3, <3>2, <4>3
        <5>2. QED
          BY <2>1, <3>3, <3>4, <5>1
      <4>4. QED
        BY <4>2, <4>3
    <3>7. \A p \in 1 .. Len(t) : p \in P => \E i \in 1 .. Len(d) : d[i] = t[p]
      <4>1. SUFFICES ASSUME NEW p \in 1 .. Len(t), p \in P PROVE \E i \in 1 .. Len(d) : d[i] = t[p]
        OBVIOUS
      <4>2. CASE p = Len(t)
        BY <2>1, <3>2, <3>3, <4>2
      <4>3. CASE p # Len(t)
        <5>1. p \in 1 .. Len(r)
          BY <2>1, <4>3
        <5>2. PICK i \in 1 .. Len(c) : c[i] = r[p]
          BY <3>5, <4>1, <5>1
        <5>3. i \in 1 .. Len(d) /\ d[i] = c[i]
          BY <3>2, <3>3
        <5>4. QED
          BY <2>1, <5>1, <5>2, <5>3
      <4>4. QED
        BY <4>2, <4>3
    <3>8. Len(d) <= Len(t)
      BY <2>1, <3>2, <3>3
    <3>9. QED
      BY <3>3, <3>6, <3>7, <3>8 DEF d
  <2>6. QED
    BY <2>4, <2>5
<1>3. \A r \in Seq(S) : r \in G
  <2> HIDE DEF G
  <2>1. QED
    BY <1>1, <1>2, SeqSetInduction
<1>4. QED
  BY <1>3

-------------------------------------------------------------------------------
(* The summary of a playurl answer.                                         *)

\* Min and Max of the places of a sequence.
LEMMA MinIs ==
  ASSUME NEW S \in SUBSET Nat, S # {}
  PROVE  Min(S) \in S /\ \A x \in S : Min(S) <= x
<1>1. \E x \in S : \A y \in S : x <= y
  BY LeastNatural
<1>2. QED
  BY <1>1 DEF Min

\* Max of a set of numbers up to a limit is the greatest of them.
LEMMA MaxIs ==
  ASSUME NEW n \in Nat, NEW S \in SUBSET (0 .. n), S # {}
  PROVE  Max(S) \in S /\ \A x \in S : x <= Max(S)
<1> DEFINE T == {n - x : x \in S}
<1>1. T \in SUBSET Nat /\ T # {}
  <2>1. \A x \in S : n - x \in Nat
    OBVIOUS
  <2>2. QED
    BY <2>1
<1>2. PICK y \in T : \A z \in T : y <= z
  <2> HIDE DEF T
  <2>1. QED
    BY <1>1, LeastNatural
<1>3. PICK x \in S : y = n - x
  BY <1>2
<1>4. \A z \in S : x >= z
  <2>1. \A z \in S : n - z \in T
    OBVIOUS
  <2>2. \A z \in S : n - x <= n - z
    BY <1>2, <1>3, <2>1
  <2> HIDE DEF T
  <2>3. QED
    BY <2>2
<1>5. Max(S) \in S /\ \A z \in S : Max(S) >= z
  <2>1. \E w \in S : \A z \in S : w >= z
    BY <1>3, <1>4
  <2>2. QED
    BY <2>1 DEF Max
<1>6. QED
  BY <1>5

-------------------------------------------------------------------------------
\* The walk meets every object once.
LEMMA WalkMeetsAll ==
  ASSUME NEW objects, objects \in Seq(ToSet(objects)), NEW order \in Orders(objects)
  PROVE  LET v == Visited(objects, order)
         IN /\ v \in Seq(ToSet(objects))
            /\ Len(v) = Len(objects)
            /\ order \in [1 .. Len(objects) -> 1 .. Len(objects)]
            /\ \A n \in 1 .. Len(v) : v[n] = objects[order[n]]
            /\ \A n \in 1 .. Len(objects) : \E m \in 1 .. Len(v) : order[m] = n
            /\ \A m, n \in 1 .. Len(v) : order[m] = order[n] => m = n
<1> DEFINE v == Visited(objects, order)
<1>1. DOMAIN objects = 1 .. Len(objects) /\ Len(objects) \in Nat
  BY LenProperties
<1>2. order \in Bijection(1 .. Len(objects), 1 .. Len(objects))
  <2>1. CASE objects = <<>>
    <3>1. order = <<>> /\ 1 .. Len(objects) = {}
      BY <2>1 DEF Orders
    <3>2. order \in [{} -> {}]
      BY <3>1
    <3>3. QED
      BY <3>1, <3>2 DEF Bijection, Injection, Surjection, IsInjective
  <2>2. CASE objects # <<>>
    BY <1>1, <2>2 DEF Orders
  <2>3. QED
    BY <2>1, <2>2
<1>3. /\ order \in [1 .. Len(objects) -> 1 .. Len(objects)]
      /\ \A n \in 1 .. Len(objects) : \E m \in 1 .. Len(objects) : order[m] = n
      /\ \A m, n \in 1 .. Len(objects) : order[m] = order[n] => m = n
  BY <1>2 DEF Bijection, Injection, Surjection, IsInjective
<1>4. v = [n \in 1 .. Len(objects) |-> objects[order[n]]]
  BY <1>3 DEF Visited
<1>5. \A n \in 1 .. Len(objects) : objects[order[n]] \in ToSet(objects)
  BY <1>1, <1>3 DEF ToSet
<1>6. v \in Seq(ToSet(objects)) /\ Len(v) = Len(objects)
  BY <1>1, <1>4, <1>5, IsASeq
<1>7. QED
  <2> HIDE DEF v
  <2>1. QED
    BY <1>3, <1>4, <1>6 DEF v

\* What a summary says of the objects that were walked.
LEMMA Sums ==
  ASSUME NEW objects, objects \in Seq(ToSet(objects)), NEW order \in Orders(objects),
         \A o \in ToSet(objects) : IsObject(o), SaysOnce(objects)
  PROVE  LET s == Summarized(Visited(objects, order))
             all == ToSet(objects)
         IN /\ \A o \in all : o.quality > 0 => s.quality = o.quality
            /\ \A o \in all : s.quality \in DOMAIN o.labels => s.label = o.labels[s.quality]
            /\ s.accept = UNION {o.accept : o \in all}
            /\ s.qualities = {o.id : o \in {p \in all : HasMediaURL(p)}} \ {0}
<1> DEFINE v == Visited(objects, order)
           s == Summarized(v)
           all == ToSet(objects)
           k == Len(objects)
<1>1. /\ v \in Seq(all)
      /\ Len(v) = k
      /\ order \in [1 .. k -> 1 .. k]
      /\ \A n \in 1 .. k : v[n] = objects[order[n]]
      /\ \A n \in 1 .. k : \E m \in 1 .. k : order[m] = n
      /\ k \in Nat
  <2>1. /\ v \in Seq(all)
        /\ Len(v) = k
        /\ order \in [1 .. k -> 1 .. k]
        /\ \A n \in 1 .. Len(v) : v[n] = objects[order[n]]
        /\ \A n \in 1 .. k : \E m \in 1 .. Len(v) : order[m] = n
    BY WalkMeetsAll, Zenon
  <2> HIDE DEF v
  <2>2. QED
    BY <2>1, LenProperties
<1>2. DOMAIN v = 1 .. k
  BY <1>1
<1>3. \A o \in all : \E n \in 1 .. k : v[n] = o
  <2>1. SUFFICES ASSUME NEW o \in all PROVE \E n \in 1 .. k : v[n] = o
    OBVIOUS
  <2>2. PICK m \in 1 .. k : objects[m] = o
    BY <2>1 DEF ToSet
  <2>3. PICK n \in 1 .. k : order[n] = m
    BY <1>1
  <2>4. QED
    BY <1>1, <2>2, <2>3
<1>4. \A n \in 1 .. k : v[n] \in all
  BY <1>1
<1> DEFINE Q == {i \in 1 .. Len(v) : v[i].quality > 0}
           A == {i \in 1 .. Len(v) : v[i].accept # {}}
           N(x) == {i \in 1 .. Len(v) : x \in DOMAIN v[i].labels}
           q == IF Q # {} THEN Min(Q) ELSE 0
           a == IF A # {} THEN Min(A) ELSE 0
           shown == {n \in DOMAIN v : HasMediaURL(v[n])}
<1>5. /\ s.quality = (IF q = 0 THEN 0 ELSE v[q].quality)
      /\ s.label = LabelOf(v, s.quality)
      /\ s.accept = (IF a = 0 THEN {} ELSE v[a].accept)
      /\ s.qualities = {v[n].id : n \in shown} \ {0}
  BY DEF Summarized, SelectInSeq
<1>6. \A x, y \in 1 .. k : order[x] # order[y] =>
         /\ v[x].quality = 0 \/ v[y].quality = 0
         /\ v[x].accept = {} \/ v[y].accept = {}
         /\ DOMAIN v[x].labels \cap DOMAIN v[y].labels = {}
  <2>1. DOMAIN objects = 1 .. k
    BY LenProperties
  <2>2. SUFFICES ASSUME NEW x \in 1 .. k, NEW y \in 1 .. k, order[x] # order[y]
                 PROVE  /\ v[x].quality = 0 \/ v[y].quality = 0
                        /\ v[x].accept = {} \/ v[y].accept = {}
                        /\ DOMAIN v[x].labels \cap DOMAIN v[y].labels = {}
    OBVIOUS
  <2>3. /\ v[x] = objects[order[x]] /\ v[y] = objects[order[y]]
        /\ order[x] \in 1 .. k /\ order[y] \in 1 .. k
    BY <1>1
  <2> HIDE DEF v
  <2>4. QED
    <3> DEFINE i == order[x]
               j == order[y]
    <3>1. /\ i \in DOMAIN objects /\ j \in DOMAIN objects /\ i # j
          /\ v[x] = objects[i] /\ v[y] = objects[j]
      BY <2>1, <2>2, <2>3
    <3> HIDE DEF i, j
    <3>2. /\ objects[i].quality = 0 \/ objects[j].quality = 0
          /\ objects[i].accept = {} \/ objects[j].accept = {}
          /\ DOMAIN objects[i].labels \cap DOMAIN objects[j].labels = {}
      BY <3>1, Zenon DEF SaysOnce
    <3>3. QED
      BY <3>1, <3>2, Zenon
<1>7. \A n \in 1 .. k : v[n].quality \in Nat
  BY <1>4 DEF IsObject
<1>8. \A x, y \in 1 .. k : order[x] = order[y] => v[x] = v[y]
  BY <1>1
<1> HIDE DEF v, s
<1>9. \A o \in all : o.quality > 0 => s.quality = o.quality
  <2>1. SUFFICES ASSUME NEW o \in all, o.quality > 0 PROVE s.quality = o.quality
    OBVIOUS
  <2>2. PICK n \in 1 .. k : v[n] = o
    BY <1>3
  <2>3. n \in Q
    BY <1>1, <2>1, <2>2
  <2>4. q \in Q /\ q # 0
    <3>1. Q \in SUBSET Nat /\ Q # {} /\ \A x \in Q : x # 0
      BY <2>3
    <3> HIDE DEF Q
    <3>2. QED
      BY <3>1, MinIs
  <2>5. q \in 1 .. k /\ v[q].quality > 0
    BY <1>1, <2>4
  <2>6. v[q] = v[n]
    <3> HIDE DEF q
    <3>1. v[q].quality # 0 /\ v[n].quality # 0
      BY <1>7, <2>1, <2>2, <2>5
    <3>2. QED
      BY <1>6, <1>8, <2>5, <3>1
  <2> HIDE DEF q, Q
  <2>7. QED
    BY <1>5, <2>2, <2>4, <2>6
<1>10. \A o \in all : s.quality \in DOMAIN o.labels => s.label = o.labels[s.quality]
  <2>1. SUFFICES ASSUME NEW o \in all, s.quality \in DOMAIN o.labels
                 PROVE  s.label = o.labels[s.quality]
    OBVIOUS
  <2>2. PICK n \in 1 .. k : v[n] = o
    BY <1>3
  <2> DEFINE L == N(s.quality)
             l == Max(L)
  <2>3. n \in L /\ L # {} /\ L \in SUBSET (0 .. k) /\ \A x \in L : x # 0
    BY <1>1, <2>1, <2>2
  <2>4. l \in L /\ l # 0
    <3> HIDE DEF L
    <3>1. QED
      BY <1>1, <2>3, MaxIs
  <2>5. l \in 1 .. k /\ s.quality \in DOMAIN v[l].labels
    BY <1>1, <2>4
  <2>6. LabelOf(v, s.quality) = v[l].labels[s.quality]
    <3>1. LabelOf(v, s.quality) = LET m == IF L # {} THEN l ELSE 0
                                  IN IF m = 0 THEN "" ELSE v[m].labels[s.quality]
      BY DEF LabelOf, SelectLastInSeq
    <3> HIDE DEF L, l
    <3>2. QED
      BY <2>3, <2>4, <3>1
  <2>7. v[l] = v[n]
    <3> HIDE DEF l, L, N
    <3>1. ~(DOMAIN v[l].labels \cap DOMAIN v[n].labels = {})
      BY <2>1, <2>2, <2>5
    <3>2. QED
      BY <1>6, <1>8, <2>5, <3>1
  <2> HIDE DEF L, l, N
  <2>8. QED
    BY <1>5, <2>2, <2>6, <2>7
<1>11. s.accept = UNION {o.accept : o \in all}
  <2>1. CASE A = {}
    <3>1. \A n \in 1 .. k : v[n].accept = {}
      BY <1>1, <2>1
    <3>2. UNION {o.accept : o \in all} = {}
      BY <1>3, <3>1
    <3>3. QED
      BY <1>5, <2>1, <3>2
  <2>2. CASE A # {}
    <3>1. a \in A /\ a # 0
      <4>1. A \in SUBSET Nat /\ \A x \in A : x # 0
        OBVIOUS
      <4> HIDE DEF A
      <4>2. QED
        BY <2>2, <4>1, MinIs
    <3>2. a \in 1 .. k /\ v[a].accept # {} /\ v[a] \in all
      BY <1>1, <1>4, <3>1
    <3> HIDE DEF a, A
    <3>3. \A o \in all : o.accept = {} \/ o = v[a]
      <4>1. SUFFICES ASSUME NEW o \in all, o.accept # {} PROVE o = v[a]
        OBVIOUS
      <4>2. PICK n \in 1 .. k : v[n] = o
        BY <1>3
      <4>3. QED
        BY <1>6, <1>8, <3>2, <4>1, <4>2
    <3>4. UNION {o.accept : o \in all} = v[a].accept
      BY <3>2, <3>3
    <3>5. QED
      BY <1>5, <3>1, <3>4
  <2>3. QED
    BY <2>1, <2>2
<1>12. s.qualities = {o.id : o \in {p \in all : HasMediaURL(p)}} \ {0}
  <2>1. {v[n].id : n \in shown} = {o.id : o \in {p \in all : HasMediaURL(p)}}
    <3>1. \A n \in shown : v[n] \in all /\ HasMediaURL(v[n])
      BY <1>2, <1>4
    <3>2. \A o \in {p \in all : HasMediaURL(p)} : \E n \in shown : v[n] = o
      BY <1>2, <1>3
    <3> HIDE DEF shown
    <3>3. QED
      BY <3>1, <3>2
  <2>2. QED
    BY <1>5, <2>1
<1>13. QED
  BY <1>9, <1>10, <1>11, <1>12 DEF s, v

-------------------------------------------------------------------------------
(* The addresses of an object and the links that take their places.         *)

\* The places of an object's addresses, as a set.
AllPlaces == AddressFields \X Nat

AtHas(o) == /\ DOMAIN o.at = AddressFields
            /\ \A f \in AddressFields : \E n \in Nat : DOMAIN o.at[f].items = 1 .. n

\* Places goes through every address of each field, and nothing else.
LEMMA PlacesAre ==
  ASSUME NEW o, AtHas(o)
  PROVE  /\ Places(o) \in Seq(AllPlaces)
         /\ \A place : place \in ToSet(Places(o)) <=>
              \E f \in AddressFields : \E i \in DOMAIN o.at[f].items : place = <<f, i>>
<1> DEFINE in(f) == [i \in DOMAIN o.at[f].items |-> <<f, i>>]
           P == AllPlaces
<1>1. \A f \in AddressFields : in(f) \in Seq(P) /\ DOMAIN in(f) = DOMAIN o.at[f].items
  <2>1. SUFFICES ASSUME NEW f \in AddressFields
                 PROVE  in(f) \in Seq(P) /\ DOMAIN in(f) = DOMAIN o.at[f].items
    OBVIOUS
  <2>2. PICK n \in Nat : DOMAIN o.at[f].items = 1 .. n
    BY DEF AtHas
  <2>3. \A i \in 1 .. n : <<f, i>> \in P
    BY DEF AllPlaces
  <2>4. in(f) = [i \in 1 .. n |-> <<f, i>>]
    BY <2>2
  <2>5. in(f) \in Seq(P)
    <3> HIDE DEF P
    <3>1. QED
      BY <2>3, <2>4, IsASeq
  <2>6. QED
    BY <2>5
<1>2. \A f \in AddressFields : ToSet(in(f)) = {<<f, i>> : i \in DOMAIN o.at[f].items}
  BY DEF ToSet
<1> HIDE DEF P
<1>3. ASSUME NEW s \in Seq(P), NEW t \in Seq(P)
      PROVE  s \o t \in Seq(P) /\ ToSet(s \o t) = ToSet(s) \cup ToSet(t)
  <2>1. s \o t \in Seq(P)
    OBVIOUS
  <2>2. /\ Len(s \o t) = Len(s) + Len(t)
        /\ \A i \in 1 .. Len(s) : (s \o t)[i] = s[i]
        /\ \A i \in 1 .. Len(t) : (s \o t)[Len(s) + i] = t[i]
    OBVIOUS
  <2>3. DOMAIN s = 1 .. Len(s) /\ DOMAIN t = 1 .. Len(t) /\ DOMAIN (s \o t) = 1 .. Len(s) + Len(t)
        /\ Len(s) \in Nat /\ Len(t) \in Nat
    BY <2>1, <2>2
  <2> DEFINE u == s \o t
  <2> HIDE DEF u
  <2>4. \A i \in DOMAIN u : i \in 1 .. Len(s) \/ i - Len(s) \in 1 .. Len(t)
    BY <2>3 DEF u
  <2>5. \A i \in DOMAIN u : u[i] \in ToSet(s) \cup ToSet(t)
    <3>1. SUFFICES ASSUME NEW i \in DOMAIN u PROVE u[i] \in ToSet(s) \cup ToSet(t)
      OBVIOUS
    <3>2. CASE i \in 1 .. Len(s)
      BY <2>2, <2>3, <3>2 DEF ToSet, u
    <3>3. CASE i - Len(s) \in 1 .. Len(t)
      <4>1. u[Len(s) + (i - Len(s))] = t[i - Len(s)] /\ Len(s) + (i - Len(s)) = i
        BY <2>2, <2>3, <3>3 DEF u
      <4>2. QED
        BY <2>3, <3>3, <4>1 DEF ToSet
    <3>4. QED
      BY <2>4, <3>2, <3>3
  <2>6. \A i \in DOMAIN s : s[i] \in ToSet(u)
    <3>1. SUFFICES ASSUME NEW i \in DOMAIN s PROVE s[i] \in ToSet(u)
      OBVIOUS
    <3>2. i \in DOMAIN u /\ u[i] = s[i]
      BY <2>2, <2>3 DEF u
    <3>3. QED
      BY <3>2 DEF ToSet
  <2>7. \A i \in DOMAIN t : t[i] \in ToSet(u)
    <3>1. SUFFICES ASSUME NEW i \in DOMAIN t PROVE t[i] \in ToSet(u)
      OBVIOUS
    <3>2. Len(s) + i \in DOMAIN u /\ u[Len(s) + i] = t[i]
      BY <2>2, <2>3 DEF u
    <3>3. QED
      BY <3>2 DEF ToSet
  <2>8. QED
    <3>1. ToSet(u) = ToSet(s) \cup ToSet(t)
      BY <2>5, <2>6, <2>7 DEF ToSet
    <3>2. QED
      BY <2>1, <3>1 DEF u
<1>4. /\ in("baseUrl") \in Seq(P) /\ in("base_url") \in Seq(P) /\ in("url") \in Seq(P)
      /\ in("backupUrl") \in Seq(P) /\ in("backup_url") \in Seq(P)
  BY <1>1 DEF AddressFields
<1>5. Places(o) = in("baseUrl") \o in("base_url") \o in("url") \o in("backupUrl")
                    \o in("backup_url")
  BY DEF Places
<1>6. Places(o) \in Seq(P)
      /\ ToSet(Places(o)) = ToSet(in("baseUrl")) \cup ToSet(in("base_url")) \cup ToSet(in("url"))
           \cup ToSet(in("backupUrl")) \cup ToSet(in("backup_url"))
  <2> HIDE DEF in
  <2> DEFINE a == in("baseUrl") \o in("base_url")
             b == a \o in("url")
             c == b \o in("backupUrl")
             d == c \o in("backup_url")
  <2>1. a \in Seq(P) /\ ToSet(a) = ToSet(in("baseUrl")) \cup ToSet(in("base_url"))
    BY <1>3, <1>4
  <2> HIDE DEF a
  <2>2. b \in Seq(P) /\ ToSet(b) = ToSet(a) \cup ToSet(in("url"))
    BY <1>3, <1>4, <2>1
  <2> HIDE DEF b
  <2>3. c \in Seq(P) /\ ToSet(c) = ToSet(b) \cup ToSet(in("backupUrl"))
    BY <1>3, <1>4, <2>2
  <2> HIDE DEF c
  <2>4. d \in Seq(P) /\ ToSet(d) = ToSet(c) \cup ToSet(in("backup_url"))
    BY <1>3, <1>4, <2>3
  <2>5. Places(o) = d
    BY <1>5, Zenon DEF a, b, c, d
  <2> HIDE DEF d
  <2>6. QED
    BY <2>1, <2>2, <2>3, <2>4, <2>5
<1>7. ToSet(Places(o)) = UNION {ToSet(in(f)) : f \in AddressFields}
  BY <1>6 DEF AddressFields
<1>8. \A place : place \in ToSet(Places(o)) <=>
                    \E f \in AddressFields : \E i \in DOMAIN o.at[f].items : place = <<f, i>>
  <2>1. \A place : place \in ToSet(Places(o)) <=> \E f \in AddressFields : place \in ToSet(in(f))
    <3> HIDE DEF in
    <3>1. QED
      BY <1>7
  <2>2. \A f \in AddressFields : \A place :
          place \in ToSet(in(f)) <=> \E i \in DOMAIN o.at[f].items : place = <<f, i>>
    BY <1>2
  <2> HIDE DEF in
  <2>3. QED
    BY <2>1, <2>2
<1>9. QED
  BY <1>6, <1>8 DEF P

\* The references of an object are its places with a usable address.
LEMMA ReferencesAre ==
  ASSUME NEW o, AtHas(o)
  PROVE  /\ References(o) \in Seq(AllPlaces)
         /\ ToSet(References(o)) = {place \in ToSet(Places(o)) : At(o, place) \in Media}
<1> DEFINE p == Places(o)
           M == {i \in DOMAIN p : At(o, p[i]) \in Media}
<1>1. p \in Seq(AllPlaces) /\ DOMAIN p = 1 .. Len(p)
  BY PlacesAre
<1>2. References(o) = Chosen(p, M)
  BY DEF References
<1> HIDE DEF p
<1> DEFINE c == Chosen(p, M)
<1>3. /\ c \in Seq(AllPlaces)
      /\ \A i \in 1 .. Len(c) : \E k \in 1 .. Len(p) : k \in M /\ c[i] = p[k]
      /\ \A k \in 1 .. Len(p) : k \in M => \E i \in 1 .. Len(c) : c[i] = p[k]
  <2> HIDE DEF M
  <2>1. QED
    BY <1>1, ChosenMembers
<1> HIDE DEF c
<1>4. DOMAIN c = 1 .. Len(c)
  BY <1>3
<1>5. \A x : x \in ToSet(c) <=> x \in ToSet(p) /\ At(o, x) \in Media
  <2>1. ASSUME NEW x, x \in ToSet(c) PROVE x \in ToSet(p) /\ At(o, x) \in Media
    <3>1. PICK i \in 1 .. Len(c) : x = c[i]
      BY <1>4, <2>1 DEF ToSet
    <3>2. PICK k \in 1 .. Len(p) : k \in M /\ c[i] = p[k]
      BY <1>3
    <3>3. QED
      BY <1>1, <3>1, <3>2 DEF ToSet
  <2>2. ASSUME NEW x, x \in ToSet(p), At(o, x) \in Media PROVE x \in ToSet(c)
    <3>1. PICK k \in 1 .. Len(p) : x = p[k]
      BY <1>1, <2>2 DEF ToSet
    <3>2. k \in M
      BY <1>1, <2>2, <3>1
    <3>3. PICK i \in 1 .. Len(c) : c[i] = p[k]
      BY <1>3, <3>2
    <3>4. QED
      BY <1>4, <3>1, <3>3 DEF ToSet
  <2>3. QED
    BY <2>1, <2>2
<1>6. QED
  BY <1>2, <1>3, <1>5 DEF c, p

\* The candidates of an object are the addresses of its references.
LEMMA CandidatesAre ==
  ASSUME NEW o, AtHas(o), NEW place \in ToSet(References(o))
  PROVE  /\ Candidates(o) \in Seq({At(o, p) : p \in ToSet(References(o))})
         /\ \E i \in 1 .. Len(Candidates(o)) : Candidates(o)[i] = At(o, place)
<1> DEFINE r == References(o)
           U == {At(o, p) : p \in ToSet(r)}
           all == CandidatesRepeated(o)
           P == {k \in DOMAIN all : \A q \in 1 .. k - 1 : all[q] # all[k]}
<1>1. r \in Seq(AllPlaces) /\ DOMAIN r = 1 .. Len(r) /\ Len(r) \in Nat
  BY ReferencesAre
<1>2. all = [k \in 1 .. Len(r) |-> At(o, r[k])]
  BY <1>1 DEF CandidatesRepeated
<1>3. \A k \in 1 .. Len(r) : At(o, r[k]) \in U
  BY <1>1 DEF ToSet
<1>4. all \in Seq(U) /\ Len(all) = Len(r) /\ DOMAIN all = 1 .. Len(r)
  <2> HIDE DEF U
  <2>1. QED
    BY <1>1, <1>2, <1>3, IsASeq
<1>5. Candidates(o) = Chosen(all, P)
  BY DEF Candidates
<1>6. PICK k \in 1 .. Len(r) : place = r[k]
  BY <1>1 DEF ToSet
<1>7. PICK m \in 1 .. Len(r) : all[m] = all[k] /\ m \in P
  <2> DEFINE E == {q \in 1 .. Len(r) : all[q] = all[k]}
  <2> HIDE DEF all
  <2>1. E \in SUBSET Nat /\ E # {}
    BY <1>6
  <2>2. PICK m \in E : \A x \in E : m <= x
    <3> HIDE DEF E
    <3>1. QED
      BY <2>1, LeastNatural
  <2>3. \A q \in 1 .. m - 1 : all[q] # all[m]
    <3>1. SUFFICES ASSUME NEW q \in 1 .. m - 1, all[q] = all[m] PROVE FALSE
      OBVIOUS
    <3>2. q \in E /\ q < m
      BY <2>2, <3>1
    <3>3. QED
      BY <2>2, <3>2
  <2>4. QED
    BY <1>4, <2>2, <2>3
<1>8. \E i \in 1 .. Len(Chosen(all, P)) : Chosen(all, P)[i] = all[m]
  <2> HIDE DEF all, P, U
  <2>1. m \in 1 .. Len(all) /\ m \in P
    BY <1>4, <1>7
  <2>2. all \in Seq(U)
    BY <1>4
  <2>3. \A p \in 1 .. Len(all) : p \in P =>
          \E i \in 1 .. Len(Chosen(all, P)) : Chosen(all, P)[i] = all[p]
    BY <2>2, ChosenMembers
  <2>4. QED
    BY <2>1, <2>3
<1>9. Chosen(all, P) \in Seq(U)
  <2> HIDE DEF all, P, U
  <2>1. QED
    BY <1>4, ChosenMembers
<1>10. all[m] = At(o, place)
  BY <1>2, <1>6, <1>7
<1>11. QED
  <2> HIDE DEF all, P
  <2>1. QED
    BY <1>5, <1>8, <1>9, <1>10

\* The link in a reference's place leads to the address that stood there.
LEMMA LinkLeads ==
  ASSUME NEW o, AtHas(o), NEW place \in ToSet(References(o)), NEW id
  PROVE  LET link == Link(o, id, place)
         IN /\ link.id = id /\ link.index \in Nat
            /\ link.index < Len(Candidates(o))
            /\ Candidates(o)[link.index + 1] = At(o, place)
<1> DEFINE c == Candidates(o)
           I == {i \in 1 .. Len(c) : c[i] = At(o, place)}
           link == Link(o, id, place)
<1>1. \E i \in 1 .. Len(c) : c[i] = At(o, place)
  BY CandidatesAre
<1>2. Len(c) \in Nat
  <2>1. c \in Seq({At(o, p) : p \in ToSet(References(o))})
    BY CandidatesAre
  <2> HIDE DEF c
  <2>2. QED
    BY <2>1
<1>3. link = [id |-> id, index |-> Min(I) - 1]
  <2>1. I # {}
    BY <1>1
  <2>2. SelectInSeq(c, LAMBDA url : url = At(o, place)) = Min(I)
    BY <2>1 DEF SelectInSeq
  <2>3. QED
    BY <2>2 DEF Link
<1>4. Min(I) \in I
  <2>1. I # {} /\ I \in SUBSET Nat
    BY <1>1
  <2> HIDE DEF I
  <2>2. QED
    BY <2>1, MinIs
<1>5. Min(I) \in 1 .. Len(c) /\ c[Min(I)] = At(o, place)
  BY <1>4
<1> HIDE DEF I, c
<1>6. Min(I) - 1 \in Nat /\ Min(I) - 1 < Len(c) /\ Min(I) - 1 + 1 = Min(I)
  BY <1>2, <1>5
<1>7. QED
  BY <1>3, <1>5, <1>6 DEF c

-------------------------------------------------------------------------------
(* One object of a playurl answer.                                          *)

\* What the assumption about documents says of an object.
LEMMA ObjectHas ==
  ASSUME NEW o, IsObject(o)
  PROVE  /\ AtHas(o)
         /\ DOMAIN o = {"at", "quality", "accept", "labels", "id", "codec", "number"}
         /\ o = [f \in DOMAIN o |-> o[f]]
         /\ \A place \in ToSet(Places(o)) : At(o, place) \in Media \cup Unusable
<1>1. AtHas(o)
  <2>1. \A f \in AddressFields : o.at[f].items \in Seq(Media \cup Unusable)
    BY DEF IsObject
  <2>2. \A f \in AddressFields : 
          DOMAIN o.at[f].items = 1 .. Len(o.at[f].items) /\ Len(o.at[f].items) \in Nat
    BY <2>1, LenProperties
  <2>3. DOMAIN o.at = AddressFields
    BY DEF IsObject
  <2>4. QED
    BY <2>2, <2>3 DEF AtHas
<1>2. /\ DOMAIN o = {"at", "quality", "accept", "labels", "id", "codec", "number"}
      /\ o = [f \in DOMAIN o |-> o[f]]
  BY DEF IsObject
<1>3. \A place \in ToSet(Places(o)) : At(o, place) \in Media \cup Unusable
  <2>1. SUFFICES ASSUME NEW place \in ToSet(Places(o)) PROVE At(o, place) \in Media \cup Unusable
    OBVIOUS
  <2>2. PICK f \in AddressFields : \E i \in DOMAIN o.at[f].items : place = <<f, i>>
    BY <1>1, PlacesAre
  <2>3. PICK i \in DOMAIN o.at[f].items : place = <<f, i>>
    BY <2>2
  <2>7. o.at[f].items \in Seq(Media \cup Unusable)
    BY DEF IsObject
  <2>4. o.at[f].items[i] \in Media \cup Unusable
    BY <2>7
  <2>5. At(o, place) = o.at[f].items[i]
    BY <2>3 DEF At
  <2>6. QED
    BY <2>4, <2>5
<1>4. QED
  BY <1>1, <1>2, <1>3

\* An object and what it has become, as ReferencesResolve has them.
Resolves(old, new, made, found) ==
  LET links == {place \in ToSet(Places(new)) : IsLink(At(new, place))}
  IN /\ Places(new) = Places(old)
     /\ \A place \in ToSet(Places(new)) :
          IF place \in links
          THEN LET link == At(new, place)
               IN link.index < Len(made[link.id])
                  /\ made[link.id][link.index + 1] = At(old, place)
          ELSE At(new, place) = At(old, place)
     /\ links \in {{}, ToSet(References(old))}
     /\ new # [old EXCEPT !.at = new.at] => found > 0
     /\ new.number # old.number => old.number = "above 2^53"

\* json.Marshal changes the number alone.
LEMMA RecodedIs ==
  ASSUME NEW o, DOMAIN o = {"at", "quality", "accept", "labels", "id", "codec", "number"}
  PROVE  /\ Recoded(o).at = o.at
         /\ Recoded(o).number # o.number => o.number = "above 2^53"
  BY DEF Recoded

\* Objects with the same addresses have the same places.
LEMMA SamePlaces ==
  ASSUME NEW o, NEW p, o.at = p.at
  PROVE  Places(o) = Places(p) /\ \A place : At(o, place) = At(p, place)
  BY DEF Places, At

\* An object that goes on as it is has no link.
LEMMA KeptResolves ==
  ASSUME NEW o, IsObject(o), NEW made, NEW found
  PROVE  Resolves(o, o, made, found)
<1>1. \A place \in ToSet(Places(o)) : ~IsLink(At(o, place))
  BY ObjectHas DEF IsLink
<1>2. o = [o EXCEPT !.at = o.at]
  BY ObjectHas
<1>3. QED
  BY <1>1, <1>2 DEF Resolves

\* Nor has one without a group in a document that is written anew.
LEMMA RecodedResolves ==
  ASSUME NEW o, IsObject(o), NEW made, NEW found, found > 0
  PROVE  Resolves(o, Recoded(o), made, found)
<1> DEFINE new == Recoded(o)
<1>1. new.at = o.at /\ (new.number # o.number => o.number = "above 2^53")
  BY ObjectHas, RecodedIs
<1> HIDE DEF new
<1>2. Places(new) = Places(o) /\ \A place : At(new, place) = At(o, place)
  BY <1>1, SamePlaces
<1>3. \A place \in ToSet(Places(new)) : ~IsLink(At(new, place))
  BY <1>2, ObjectHas DEF IsLink
<1>4. QED
  BY <1>1, <1>2, <1>3 DEF Resolves, new

\* An object whose group is in the table: each of its links leads to the address that
\* it replaced.
LEMMA LinkedResolves ==
  ASSUME NEW o, IsObject(o), NEW made, NEW found, found > 0,
         NEW id \in Nat, made[id] = Candidates(o)
  PROVE  Resolves(o, Recoded(Linked(o, id)), made, found)
<1> DEFINE R == ToSet(References(o))
           Y(f) == [i \in DOMAIN o.at[f].items |->
                      IF <<f, i>> \in R THEN Link(o, id, <<f, i>>) ELSE o.at[f].items[i]]
           X == [f \in DOMAIN o.at |-> [o.at[f] EXCEPT !.items = Y(f)]]
           linked == Linked(o, id)
           new == Recoded(linked)
<1>1. linked = [o EXCEPT !.at = X]
  BY DEF Linked
<1>2. DOMAIN linked = DOMAIN o /\ linked.at = X /\ linked.number = o.number
  <2> HIDE DEF X
  <2>1. QED
    BY <1>1, ObjectHas
<1>3. new.at = X /\ (new.number # o.number => o.number = "above 2^53")
  <2> HIDE DEF X, linked
  <2>1. QED
    BY <1>2, ObjectHas, RecodedIs
<1>4. \A f \in AddressFields : DOMAIN o.at = AddressFields /\ DOMAIN o.at[f] = {"array", "items"}
  BY DEF IsObject
<1>5. \A f \in AddressFields : X[f].items = Y(f)
  <2>1. SUFFICES ASSUME NEW f \in AddressFields PROVE X[f].items = Y(f)
    OBVIOUS
  <2> HIDE DEF Y
  <2>2. X[f] = [o.at[f] EXCEPT !.items = Y(f)]
    BY <1>4
  <2>3. QED
    BY <1>4, <2>2
<1> HIDE DEF X, new
<1>6. \A f \in AddressFields : /\ DOMAIN new.at[f].items = DOMAIN o.at[f].items
                              /\ \A i \in DOMAIN o.at[f].items :
                                   At(new, <<f, i>>) = IF <<f, i>> \in R THEN Link(o, id, <<f, i>>)
                                                       ELSE At(o, <<f, i>>)
  <2>1. SUFFICES ASSUME NEW f \in AddressFields
                 PROVE  /\ DOMAIN new.at[f].items = DOMAIN o.at[f].items
                        /\ \A i \in DOMAIN o.at[f].items :
                             At(new, <<f, i>>) = IF <<f, i>> \in R THEN Link(o, id, <<f, i>>)
                                                 ELSE At(o, <<f, i>>)
    OBVIOUS
  <2>2. new.at[f].items = Y(f)
    BY <1>3, <1>5
  <2>3. QED
    BY <2>2 DEF At
<1>7. Places(new) = Places(o)
  <2>1. \A f \in AddressFields :
          [i \in DOMAIN new.at[f].items |-> <<f, i>>] = [i \in DOMAIN o.at[f].items |-> <<f, i>>]
    BY <1>6
  <2>2. QED
    BY <2>1, Zenon DEF Places, AddressFields
<1>8. \A place \in ToSet(Places(o)) :
         At(new, place) = IF place \in R THEN Link(o, id, place) ELSE At(o, place)
  <2>1. SUFFICES ASSUME NEW place \in ToSet(Places(o))
                 PROVE  At(new, place) = IF place \in R THEN Link(o, id, place) ELSE At(o, place)
    OBVIOUS
  <2>2. PICK f \in AddressFields : \E i \in DOMAIN o.at[f].items : place = <<f, i>>
    BY ObjectHas, PlacesAre
  <2> HIDE DEF R
  <2>3. QED
    BY <1>6, <2>2
<1>9. R = {place \in ToSet(Places(o)) : At(o, place) \in Media}
  BY ObjectHas, ReferencesAre
<1>10. \A place \in R : /\ IsLink(Link(o, id, place))
                       /\ Link(o, id, place).id = id
                       /\ Link(o, id, place).index < Len(Candidates(o))
                       /\ Candidates(o)[Link(o, id, place).index + 1] = At(o, place)
  <2>1. SUFFICES ASSUME NEW place \in R
                 PROVE  /\ IsLink(Link(o, id, place))
                        /\ Link(o, id, place).id = id
                        /\ Link(o, id, place).index < Len(Candidates(o))
                        /\ Candidates(o)[Link(o, id, place).index + 1] = At(o, place)
    OBVIOUS
  <2>2. /\ Link(o, id, place).id = id /\ Link(o, id, place).index \in Nat
        /\ Link(o, id, place).index < Len(Candidates(o))
        /\ Candidates(o)[Link(o, id, place).index + 1] = At(o, place)
    BY ObjectHas, LinkLeads
  <2>3. Link(o, id, place) \in [id : Nat, index : Int]
    <3>1. \A x, y : x \in Nat /\ y \in Nat => [id |-> x, index |-> y] \in [id : Nat, index : Int]
      OBVIOUS
    <3>2. \E y : Link(o, id, place) = [id |-> id, index |-> y]
      BY DEF Link
    <3>3. QED
      BY <2>2, <3>1, <3>2
  <2>4. IsLink(Link(o, id, place))
    BY <2>3, DocumentsAssumption DEF IsLink
  <2>5. QED
    BY <2>2, <2>4
<1> DEFINE links == {place \in ToSet(Places(new)) : IsLink(At(new, place))}
<1> HIDE DEF R
<1>11. links = R
  <2>1. \A place \in ToSet(Places(o)) : IsLink(At(new, place)) <=> place \in R
    <3>1. \A place \in ToSet(Places(o)) : ~IsLink(At(o, place))
      BY ObjectHas DEF IsLink
    <3>2. QED
      BY <1>8, <1>10, <3>1
  <2>2. R \subseteq ToSet(Places(o))
    BY <1>9
  <2>3. QED
    BY <1>7, <2>1, <2>2
<1>12. \A place \in ToSet(Places(new)) :
          IF place \in links
          THEN /\ At(new, place).index < Len(made[At(new, place).id])
               /\ made[At(new, place).id][At(new, place).index + 1] = At(o, place)
          ELSE At(new, place) = At(o, place)
  <2>1. SUFFICES ASSUME NEW place \in ToSet(Places(o))
                 PROVE  IF place \in R
                        THEN /\ At(new, place).index < Len(made[At(new, place).id])
                             /\ made[At(new, place).id][At(new, place).index + 1] = At(o, place)
                        ELSE At(new, place) = At(o, place)
    BY <1>7, <1>11
  <2>2. CASE place \in R
    <3>1. At(new, place) = Link(o, id, place)
      BY <1>8, <2>2
    <3>2. QED
      BY <1>10, <2>2, <3>1
  <2>3. CASE place \notin R
    BY <1>8, <2>3
  <2>4. QED
    BY <2>2, <2>3
<1>13. links \in {{}, ToSet(References(o))}
  BY <1>11 DEF R
<1>14. QED
  <2> HIDE DEF linked
  <2>1. Resolves(o, new, made, found)
    BY <1>3, <1>7, <1>12, <1>13, Zenon DEF Resolves
  <2>2. QED
    BY <2>1 DEF new, linked

-------------------------------------------------------------------------------
(* A whole playurl answer.                                                  *)

\* ReferencesResolve, object by object.
LEMMA ResolvesIsReferencesResolve ==
  ReferencesResolve <=>
    (played.answered =>
       /\ DOMAIN played.objects = DOMAIN document.objects
       /\ \A n \in DOMAIN played.objects :
            Resolves(document.objects[n], played.objects[n], table, played.summary.groups))
  BY Zenon DEF ReferencesResolve, Resolves

\* The answer and the table after a step of handlePlayurl.
LEMMA ReferencesKept ==
  ASSUME PlayurlNext, document \in Documents
  PROVE  ReferencesResolve'
<1> DEFINE objects == document.objects
           Kept == /\ DOMAIN played'.objects = DOMAIN objects
                   /\ \A n \in DOMAIN played'.objects :
                        Resolves(objects[n], played'.objects[n], table', played'.summary.groups)
<1>1. document' = document
  BY DEF PlayurlNext, PassOnUnread, ReadDocument
<1>2. SUFFICES Kept
  <2>1. Kept => ReferencesResolve'
    BY <1>1 DEF ReferencesResolve, Resolves
  <2>2. QED
    BY <2>1
<1>3. objects \in Seq(ToSet(objects)) /\ \A n \in DOMAIN objects : IsObject(objects[n])
  BY DocumentsAssumption DEF ToSet
<1>4. CASE played'.objects = objects
  <2>1. \A n \in DOMAIN objects : Resolves(objects[n], objects[n], table', played'.summary.groups)
    BY <1>3, KeptResolves
  <2>2. QED
    BY <1>4, <2>1
<1>5. CASE PassOnUnread
  <2>1. played'.objects = objects
    BY <1>5 DEF PassOnUnread, Answer
  <2>2. QED
    BY <1>4, <2>1
<1>6. ASSUME NEW order \in Orders(objects), PassOn(order)
      PROVE  Kept
  <2>1. played'.objects = objects
    BY <1>6 DEF PassOn, Answer
  <2>2. QED
    BY <1>4, <2>1
<1>7. ASSUME NEW order \in Orders(objects), Rewrite(order)
      PROVE  Kept
  <2> DEFINE made == Grouped(order)
             id(n) == SelectInSeq(made, LAMBDA g : g = n)
             new(n) == Recoded(IF id(n) = 0 THEN objects[n] ELSE Linked(objects[n], id(n)))
  <2>1. /\ made # <<>>
        /\ table' = [i \in DOMAIN made |-> Candidates(objects[made[i]])]
        /\ played'.objects = [n \in DOMAIN objects |-> new(n)]
        /\ played'.summary = [Summarized(Visited(objects, order)) EXCEPT !.groups = Len(made)]
    BY <1>7, Zenon DEF Rewrite, Answer
  <2>2. made \in Seq(1 .. Len(objects))
    <3>1. order \in [1 .. Len(objects) -> 1 .. Len(objects)] /\ Len(objects) \in Nat
      BY <1>3, WalkMeetsAll, LenProperties
    <3>2. order \in Seq(1 .. Len(objects))
      BY <3>1, IsASeq
    <3>3. QED
      BY <3>2, ChosenMembers DEF Grouped
  <2>3. played'.summary.groups = Len(made) /\ Len(made) > 0
    <3>1. "groups" \in DOMAIN Summarized(Visited(objects, order))
      BY DEF Summarized
    <3> HIDE DEF made
    <3>2. Len(made) \in Nat /\ Len(made) # 0
      BY <2>1, <2>2, EmptySeq, LenProperties
    <3>3. QED
      BY <2>1, <3>1, <3>2
  <2>4. \A n \in DOMAIN objects : id(n) # 0 =>
          id(n) \in Nat /\ id(n) \in DOMAIN made /\ made[id(n)] = n
    <3>1. SUFFICES ASSUME NEW n \in DOMAIN objects, id(n) # 0
                   PROVE  id(n) \in Nat /\ id(n) \in DOMAIN made /\ made[id(n)] = n
      OBVIOUS
    <3> DEFINE I == {i \in 1 .. Len(made) : made[i] = n}
    <3>2. I # {} /\ id(n) = Min(I)
      BY <3>1 DEF SelectInSeq
    <3>3. id(n) \in I
      <4>1. I \in SUBSET Nat
        OBVIOUS
      <4> HIDE DEF I, id
      <4>2. QED
        BY <3>2, <4>1, MinIs
    <3>4. DOMAIN made = 1 .. Len(made)
      BY <2>2
    <3> HIDE DEF id, made
    <3>5. QED
      BY <3>3, <3>4
  <2>5. \A n \in DOMAIN objects : Resolves(objects[n], new(n), table', Len(made))
    <3>1. SUFFICES ASSUME NEW n \in DOMAIN objects
                   PROVE  Resolves(objects[n], new(n), table', Len(made))
      OBVIOUS
    <3>2. IsObject(objects[n])
      BY <1>3
    <3> HIDE DEF made, id
    <3>3. CASE id(n) = 0
      <4>1. new(n) = Recoded(objects[n])
        BY <3>3
      <4> HIDE DEF new
      <4>2. QED
        BY <2>3, <3>2, <4>1, RecodedResolves
    <3>4. CASE id(n) # 0
      <4>1. new(n) = Recoded(Linked(objects[n], id(n)))
        BY <3>4
      <4>2. table'[id(n)] = Candidates(objects[n]) /\ id(n) \in Nat
        BY <2>1, <2>4, <3>4
      <4> HIDE DEF new
      <4>3. QED
        BY <2>3, <3>2, <4>1, <4>2, LinkedResolves
    <3>5. QED
      BY <3>3, <3>4
  <2>6. QED
    <3> HIDE DEF new, made
    <3>1. /\ DOMAIN played'.objects = DOMAIN objects
          /\ \A n \in DOMAIN objects : played'.objects[n] = new(n)
      BY <2>1
    <3>2. QED
      BY <2>3, <2>5, <3>1
<1>8. QED
  <2> HIDE DEF Kept
  <2>1. QED
    BY <1>5, <1>6, <1>7 DEF PlayurlNext, ReadDocument

\* The answer and its summary.
LEMMA SummaryKept ==
  ASSUME PlayurlNext, document \in Documents
  PROVE  SummaryStable'
<1> DEFINE objects == document.objects
           Sound(s) ==
             /\ \A o \in ToSet(objects) : o.quality > 0 => s.quality = o.quality
             /\ \A o \in ToSet(objects) :
                  s.quality \in DOMAIN o.labels => s.label = o.labels[s.quality]
             /\ s.accept = UNION {o.accept : o \in ToSet(objects)}
             /\ s.qualities = {o.id : o \in {p \in ToSet(objects) : HasMediaURL(p)}} \ {0}
<1>1. document' = document
  BY DEF PlayurlNext, PassOnUnread, ReadDocument
<1>2. SUFFICES ASSUME document.json, SaysOnce(objects)
               PROVE  Sound(played'.summary)
  <2>1. (document.json /\ SaysOnce(objects) => Sound(played'.summary)) => SummaryStable'
    BY <1>1, Zenon DEF SummaryStable, SaysOnce, HasMediaURL
  <2>2. QED
    BY <2>1
<1>3. objects \in Seq(ToSet(objects)) /\ \A o \in ToSet(objects) : IsObject(o)
  BY DocumentsAssumption
<1>4. \A order \in Orders(objects) : Sound(Summarized(Visited(objects, order)))
  BY <1>2, <1>3, Sums, Zenon
<1>5. PICK order \in Orders(objects) : PassOn(order) \/ Rewrite(order)
  BY <1>2 DEF PlayurlNext, PassOnUnread, ReadDocument
<1> DEFINE s == Summarized(Visited(objects, order))
<1>6. DOMAIN s = {"quality", "label", "accept", "qualities", "codecs", "groups"}
  BY DEF Summarized
<1> HIDE DEF s
<1>7. \/ played'.summary = s
      \/ \E n : played'.summary = [s EXCEPT !.groups = n]
  <2>1. CASE PassOn(order)
    BY <2>1 DEF PassOn, Answer, s
  <2>2. CASE Rewrite(order)
    <3>1. \E new : Answer(new, [s EXCEPT !.groups = Len(Grouped(order))])
      BY <2>2, Zenon DEF Rewrite, s
    <3>2. PICK new : Answer(new, [s EXCEPT !.groups = Len(Grouped(order))])
      BY <3>1
    <3>3. played'.summary = [s EXCEPT !.groups = Len(Grouped(order))]
      BY <3>2 DEF Answer
    <3>4. QED
      BY <3>3, Zenon
  <2>3. QED
    BY <1>5, <2>1, <2>2
<1>8. /\ played'.summary.quality = s.quality /\ played'.summary.label = s.label
      /\ played'.summary.accept = s.accept /\ played'.summary.qualities = s.qualities
  BY <1>6, <1>7
<1>9. Sound(s)
  BY <1>4 DEF s
<1>10. QED
  BY <1>8, <1>9

-------------------------------------------------------------------------------
(* The signature of a query.                                                *)

\* A query's names and their values.
IsQuery(q) == \A n \in DOMAIN q : \A i \in DOMAIN q[n] : "mark" \in DOMAIN q[n][i]

Ours == {"qn", "fnver", "fnval", "fourk", "quality", "wts", "w_rid"}

\* What two queries that agree beyond the proxy's own names have in common.
LEMMA RestSame ==
  ASSUME NEW p, NEW q, DOMAIN p \ Ours = DOMAIN q \ Ours,
         \A n \in DOMAIN q \ Ours : p[n] = q[n]
  PROVE  Restrict(p, DOMAIN p \ Ours) = Restrict(q, DOMAIN q \ Ours)
  BY DEF Restrict

\* Asking for the best quality changes the proxy's own names and no other.
LEMMA BestIs ==
  ASSUME NEW q
  PROVE  /\ DOMAIN Best(q) = DOMAIN q \cup {"qn", "fnver", "fnval", "fourk"}
         /\ \A n \in DOMAIN q \ Ours : Best(q)[n] = q[n]
  BY DEF Best, Set, Ours

\* A text is without the characters that a signature must not have.
LEMMA TextIs ==
  ASSUME NEW value
  PROVE  /\ DOMAIN Text(value) = {"text", "mark", "signed"}
         /\ [Text(value) EXCEPT !.mark = FALSE] = Text(value)
<1> DEFINE v == Text(value)
<1>1. DOMAIN v = {"text", "mark", "signed"} /\ v.mark = FALSE
  BY DEF Text
<1>2. v = [f \in DOMAIN v |-> v[f]]
  BY DEF Text
<1> HIDE DEF v
<1>3. [v EXCEPT !.mark = FALSE] = [f \in DOMAIN v |-> IF f = "mark" THEN FALSE ELSE v[f]]
  OBVIOUS
<1>4. [v EXCEPT !.mark = FALSE] = v
  BY <1>1, <1>2, <1>3
<1>5. QED
  BY <1>1, <1>4 DEF v

\* What Set changes.
LEMMA SetIs ==
  ASSUME NEW q, NEW name, NEW value, IsQuery(q)
  PROVE  IsQuery(Set(q, name, Text(value)))
<1> DEFINE v == Text(value)
<1>1. "mark" \in DOMAIN v
  BY TextIs
<1> HIDE DEF v
<1>2. IsQuery(Set(q, name, v))
  BY <1>1 DEF IsQuery, Set
<1>3. QED
  BY <1>2 DEF v

\* Asking for the best quality makes a query of a query.
LEMMA BestIsQuery == ASSUME NEW q, IsQuery(q) PROVE IsQuery(Best(q))
  BY SetIs DEF Best

\* What signWBI makes of a query: every value stripped, this time, and one signature
\* over all of that.
LEMMA SignIs ==
  ASSUME NEW q, NEW key, IsQuery(q)
  PROVE  LET s == Sign(q, key)
             rest == Restrict(s, DOMAIN s \ {"w_rid"})
         IN /\ DOMAIN s = DOMAIN q \cup {"wts", "w_rid"}
            /\ s["w_rid"] = <<Signature(rest, key)>>
            /\ s["wts"] = <<Text(Now)>>
            /\ \A n \in DOMAIN rest : \A i \in DOMAIN rest[n] : ~rest[n][i].mark
            /\ \A n \in DOMAIN q \ Ours : s[n] = Stripped(q)[n]
<1> DEFINE bare == Restrict(q, DOMAIN q \ {"w_rid"})
           timed == Set(bare, "wts", Text(Now))
           signed == Stripped(timed)
           s == Sign(q, key)
           rest == Restrict(s, DOMAIN s \ {"w_rid"})
<1>1. DOMAIN timed = (DOMAIN q \ {"w_rid"}) \cup {"wts"}
  BY DEF Set, Restrict
<1>2. DOMAIN signed = DOMAIN timed /\ signed = [n \in DOMAIN timed |-> signed[n]]
  BY DEF Stripped
<1>3. s = [n \in DOMAIN signed \cup {"w_rid"} |->
               IF n = "w_rid" THEN <<Signature(signed, key)>> ELSE signed[n]]
  BY DEF Sign, Set
<1>4. rest = signed
  <2> HIDE DEF signed, timed
  <2>1. DOMAIN s = DOMAIN signed \cup {"w_rid"} /\ DOMAIN s \ {"w_rid"} = DOMAIN signed
    BY <1>1, <1>2, <1>3
  <2>2. \A n \in DOMAIN signed : s[n] = signed[n]
    BY <1>1, <1>2, <1>3
  <2> HIDE DEF s
  <2>3. QED
    BY <1>2, <2>1, <2>2 DEF Restrict
<1>5. timed["wts"] = <<Text(Now)>>
  BY DEF Set
<1>6. signed["wts"] = <<Text(Now)>>
  <2>1. "wts" \in DOMAIN timed
    BY <1>1
  <2>2. signed["wts"] = [i \in DOMAIN <<Text(Now)>> |-> [<<Text(Now)>>[i] EXCEPT !.mark = FALSE]]
    <3> HIDE DEF timed
    <3>1. QED
      BY <1>5, <2>1 DEF Stripped
  <2>3. DOMAIN <<Text(Now)>> = {1} /\ <<Text(Now)>>[1] = Text(Now)
    OBVIOUS
  <2>4. [Text(Now) EXCEPT !.mark = FALSE] = Text(Now)
    BY TextIs
  <2>5. \A i \in DOMAIN <<Text(Now)>> : [<<Text(Now)>>[i] EXCEPT !.mark = FALSE] = <<Text(Now)>>[i]
    BY <2>3, <2>4
  <2>6. [i \in DOMAIN <<Text(Now)>> |-> <<Text(Now)>>[i]] = <<Text(Now)>>
    OBVIOUS
  <2>7. QED
    BY <2>2, <2>5, <2>6
<1>7. \A n \in DOMAIN signed : \A i \in DOMAIN signed[n] :
        signed[n][i] = [timed[n][i] EXCEPT !.mark = FALSE] /\ i \in DOMAIN timed[n]
  <2> HIDE DEF timed
  <2>1. QED
    BY DEF Stripped
<1>8. \A n \in DOMAIN q \ Ours : s[n] = Stripped(q)[n]
  <2>1. SUFFICES ASSUME NEW n \in DOMAIN q \ Ours PROVE s[n] = Stripped(q)[n]
    OBVIOUS
  <2>2. n # "w_rid" /\ n # "wts" /\ n \in DOMAIN timed
    BY <1>1 DEF Ours
  <2>3. timed[n] = q[n]
    BY <2>2 DEF Set, Restrict
  <2>4. signed[n] = Stripped(q)[n]
    <3> HIDE DEF timed
    <3>1. QED
      BY <2>2, <2>3 DEF Stripped
  <2>5. s[n] = signed[n]
    <3> HIDE DEF signed
    <3>1. QED
      BY <1>2, <1>3, <2>2
  <2>6. QED
    BY <2>4, <2>5
<1>9. IsQuery(timed)
  <2>1. IsQuery(bare)
    BY DEF IsQuery, Restrict
  <2> HIDE DEF bare
  <2>2. QED
    BY <2>1, SetIs
<1>10. \A n \in DOMAIN signed : \A i \in DOMAIN signed[n] : ~signed[n][i].mark
  <2>1. SUFFICES ASSUME NEW n \in DOMAIN signed, NEW i \in DOMAIN signed[n]
                 PROVE  ~signed[n][i].mark
    OBVIOUS
  <2> DEFINE old == timed[n][i]
  <2>2. signed[n][i] = [old EXCEPT !.mark = FALSE]
    BY <1>7, <2>1
  <2>3. "mark" \in DOMAIN old
    <3> HIDE DEF timed
    <3>1. QED
      BY <1>2, <1>7, <1>9, <2>1 DEF IsQuery
  <2> HIDE DEF old, signed
  <2>4. QED
    BY <2>2, <2>3
<1>11. /\ s["wts"] = <<Text(Now)>> /\ s["w_rid"] = <<Signature(signed, key)>>
       /\ DOMAIN s = DOMAIN q \cup {"wts", "w_rid"}
  <2>1. "wts" \in DOMAIN signed
    BY <1>1, <1>2
  <2>2. DOMAIN signed \cup {"w_rid"} = DOMAIN q \cup {"wts", "w_rid"}
    BY <1>1, <1>2
  <2> HIDE DEF signed
  <2>3. QED
    BY <1>3, <1>6, <2>1, <2>2
<1>12. QED
  <2> HIDE DEF s, signed
  <2>1. s["w_rid"] = <<Signature(rest, key)>>
    BY <1>4, <1>11
  <2>2. \A n \in DOMAIN rest : \A i \in DOMAIN rest[n] : ~rest[n][i].mark
    BY <1>4, <1>10
  <2>3. QED
    BY <1>8, <1>11, <2>1, <2>2 DEF s

-------------------------------------------------------------------------------
\* What goes to upstream, as SignatureCovers has it.
Covers(p, old, new, params) ==
  LET rest == Restrict(new, DOMAIN new \ {"w_rid"})
  IN /\ params # "upgraded" => new = old
     /\ params = "upgraded" /\ p \in {"video", "wbi"} /\ MustSign(p, old) =>
          /\ new["w_rid"] = <<Signature(rest, "key")>>
          /\ new["wts"] = <<Text(Now)>>
          /\ \A n \in DOMAIN rest : \A i \in DOMAIN rest[n] : ~rest[n][i].mark
     /\ Restrict(new, DOMAIN new \ Ours) \in {Restrict(old, DOMAIN old \ Ours),
                                             Stripped(Restrict(old, DOMAIN old \ Ours))}

\* SignatureCovers, as a relation between what came and what was asked.
LEMMA CoversIsSignatureCovers ==
  SignatureCovers <=> (asked # NotAsked => Covers(path, query, asked.query, asked.params))
  BY Zenon DEF SignatureCovers, Covers, Ours

\* A query that the proxy signs.
LEMMA SignedCovers ==
  ASSUME NEW p, NEW q, IsQuery(q)
  PROVE  Covers(p, q, Sign(Best(q), "key"), "upgraded")
<1> DEFINE s == Sign(Best(q), "key")
           rest == Restrict(s, DOMAIN s \ {"w_rid"})
<1>1. IsQuery(Best(q))
  BY BestIsQuery
<1>2. /\ DOMAIN s = DOMAIN Best(q) \cup {"wts", "w_rid"}
      /\ s["w_rid"] = <<Signature(rest, "key")>>
      /\ s["wts"] = <<Text(Now)>>
      /\ \A n \in DOMAIN rest : \A i \in DOMAIN rest[n] : ~rest[n][i].mark
      /\ \A n \in DOMAIN Best(q) \ Ours : s[n] = Stripped(Best(q))[n]
  BY <1>1, SignIs
<1>3. Restrict(s, DOMAIN s \ Ours) = Stripped(Restrict(q, DOMAIN q \ Ours))
  <2>1. DOMAIN s \ Ours = DOMAIN q \ Ours /\ DOMAIN Best(q) \ Ours = DOMAIN q \ Ours
    <3> HIDE DEF s
    <3>1. QED
      BY <1>2, BestIs DEF Ours
  <2>2. \A n \in DOMAIN q \ Ours :
          s[n] = [i \in DOMAIN q[n] |-> [q[n][i] EXCEPT !.mark = FALSE]]
    <3>1. SUFFICES ASSUME NEW n \in DOMAIN q \ Ours
                   PROVE  s[n] = [i \in DOMAIN q[n] |-> [q[n][i] EXCEPT !.mark = FALSE]]
      OBVIOUS
    <3>2. Best(q)[n] = q[n] /\ n \in DOMAIN Best(q)
      BY BestIs
    <3>3. s[n] = Stripped(Best(q))[n]
      BY <1>2, <2>1
    <3> HIDE DEF s
    <3>4. QED
      BY <3>2, <3>3 DEF Stripped
  <2> HIDE DEF s
  <2>3. Stripped(Restrict(q, DOMAIN q \ Ours))
          = [n \in DOMAIN q \ Ours |-> [i \in DOMAIN q[n] |-> [q[n][i] EXCEPT !.mark = FALSE]]]
    BY DEF Stripped, Restrict
  <2>4. QED
    BY <2>1, <2>2, <2>3 DEF Restrict
<1>4. QED
  <2> HIDE DEF s
  <2>1. QED
    BY <1>2, <1>3 DEF Covers, s

\* The queries that go out unsigned.
LEMMA UnsignedCovers ==
  ASSUME NEW p, NEW q, NEW new, DOMAIN new \ Ours = DOMAIN q \ Ours,
         \A n \in DOMAIN q \ Ours : new[n] = q[n],
         ~(p \in {"video", "wbi"} /\ MustSign(p, q))
  PROVE  Covers(p, q, new, "upgraded")
  BY RestSame DEF Covers

\* What is asked in a step of highestQualityTarget.
LEMMA QualityKept ==
  ASSUME QualityNext, query \in Queries
  PROVE  SignatureCovers'
<1>1. IsQuery(query)
  <2>1. query \in [DOMAIN query -> Seq(Values)]
    BY QueriesAssumption
  <2>2. SUFFICES ASSUME NEW n \in DOMAIN query, NEW i \in DOMAIN query[n]
                 PROVE  "mark" \in DOMAIN query[n][i]
    BY DEF IsQuery
  <2>3. query[n] \in Seq(Values)
    BY <2>1
  <2>4. query[n][i] \in Values
    BY <2>2, <2>3
  <2>5. QED
    BY <2>4 DEF Values
<1>2. SUFFICES Covers(path, query, asked'.query, asked'.params) /\ path' = path /\ query' = query
  BY Zenon DEF SignatureCovers, Covers, Ours, Restrict, Stripped, MustSign, Given, Signature, Text
<1>3. ASSUME NEW q, NEW params, Ask(q, params), Covers(path, query, q, params)
      PROVE  Covers(path, query, asked'.query, asked'.params) /\ path' = path /\ query' = query
  BY <1>3 DEF Ask, quality
<1>4. Covers(path, query, query, "failed") /\ Covers(path, query, query, "unchanged")
  BY DEF Covers
<1>5. CASE AskVideo
  <2>1. CASE Ask(Sign(Best(query), "key"), "upgraded")
    BY <1>1, <1>3, <2>1, SignedCovers
  <2>2. CASE Ask(query, "failed")
    BY <1>3, <1>4, <2>2
  <2>3. CASE ~MustSign(path, query) /\ Ask(Best(query), "upgraded")
    <3>1. DOMAIN Best(query) \ Ours = DOMAIN query \ Ours
      BY BestIs DEF Ours
    <3>2. Covers(path, query, Best(query), "upgraded")
      BY <2>3, <3>1, BestIs, UnsignedCovers
    <3>3. QED
      BY <1>3, <2>3, <3>2
  <2>4. QED
    BY <1>5, <2>1, <2>2, <2>3 DEF AskVideo
<1>6. CASE AskLive
  <2>1. \A name \in {"qn", "quality"}, value \in {"10000", "4"} :
          LET q == Set(query, name, Text(value))
          IN DOMAIN q \ Ours = DOMAIN query \ Ours /\ \A n \in DOMAIN query \ Ours : q[n] = query[n]
    BY DEF Set, Ours
  <2>2. CASE path = "live" /\ Ask(Set(query, "qn", Text("10000")), "upgraded")
    <3>1. Covers(path, query, Set(query, "qn", Text("10000")), "upgraded")
      BY <2>1, <2>2, UnsignedCovers
    <3>2. QED
      BY <1>3, <2>2, <3>1
  <2>3. CASE path = "legacyLive" /\ Ask(Set(query, "quality", Text("4")), "upgraded")
    <3>1. Covers(path, query, Set(query, "quality", Text("4")), "upgraded")
      BY <2>1, <2>3, UnsignedCovers
    <3>2. QED
      BY <1>3, <2>3, <3>1
  <2>4. QED
    BY <1>6, <2>2, <2>3 DEF AskLive
<1>7. CASE AskOther
  BY <1>3, <1>4, <1>7 DEF AskOther
<1>8. QED
  BY <1>5, <1>6, <1>7 DEF QualityNext

-------------------------------------------------------------------------------
(* A playlist.                                                              *)

\* A line as upstream may send it.
Line == [tag : Tags, val : Int, at : Addresses \ {"proxy"}]

\* A selection of lines is made of lines.
LEMMA ChosenLines ==
  ASSUME NEW S, NEW s \in Seq(S), NEW tag
  PROVE  With(s, tag) \in Seq(S) /\ Without(s, tag) \in Seq(S)
  BY ChosenMembers DEF With, Without

\* So is a part of them.
LEMMA PartLines ==
  ASSUME NEW S, NEW s \in Seq(S), NEW m \in Nat \ {0}, NEW n \in Nat, n <= Len(s)
  PROVE  SubSeq(s, m, n) \in Seq(S)
<1>1. CASE n < m
  <2>1. SubSeq(s, m, n) = <<>>
    BY <1>1, SubSeqEmpty
  <2>2. QED
    BY <2>1
<1>2. CASE m <= n
  <2>1. m \in 1 .. Len(s) + 1 /\ n \in m - 1 .. Len(s)
    BY <1>2, LenProperties
  <2>2. QED
    BY <2>1, SubSeqProperties
<1>3. QED
  BY <1>1, <1>2

\* carryActivePlaylistTags moves lines and makes none.
LEMMA CarryLines ==
  ASSUME NEW prefix \in Seq(Line), NEW removed \in Seq(Line), NEW tag
  PROVE  Carry(prefix, removed, tag) \in Seq(Line)
<1> DEFINE seen == With(prefix \o removed, tag)
           rest == Without(prefix, tag)
<1>1. prefix \o removed \in Seq(Line)
  OBVIOUS
<1>2. seen \in Seq(Line) /\ rest \in Seq(Line)
  BY <1>1, ChosenLines
<1>3. Carry(prefix, removed, tag) = rest \o (IF seen = <<>> THEN <<>> ELSE <<Last(seen)>>)
  BY DEF Carry
<1> HIDE DEF seen, rest
<1>4. CASE seen = <<>>
  <2>1. <<>> \in Seq(Line)
    OBVIOUS
  <2>2. QED
    BY <1>2, <1>3, <1>4, <2>1
<1>5. CASE seen # <<>>
  <2>1. Len(seen) \in 1 .. Len(seen) /\ DOMAIN seen = 1 .. Len(seen)
    BY <1>2, <1>5
  <2>2. Last(seen) \in Line
    BY <1>2, <2>1 DEF Last
  <2>3. <<Last(seen)>> \in Seq(Line)
    BY <2>2
  <2>4. QED
    BY <1>2, <1>3, <1>5, <2>3
<1>6. QED
  BY <1>4, <1>5

\* advancePlaylistSequence adds a line without an address, or changes a number.
LEMMA AdvanceLines ==
  ASSUME NEW lines \in Seq(Line), NEW tag \in {"sequence", "discontinuitySequence"},
         NEW delta \in Nat
  PROVE  Advance(lines, tag, delta) \in Seq(Line)
<1> DEFINE I == {i \in 1 .. Len(lines) : lines[i].tag = tag}
           at == IF I # {} THEN Min(I) ELSE 0
           top == IF lines # <<>> /\ lines[1].tag = "m3u" THEN 2 ELSE 1
           fresh == [tag |-> tag, val |-> delta, at |-> "none"]
<1>1. Advance(lines, tag, delta)
        = IF at = 0 THEN InsertAt(lines, top, fresh)
          ELSE IF lines[at].val = Unreadable THEN lines
          ELSE [lines EXCEPT ![at].val = @ + delta]
  BY DEF Advance, SelectInSeq
<1>2. at = 0 \/ at \in 1 .. Len(lines)
  <2>1. I \in SUBSET Nat
    OBVIOUS
  <2>2. I # {} => Min(I) \in I
    <3> HIDE DEF I
    <3>1. QED
      BY <2>1, MinIs
  <2>3. QED
    BY <2>2
<1>3. fresh \in Line
  BY DEF Line, Tags, Addresses
<1>4. InsertAt(lines, top, fresh) \in Seq(Line)
  <2>1. top - 1 \in Nat /\ top - 1 <= Len(lines) /\ top \in Nat \ {0} /\ Len(lines) \in Nat
    BY EmptySeq, LenProperties
  <2> HIDE DEF top, fresh
  <2>2. SubSeq(lines, 1, top - 1) \in Seq(Line) /\ SubSeq(lines, top, Len(lines)) \in Seq(Line)
    BY <2>1, PartLines
  <2>3. <<fresh>> \in Seq(Line)
    BY <1>3
  <2>4. QED
    BY <2>2, <2>3 DEF InsertAt
<1>5. ASSUME at \in 1 .. Len(lines)
      PROVE  [lines EXCEPT ![at].val = @ + delta] \in Seq(Line)
  <2> HIDE DEF at
  <2>1. lines[at] \in Line
    BY <1>5
  <2> DEFINE changed == [lines[at] EXCEPT !.val = @ + delta]
  <2>2. changed \in Line
    BY <2>1 DEF Line
  <2>3. [lines EXCEPT ![at].val = @ + delta] = [lines EXCEPT ![at] = changed]
    OBVIOUS
  <2> HIDE DEF changed
  <2>4. QED
    BY <1>5, <2>2, <2>3, ExceptSeq
<1> HIDE DEF at, fresh, top
<1>6. QED
  BY <1>1, <1>2, <1>4, <1>5

\* The places of a tag, in order.
LEMMA PlacesLines ==
  ASSUME NEW lines \in Seq(Line), NEW tag
  PROVE  /\ PlacesInOrder(lines, tag) \in Seq(1 .. Len(lines))
         /\ \A i \in 1 .. Len(PlacesInOrder(lines, tag)) :
              lines[PlacesInOrder(lines, tag)[i]].tag = tag
<1> DEFINE all == [p \in DOMAIN lines |-> p]
           c == Chosen(all, PlacesOf(lines, tag))
<1>1. DOMAIN lines = 1 .. Len(lines) /\ Len(lines) \in Nat
  OBVIOUS
<1>2. all \in Seq(1 .. Len(lines)) /\ Len(all) = Len(lines)
  BY <1>1, IsASeq
<1>3. \A p \in 1 .. Len(lines) : all[p] = p
  BY <1>1
<1> HIDE DEF all
<1>4. /\ c \in Seq(1 .. Len(lines))
      /\ \A i \in 1 .. Len(c) : \E p \in 1 .. Len(all) : p \in PlacesOf(lines, tag) /\ c[i] = all[p]
  BY <1>2, ChosenMembers
<1> HIDE DEF c
<1>5. \A i \in 1 .. Len(c) : lines[c[i]].tag = tag
  BY <1>2, <1>3, <1>4 DEF PlacesOf
<1>6. PlacesInOrder(lines, tag) = c
  BY DEF PlacesInOrder, all, c
<1>7. QED
  BY <1>4, <1>5, <1>6

\* The first tag of a segment stands before its EXTINF or is that line.
LEMMA FirstTagIs ==
  ASSUME NEW lines, NEW inf \in Nat \ {0}
  PROVE  FirstSegmentTag(lines, inf) \in 1 .. inf
<1> DEFINE S == {s \in 1 .. inf : \A p \in s .. inf - 1 : lines[p].tag \in SegmentTags}
<1>1. inf \in S /\ S \in SUBSET Nat
  OBVIOUS
<1>2. Min(S) \in S
  <2> HIDE DEF S
  <2>1. QED
    BY <1>1, MinIs
<1>3. QED
  BY <1>2 DEF FirstSegmentTag

\* What trimLivePlaylist returns is made of lines that upstream might have sent.
LEMMA TrimLines ==
  ASSUME NEW lines \in Seq(Line)
  PROVE  Trim(lines).lines \in Seq(Line)
<1> DEFINE infs == PlacesInOrder(lines, "inf")
           U(i) == {p \in infs[i] + 1 .. Len(lines) : lines[p].tag = "uri"}
           uris == [i \in DOMAIN infs |-> IF U(i) # {} THEN Min(U(i)) ELSE 0]
           cut == CutWindow(lines, infs, uris)
           skipped == Len(infs) - Keep
<1>1. Trim(lines) = IF MustStayWhole(lines) \/ infs = <<>> THEN NothingTrimmed(lines, FALSE, FALSE)
                    ELSE IF \E i \in DOMAIN uris : uris[i] = 0
                    THEN NothingTrimmed(lines, TRUE, TRUE)
                    ELSE IF Len(infs) <= Keep THEN NothingTrimmed(lines, TRUE, FALSE)
                    ELSE cut
  BY DEF Trim, SelectInSubSeq
<1>2. \A x, y : NothingTrimmed(lines, x, y).lines = lines
  BY DEF NothingTrimmed
<1>3. /\ infs \in Seq(1 .. Len(lines)) /\ Len(lines) \in Nat
      /\ Len(infs) \in Nat /\ DOMAIN infs = 1 .. Len(infs)
  <2>1. infs \in Seq(1 .. Len(lines))
    BY PlacesLines
  <2> HIDE DEF infs
  <2>2. QED
    BY <2>1
<1> HIDE DEF infs
<1>4. ASSUME Len(infs) > Keep, \A i \in DOMAIN uris : uris[i] # 0
      PROVE  cut.lines \in Seq(Line)
  <2>1. /\ Keep \in Nat \ {0} /\ skipped \in 1 .. Len(infs)
        /\ skipped \in DOMAIN infs /\ 1 \in DOMAIN infs
    BY <1>3, <1>4, PlaylistAssumption
  <2>2. uris[skipped] \in 1 .. Len(lines)
    <3>1. uris[skipped] = Min(U(skipped)) /\ U(skipped) # {}
      BY <1>4, <2>1
    <3>2. infs[skipped] \in 1 .. Len(lines)
      BY <1>3, <2>1
    <3>3. U(skipped) \in SUBSET (1 .. Len(lines)) /\ U(skipped) \in SUBSET Nat
      BY <1>3, <3>2
    <3> HIDE DEF U
    <3>4. Min(U(skipped)) \in U(skipped)
      BY <3>1, <3>3, MinIs
    <3> HIDE DEF uris
    <3>5. QED
      BY <3>1, <3>3, <3>4
  <2> HIDE DEF uris
  <2> DEFINE first == FirstSegmentTag(lines, infs[1])
             removed == SubSeq(lines, first, uris[skipped])
             breaks == Len(With(removed, "discontinuity"))
             above == SubSeq(lines, 1, first - 1)
             keyed == Carry(above, removed, "key")
             header == Carry(keyed, removed, "map")
             counted == Advance(Without(header, "start"), "sequence", skipped)
             prefix == IF breaks > 0 THEN Advance(counted, "discontinuitySequence", breaks)
                       ELSE counted
             rest == SubSeq(lines, uris[skipped] + 1, Len(lines))
  <2>3. cut.lines = prefix \o rest
    BY DEF CutWindow
  <2>4. first \in 1 .. Len(lines)
    <3>1. infs[1] \in 1 .. Len(lines)
      BY <1>3, <2>1
    <3>2. QED
      BY <1>3, <3>1, FirstTagIs
  <2> HIDE DEF first
  <2>5. removed \in Seq(Line) /\ above \in Seq(Line) /\ rest \in Seq(Line)
    BY <1>3, <2>2, <2>4, PartLines
  <2> HIDE DEF removed, above, rest
  <2>6. keyed \in Seq(Line)
    BY <2>5, CarryLines
  <2> HIDE DEF keyed
  <2>7. header \in Seq(Line)
    BY <2>5, <2>6, CarryLines
  <2> HIDE DEF header
  <2>8. counted \in Seq(Line)
    BY <2>1, <2>7, ChosenLines, AdvanceLines
  <2> HIDE DEF counted
  <2>9. breaks \in Nat
    BY <2>5, ChosenLines
  <2> HIDE DEF breaks
  <2>10. prefix \in Seq(Line)
    BY <2>8, <2>9, AdvanceLines
  <2> HIDE DEF prefix
  <2>11. QED
    BY <2>3, <2>5, <2>10
<1> HIDE DEF cut
<1>5. CASE MustStayWhole(lines) \/ infs = <<>>
  BY <1>1, <1>2, <1>5
<1>6. CASE ~(MustStayWhole(lines) \/ infs = <<>>) /\ \E i \in DOMAIN uris : uris[i] = 0
  <2> HIDE DEF uris
  <2>1. QED
    BY <1>1, <1>2, <1>6
<1>7. CASE /\ ~(MustStayWhole(lines) \/ infs = <<>>)
           /\ ~\E i \in DOMAIN uris : uris[i] = 0
           /\ Len(infs) <= Keep
  <2> HIDE DEF uris
  <2>1. QED
    BY <1>1, <1>2, <1>7
<1>8. CASE /\ ~(MustStayWhole(lines) \/ infs = <<>>)
           /\ ~\E i \in DOMAIN uris : uris[i] = 0
           /\ ~(Len(infs) <= Keep)
  <2>1. Len(infs) > Keep
    BY <1>3, <1>8, PlaylistAssumption
  <2>2. \A i \in DOMAIN uris : uris[i] # 0
    BY <1>8
  <2>3. cut.lines \in Seq(Line)
    BY <1>4, <2>1, <2>2
  <2> HIDE DEF uris
  <2>4. QED
    BY <1>1, <1>8, <2>3
<1>9. QED
  BY <1>5, <1>6, <1>7, <1>8

\* The playlist branch, when it has answered: it has refused to look at the body, or it
\* has cut and rewritten it.
Served ==
  \/ /\ arrived # "whole" \/ ~published
     /\ ~trimmed.trimmed
     /\ answer.status = 502 /\ answer.lines = <<>>
  \/ /\ arrived = "whole" /\ published
     /\ body \in Bodies
     /\ trimmed = Trim(body)
     /\ answer = IF Refuses(trimmed.lines) THEN Refusal("host")
                 ELSE [status |-> 200, cause |-> "", lines |-> Rewritten(trimmed.lines)]

\* A list that has been cut, or that the player gets, is what trimLivePlaylist has made
\* of a body.
LEMMA ServedIsCut ==
  ASSUME Served, trimmed.trimmed \/ answer.status = 200
  PROVE  body \in Seq(Line) /\ trimmed = Trim(body)
<1>1. CASE arrived = "whole" /\ published
  <2>1. body \in Bodies /\ trimmed = Trim(body)
    BY <1>1, Zenon DEF Served
  <2>2. QED
    BY <2>1, PlaylistAssumption DEF Line
<1>2. CASE ~(arrived = "whole" /\ published)
  <2>1. ~trimmed.trimmed /\ answer.status = 502
    BY <1>2, Zenon DEF Served
  <2>2. QED
    BY <2>1
<1>3. QED
  BY <1>1, <1>2

\* rewritePlaylist leaves no address of upstream or of a foreign host.
LEMMA ServedStaysInside ==
  ASSUME Served
  PROVE  NothingPastProxy
<1> DEFINE lines == trimmed.lines
<1>1. CASE arrived # "whole" \/ ~published
  <2>1. answer.status = 502 /\ answer.lines = <<>>
    BY <1>1 DEF Served
  <2>2. QED
    BY <1>1, <2>1 DEF NothingPastProxy
<1>2. ASSUME arrived = "whole" /\ published
      PROVE  /\ lines \in Seq(Line)
             /\ answer = IF Refuses(lines) THEN Refusal("host")
                         ELSE [status |-> 200, cause |-> "", lines |-> Rewritten(lines)]
  <2>1. /\ body \in Bodies /\ trimmed = Trim(body)
        /\ answer = IF Refuses(lines) THEN Refusal("host")
                    ELSE [status |-> 200, cause |-> "", lines |-> Rewritten(lines)]
    BY <1>2 DEF Served
  <2>2. body \in Seq(Line)
    BY <2>1, PlaylistAssumption DEF Line
  <2>3. QED
    BY <2>1, <2>2, TrimLines
<1>3. CASE arrived = "whole" /\ published /\ Refuses(lines)
  <2>1. answer.status = 502 /\ answer.lines = <<>>
    BY <1>2, <1>3 DEF Refusal
  <2>2. QED
    BY <1>3, <2>1 DEF NothingPastProxy, Refuses
<1>4. CASE arrived = "whole" /\ published /\ ~Refuses(lines)
  <2>1. answer.status = 200 /\ answer.lines = Rewritten(lines) /\ lines \in Seq(Line)
    <3>1. /\ answer = [status |-> 200, cause |-> "", lines |-> Rewritten(lines)]
          /\ lines \in Seq(Line)
      BY <1>2, <1>4, Zenon
    <3>2. QED
      BY <3>1
  <2>2. \A p \in DOMAIN lines : lines[p] \in Line /\ lines[p].at \in {"none", "upstream"}
    <3>1. \A p \in DOMAIN lines : lines[p] \in Line
      BY <2>1
    <3>2. QED
      BY <1>4, <3>1 DEF Refuses, Line, Addresses
  <2>3. \A p \in DOMAIN lines : Rewritten(lines)[p].at \in {"none", "proxy"}
    <3>1. SUFFICES ASSUME NEW p \in DOMAIN lines PROVE Rewritten(lines)[p].at \in {"none", "proxy"}
      OBVIOUS
    <3>2. "at" \in DOMAIN lines[p]
      BY <2>2 DEF Line
    <3>3. Rewritten(lines)[p] = IF lines[p].at = "upstream"
                                THEN [lines[p] EXCEPT !.at = "proxy"] ELSE lines[p]
      BY DEF Rewritten
    <3>4. QED
      BY <2>2, <3>2, <3>3
  <2>4. DOMAIN Rewritten(lines) = DOMAIN lines
    BY DEF Rewritten
  <2>5. QED
    BY <1>4, <2>1, <2>3, <2>4 DEF NothingPastProxy, Refuses
<1>5. QED
  BY <1>1, <1>3, <1>4

-------------------------------------------------------------------------------
(* The lines of a tag.                                                      *)

\* The elements that are in T, in their order.
Picked(s, T) == Chosen(s, {p \in DOMAIN s : s[p] \in T})

\* What one more element does.
LEMMA PickedAppend ==
  ASSUME NEW S, NEW s \in Seq(S), NEW e \in S, NEW T
  PROVE  Picked(Append(s, e), T) = IF e \in T THEN Append(Picked(s, T), e) ELSE Picked(s, T)
<1> DEFINE t == Append(s, e)
           P == {p \in DOMAIN t : t[p] \in T}
           Q == {p \in DOMAIN s : s[p] \in T}
<1>1. /\ DOMAIN s = 1 .. Len(s) /\ DOMAIN t = 1 .. Len(s) + 1 /\ Len(s) \in Nat
      /\ t[Len(s) + 1] = e /\ \A k \in 1 .. Len(s) : t[k] = s[k]
  OBVIOUS
<1>2. \A k \in 1 .. Len(s) : k \in P <=> k \in Q
  BY <1>1
<1>3. Len(s) + 1 \in P <=> e \in T
  BY <1>1
<1> HIDE DEF P, Q
<1>4. Chosen(t, P) = IF Len(s) + 1 \in P THEN Append(Chosen(s, P), e) ELSE Chosen(s, P)
  BY ChosenAppend
<1>5. Chosen(s, P) = Chosen(s, Q)
  BY <1>2, ChosenSame
<1>6. QED
  BY <1>3, <1>4, <1>5 DEF Picked, P, Q

\* Of nothing, nothing.
LEMMA PickedEmpty == \A T : Picked(<<>>, T) = <<>>
  BY ChosenEmpty DEF Picked

\* What is picked comes from the list.
LEMMA PickedMembers ==
  ASSUME NEW S, NEW s \in Seq(S), NEW T
  PROVE  Picked(s, T) \in Seq(S)
  BY ChosenMembers DEF Picked

\* Of two parts, what is picked of each.
LEMMA PickedParts ==
  ASSUME NEW S, NEW s \in Seq(S), NEW t \in Seq(S), NEW T
  PROVE  Picked(s \o t, T) = Picked(s, T) \o Picked(t, T)
<1> DEFINE G == {r \in Seq(S) : Picked(s \o r, T) = Picked(s, T) \o Picked(r, T)}
<1>0. Picked(s, T) \in Seq(S) /\ \A r \in Seq(S) : Picked(r, T) \in Seq(S)
  BY PickedMembers
<1>1. <<>> \in G
  <2>1. s \o <<>> = s /\ Picked(s, T) \o <<>> = Picked(s, T) /\ <<>> \in Seq(S)
    BY <1>0, ConcatEmptySeq
  <2>2. QED
    BY <2>1, PickedEmpty
<1>2. ASSUME NEW r \in Seq(S), NEW e \in S, r \in G PROVE Append(r, e) \in G
  <2>1. s \o Append(r, e) = Append(s \o r, e) /\ s \o r \in Seq(S) /\ Append(r, e) \in Seq(S)
    OBVIOUS
  <2>2. Picked(Append(s \o r, e), T)
          = IF e \in T THEN Append(Picked(s \o r, T), e) ELSE Picked(s \o r, T)
    BY <2>1, PickedAppend
  <2>3. Picked(Append(r, e), T) = IF e \in T THEN Append(Picked(r, T), e) ELSE Picked(r, T)
    BY PickedAppend
  <2>4. Append(Picked(s, T) \o Picked(r, T), e) = Picked(s, T) \o Append(Picked(r, T), e)
    <3>1. ASSUME NEW a \in Seq(S), NEW b \in Seq(S) PROVE Append(a \o b, e) = a \o Append(b, e)
      <4>1. a \o b \in Seq(S) /\ <<e>> \in Seq(S)
        BY ConcatProperties
      <4>2. Append(a \o b, e) = (a \o b) \o <<e>> /\ Append(b, e) = b \o <<e>>
        BY <4>1, AppendIsConcat
      <4>3. (a \o b) \o <<e>> = a \o (b \o <<e>>)
        BY <4>1, ConcatAssociative
      <4>4. QED
        BY <4>2, <4>3, Zenon
    <3>2. QED
      BY <1>0, <3>1
  <2>5. QED
    BY <1>2, <2>1, <2>2, <2>3, <2>4
<1> HIDE DEF G
<1>3. \A r \in Seq(S) : r \in G
  BY <1>1, <1>2, SeqSetInduction
<1>4. QED
  BY <1>3 DEF G

\* Of one element.
LEMMA PickedOne ==
  ASSUME NEW e, NEW T
  PROVE  Picked(<<e>>, T) = IF e \in T THEN <<e>> ELSE <<>>
<1>1. <<>> \in Seq({e}) /\ <<e>> = Append(<<>>, e) /\ e \in {e}
  OBVIOUS
<1>2. Picked(Append(<<>>, e), T) = IF e \in T THEN Append(Picked(<<>>, T), e) ELSE Picked(<<>>, T)
  BY <1>1, PickedAppend
<1>3. QED
  BY <1>1, <1>2, PickedEmpty

\* What is picked in two turns.
LEMMA PickedTwice ==
  ASSUME NEW S, NEW s \in Seq(S), NEW T, NEW U
  PROVE  Picked(Picked(s, T), U) = Picked(s, T \cap U)
<1> DEFINE G == {r \in Seq(S) : Picked(Picked(r, T), U) = Picked(r, T \cap U)}
<1>1. <<>> \in G
  <2>1. <<>> \in Seq(S)
    OBVIOUS
  <2>2. QED
    BY <2>1, PickedEmpty
<1>2. ASSUME NEW r \in Seq(S), NEW e \in S, r \in G PROVE Append(r, e) \in G
  <2>1. Append(r, e) \in Seq(S) /\ Picked(r, T) \in Seq(S)
    BY PickedMembers
  <2>2. Picked(Append(r, e), T) = IF e \in T THEN Append(Picked(r, T), e) ELSE Picked(r, T)
    BY PickedAppend
  <2>3. Picked(Append(r, e), T \cap U)
          = IF e \in T \cap U THEN Append(Picked(r, T \cap U), e) ELSE Picked(r, T \cap U)
    BY PickedAppend
  <2>4. Picked(Append(Picked(r, T), e), U)
          = IF e \in U THEN Append(Picked(Picked(r, T), U), e) ELSE Picked(Picked(r, T), U)
    BY <2>1, PickedAppend
  <2>5. Picked(Picked(r, T), U) = Picked(r, T \cap U)
    BY <1>2
  <2>6. Picked(Picked(Append(r, e), T), U) = Picked(Append(r, e), T \cap U)
    <3>1. CASE e \in T
      <4>1. e \in T \cap U <=> e \in U
        BY <3>1
      <4>2. QED
        BY <2>2, <2>3, <2>4, <2>5, <3>1, <4>1
    <3>2. CASE e \notin T
      <4>1. e \notin T \cap U
        BY <3>2
      <4>2. QED
        BY <2>2, <2>3, <2>5, <3>2, <4>1
    <3>3. QED
      BY <3>1, <3>2
  <2>7. QED
    BY <2>1, <2>6
<1> HIDE DEF G
<1>3. \A r \in Seq(S) : r \in G
  BY <1>1, <1>2, SeqSetInduction
<1>4. QED
  BY <1>3 DEF G

\* Nothing is picked exactly where nothing fits.
LEMMA PickedNone ==
  ASSUME NEW S, NEW s \in Seq(S), NEW T
  PROVE  Picked(s, T) = <<>> <=> \A p \in 1 .. Len(s) : s[p] \notin T
<1> DEFINE P == {p \in DOMAIN s : s[p] \in T}
           c == Chosen(s, P)
<1>2. c = Picked(s, T)
  BY DEF Picked
<1>3. DOMAIN s = 1 .. Len(s)
  OBVIOUS
<1>4. \A p \in 1 .. Len(s) : p \in P <=> s[p] \in T
  BY <1>3
<1> HIDE DEF P
<1>1. /\ c \in Seq(S)
      /\ \A i \in 1 .. Len(c) : \E p \in 1 .. Len(s) : p \in P /\ c[i] = s[p]
      /\ \A p \in 1 .. Len(s) : p \in P => \E i \in 1 .. Len(c) : c[i] = s[p]
  BY ChosenMembers
<1> HIDE DEF c
<1>5. c = <<>> <=> Len(c) = 0
  BY <1>1, EmptySeq
<1>6. Len(c) \in Nat
  BY <1>1
<1>7. ASSUME c = <<>> PROVE \A p \in 1 .. Len(s) : s[p] \notin T
  BY <1>1, <1>4, <1>5, <1>7
<1>8. ASSUME \A p \in 1 .. Len(s) : s[p] \notin T PROVE c = <<>>
  <2>1. Len(c) = 0
    <3>1. SUFFICES ASSUME Len(c) # 0 PROVE FALSE
      OBVIOUS
    <3>2. 1 \in 1 .. Len(c)
      BY <1>6, <3>1
    <3>3. QED
      BY <1>1, <1>4, <1>8, <3>2
  <2>2. QED
    BY <1>5, <2>1
<1>9. QED
  BY <1>2, <1>7, <1>8

Tagged(tag) == {line \in Line : line.tag = tag}

Untagged(tag) == {line \in Line : line.tag # tag}

\* With and Without pick the lines of a tag and the others.
LEMMA WithIs ==
  ASSUME NEW s \in Seq(Line), NEW tag
  PROVE  /\ With(s, tag) = Picked(s, Tagged(tag))
         /\ Without(s, tag) = Picked(s, Untagged(tag))
<1>1. DOMAIN s = 1 .. Len(s) /\ \A p \in 1 .. Len(s) : s[p] \in Line
  OBVIOUS
<1> DEFINE P == {p \in DOMAIN s : s[p] \in Tagged(tag)}
           Q == {p \in DOMAIN s : s[p] \in Untagged(tag)}
<1>2. PlacesOf(s, tag) = P /\ DOMAIN s \ PlacesOf(s, tag) = Q
  BY <1>1 DEF PlacesOf, Tagged, Untagged
<1>3. QED
  BY <1>2 DEF With, Without, Picked

\* Of a list in two parts.
LEMMA WithParts ==
  ASSUME NEW s \in Seq(Line), NEW t \in Seq(Line), NEW tag
  PROVE  /\ s \o t \in Seq(Line)
         /\ With(s, tag) \in Seq(Line) /\ With(t, tag) \in Seq(Line)
         /\ With(s \o t, tag) = With(s, tag) \o With(t, tag)
         /\ Without(s, tag) \in Seq(Line) /\ Without(t, tag) \in Seq(Line)
         /\ Without(s \o t, tag) = Without(s, tag) \o Without(t, tag)
<1>1. s \o t \in Seq(Line)
  BY ConcatProperties
<1>2. \A T : Picked(s \o t, T) = Picked(s, T) \o Picked(t, T)
  BY PickedParts
<1>3. QED
  BY <1>1, <1>2, WithIs, ChosenLines

\* With alone.
LEMMA WithConcat ==
  ASSUME NEW s \in Seq(Line), NEW t \in Seq(Line), NEW tag
  PROVE  With(s \o t, tag) = With(s, tag) \o With(t, tag)
  BY WithParts

\* Of nothing.
LEMMA WithNothing == \A tag : With(<<>>, tag) = <<>> /\ Without(<<>>, tag) = <<>>
  BY ChosenEmpty DEF With, Without

\* Of one line.
LEMMA WithOne ==
  ASSUME NEW e \in Line, NEW tag
  PROVE  /\ <<e>> \in Seq(Line)
         /\ With(<<e>>, tag) = IF e.tag = tag THEN <<e>> ELSE <<>>
         /\ Without(<<e>>, tag) = IF e.tag = tag THEN <<>> ELSE <<e>>
<1>1. <<e>> \in Seq(Line)
  OBVIOUS
<1>2. \A T : Picked(<<e>>, T) = IF e \in T THEN <<e>> ELSE <<>>
  BY PickedOne
<1>3. /\ With(<<e>>, tag) = Picked(<<e>>, Tagged(tag))
      /\ Without(<<e>>, tag) = Picked(<<e>>, Untagged(tag))
  BY <1>1, WithIs
<1>4. (e \in Tagged(tag) <=> e.tag = tag) /\ (e \in Untagged(tag) <=> e.tag # tag)
  BY DEF Tagged, Untagged
<1>5. QED
  BY <1>1, <1>2, <1>3, <1>4

\* Of a list without the tag.
LEMMA WithNone ==
  ASSUME NEW s \in Seq(Line), NEW tag
  PROVE  With(s, tag) = <<>> <=> \A p \in 1 .. Len(s) : s[p].tag # tag
<1>1. \A p \in 1 .. Len(s) : s[p] \in Line
  OBVIOUS
<1>2. Picked(s, Tagged(tag)) = <<>> <=> \A p \in 1 .. Len(s) : s[p] \notin Tagged(tag)
  BY PickedNone
<1>3. QED
  BY <1>1, <1>2, WithIs DEF Tagged

\* Its lines bear the tag.
LEMMA WithTagged ==
  ASSUME NEW s \in Seq(Line), NEW tag
  PROVE  \A i \in 1 .. Len(With(s, tag)) :
           \E p \in 1 .. Len(s) : With(s, tag)[i] = s[p] /\ s[p].tag = tag
<1> DEFINE P == PlacesOf(s, tag)
           c == Chosen(s, P)
<1>1. \A i \in 1 .. Len(c) : \E p \in 1 .. Len(s) : p \in P /\ c[i] = s[p]
  <2> HIDE DEF P
  <2>1. QED
    BY ChosenMembers
<1>2. c = With(s, tag)
  BY DEF With
<1> HIDE DEF c
<1>3. QED
  BY <1>1, <1>2 DEF PlacesOf

\* Taking out one tag leaves the others as they are.
LEMMA WithOfWithout ==
  ASSUME NEW s \in Seq(Line), NEW a, NEW b
  PROVE  /\ Without(s, a) \in Seq(Line)
         /\ With(Without(s, a), b) = IF a = b THEN <<>> ELSE With(s, b)
<1>1. Without(s, a) \in Seq(Line)
  BY ChosenLines
<1>2. With(Without(s, a), b) = Picked(s, Untagged(a) \cap Tagged(b))
  BY <1>1, WithIs, PickedTwice
<1>3. CASE a = b
  <2>1. \A p \in 1 .. Len(s) : s[p] \notin Untagged(a) \cap Tagged(b)
    BY <1>3 DEF Tagged, Untagged
  <2>2. Picked(s, Untagged(a) \cap Tagged(b)) = <<>>
    BY <2>1, PickedNone
  <2>3. QED
    BY <1>1, <1>2, <1>3, <2>2
<1>4. CASE a # b
  <2>1. Untagged(a) \cap Tagged(b) = Tagged(b)
    BY <1>4 DEF Tagged, Untagged
  <2>2. QED
    BY <1>1, <1>2, <1>4, <2>1, WithIs
<1>5. QED
  BY <1>3, <1>4

\* A list around one of its lines.
LEMMA AroundLine ==
  ASSUME NEW s \in Seq(Line), NEW i \in 1 .. Len(s)
  PROVE  /\ s = SubSeq(s, 1, i - 1) \o (<<s[i]>> \o SubSeq(s, i + 1, Len(s)))
         /\ s[i] \in Line /\ <<s[i]>> \in Seq(Line)
         /\ SubSeq(s, 1, i - 1) \in Seq(Line) /\ SubSeq(s, i + 1, Len(s)) \in Seq(Line)
         /\ Len(SubSeq(s, 1, i - 1)) = i - 1
         /\ Len(SubSeq(s, i + 1, Len(s))) = Len(s) - i
<1>1. Len(s) \in Nat /\ i \in Nat /\ i \in i .. Len(s) /\ Len(s) \in i .. Len(s)
  BY LenProperties
<1>2. s[i] \in Line /\ <<s[i]>> \in Seq(Line)
  BY ElementOfSeq
<1>3. SubSeq(s, i, Len(s)) = <<s[i]>> \o SubSeq(s, i + 1, Len(s))
  BY <1>1, SubSeqRecursiveFirst
<1>4. SubSeq(s, 1, Len(s)) = SubSeq(s, 1, i - 1) \o SubSeq(s, i, Len(s))
  <2>1. 1 \in 1 .. Len(s) + 1 /\ i - 1 \in 1 - 1 .. Len(s) /\ Len(s) \in i - 1 .. Len(s)
    BY <1>1
  <2>2. SubSeq(s, 1, i - 1) \o SubSeq(s, (i - 1) + 1, Len(s)) = SubSeq(s, 1, Len(s))
    BY <2>1, ConcatAdjacentSubSeq
  <2>3. (i - 1) + 1 = i
    BY <1>1
  <2>4. QED
    BY <2>2, <2>3
<1>5. SubSeq(s, 1, Len(s)) = s
  BY SubSeqFull
<1>6. SubSeq(s, 1, i - 1) \in Seq(Line) /\ Len(SubSeq(s, 1, i - 1)) = i - 1
  <2>1. \A k \in 1 .. i - 1 : s[k] \in Line
    BY <1>1, ElementOfSeq
  <2>2. 1 \in Int /\ i - 1 \in Int /\ (IF 1 <= i - 1 THEN (i - 1) - 1 + 1 ELSE 0) = i - 1
    BY <1>1
  <2>3. QED
    BY <2>1, <2>2, SubSeqProperties
<1>7. SubSeq(s, i + 1, Len(s)) \in Seq(Line) /\ Len(SubSeq(s, i + 1, Len(s))) = Len(s) - i
  <2>1. \A k \in i + 1 .. Len(s) : s[k] \in Line
    BY <1>1, ElementOfSeq
  <2>2. i + 1 \in Int /\ Len(s) \in Int
        /\ (IF i + 1 <= Len(s) THEN Len(s) - (i + 1) + 1 ELSE 0) = Len(s) - i
    BY <1>1
  <2>3. QED
    BY <2>1, <2>2, SubSeqProperties
<1>8. QED
  BY <1>2, <1>3, <1>4, <1>5, <1>6, <1>7

\* The first line stays the first if it does not go.
LEMMA FirstStays ==
  ASSUME NEW s \in Seq(Line), s # <<>>, NEW tag, s[1].tag # tag
  PROVE  Without(s, tag) # <<>> /\ Without(s, tag)[1] = s[1]
<1>1. 1 \in 1 .. Len(s)
  BY EmptySeq
<1> DEFINE rest == SubSeq(s, 2, Len(s))
<1>2. /\ s = <<>> \o (<<s[1]>> \o rest) /\ s[1] \in Line /\ <<s[1]>> \in Seq(Line)
      /\ rest \in Seq(Line)
  <2>1. SubSeq(s, 1, 1 - 1) = <<>>
    BY SubSeqEmpty
  <2>2. 1 + 1 = 2
    OBVIOUS
  <2>3. QED
    BY <1>1, <2>1, <2>2, AroundLine
<1> HIDE DEF rest
<1>3. s = <<s[1]>> \o rest
  <2>1. <<s[1]>> \o rest \in Seq(Line)
    BY <1>2, ConcatProperties
  <2>2. QED
    BY <1>2, <2>1, ConcatEmptySeq
<1>4. ASSUME NEW one \in Seq(Line), one = <<s[1]>>
      PROVE  Without(s, tag) = one \o Without(rest, tag) /\ Without(rest, tag) \in Seq(Line)
  <2>1. Without(one \o rest, tag) = Without(one, tag) \o Without(rest, tag)
    BY <1>2, WithParts
  <2>2. Without(one, tag) = one
    BY <1>2, <1>4, WithOne
  <2>3. QED
    BY <1>2, <1>3, <1>4, <2>1, <2>2, ChosenLines
<1>6. <<s[1]>> \o Without(rest, tag) # <<>> /\ (<<s[1]>> \o Without(rest, tag))[1] = s[1]
  <2>1. Without(rest, tag) \in Seq(Line)
    BY <1>2, ChosenLines
  <2>2. QED
    BY <1>2, <2>1, ConcatProperties
<1>7. QED
  BY <1>2, <1>4, <1>6

\* The lists of lines, under a name that keeps the provers from looking into them.
Lists == Seq(Line)

\* Lists, put together.
LEMMA ListsJoin ==
  /\ <<>> \in Lists
  /\ \A s, t \in Lists : s \o t \in Lists
  /\ \A s \in Lists : s \o <<>> = s /\ <<>> \o s = s
<1>1. <<>> \in Seq(Line)
  BY EmptySeq
<1>2. \A s, t \in Seq(Line) : s \o t \in Seq(Line)
  BY ConcatProperties
<1>3. \A s \in Seq(Line) : s \o <<>> = s /\ <<>> \o s = s
  BY ConcatEmptySeq
<1>4. QED
  BY <1>1, <1>2, <1>3, Zenon DEF Lists

\* With, as far as lists put together are concerned.
LEMMA WithJoin ==
  \A tag : /\ \A s \in Lists : With(s, tag) \in Lists /\ Without(s, tag) \in Lists
           /\ \A s, t \in Lists : With(s \o t, tag) = With(s, tag) \o With(t, tag)
<1>1. \A tag : \A s \in Seq(Line) : With(s, tag) \in Seq(Line) /\ Without(s, tag) \in Seq(Line)
  BY ChosenLines
<1>2. \A tag : \A s, t \in Seq(Line) : With(s \o t, tag) = With(s, tag) \o With(t, tag)
  BY WithConcat
<1>3. QED
  BY <1>1, <1>2, Zenon DEF Lists

\* Two tags, one taken out.
LEMMA WithAfterWithout ==
  \A a, b : \A s \in Lists : With(Without(s, a), b) = IF a = b THEN <<>> ELSE With(s, b)
  BY WithOfWithout DEF Lists

\* A list without a tag.
LEMMA WithNowhere ==
  \A tag : \A s \in Lists : With(s, tag) = <<>> <=> \A p \in 1 .. Len(s) : s[p].tag # tag
  BY WithNone DEF Lists

\* The last of some lines.
Latest(s) == IF s = <<>> THEN <<>> ELSE <<Last(s)>>

\* It is one of them, so that it bears their tag.
LEMMA LatestIs ==
  ASSUME NEW s \in Lists, NEW a, NEW b
  PROVE  /\ Latest(With(s, a)) \in Lists
         /\ With(Latest(With(s, a)), b) = IF a = b THEN Latest(With(s, a)) ELSE <<>>
<1>1. CASE With(s, a) = <<>>
  BY <1>1, WithNothing, ListsJoin DEF Latest
<1>2. CASE With(s, a) # <<>>
  <2>1. With(s, a) \in Seq(Line) /\ s \in Seq(Line)
    BY ChosenLines DEF Lists
  <2>2. \A i \in 1 .. Len(With(s, a)) :
          \E p \in 1 .. Len(s) : With(s, a)[i] = s[p] /\ s[p].tag = a
    BY <2>1, WithTagged
  <2>3. ASSUME NEW n, n = Len(With(s, a)), NEW e, e = With(s, a)[n]
        PROVE  e \in Line /\ e.tag = a /\ Latest(With(s, a)) = <<e>>
    <3>1. n \in 1 .. Len(With(s, a))
      BY <1>2, <2>1, <2>3, EmptySeq
    <3>2. \E p \in 1 .. Len(s) : e = s[p] /\ s[p].tag = a
      BY <2>2, <2>3, <3>1
    <3>3. e \in Line
      BY <2>1, <2>3, <3>1, ElementOfSeq
    <3>4. QED
      BY <1>2, <2>3, <3>2, <3>3 DEF Latest, Last
  <2>4. \E e \in Line : e.tag = a /\ Latest(With(s, a)) = <<e>>
    BY <2>3
  <2>5. PICK e \in Line : e.tag = a /\ Latest(With(s, a)) = <<e>>
    BY <2>4
  <2>6. <<e>> \in Seq(Line) /\ With(<<e>>, b) = IF e.tag = b THEN <<e>> ELSE <<>>
    BY WithOne
  <2>7. QED
    BY <2>5, <2>6 DEF Lists
<1>3. QED
  BY <1>1, <1>2

\* What carryActivePlaylistTags does to each tag.
LEMMA CarryTags ==
  ASSUME NEW s \in Lists, NEW removed \in Lists, NEW a, NEW b
  PROVE  /\ Carry(s, removed, a) \in Lists
         /\ With(Carry(s, removed, a), b)
              = IF a = b THEN Latest(With(s \o removed, a)) ELSE With(s, b)
<1>1. ASSUME NEW rest \in Lists, rest = Without(s, a),
             NEW moved \in Lists, moved = Latest(With(s \o removed, a))
      PROVE  With(rest \o moved, b) = IF a = b THEN moved ELSE With(s, b)
  <2>1. With(rest \o moved, b) = With(rest, b) \o With(moved, b)
    BY WithJoin
  <2>2. With(rest, b) = IF a = b THEN <<>> ELSE With(s, b)
    BY <1>1, WithAfterWithout
  <2>3. With(moved, b) = IF a = b THEN moved ELSE <<>>
    BY <1>1, LatestIs, ListsJoin
  <2>4. With(s, b) \in Lists
    BY WithJoin
  <2>5. QED
    BY <2>1, <2>2, <2>3, <2>4, ListsJoin
<1>2. Without(s, a) \in Lists /\ Latest(With(s \o removed, a)) \in Lists
  BY WithJoin, ListsJoin, LatestIs
<1>3. Carry(s, removed, a) = Without(s, a) \o Latest(With(s \o removed, a))
  BY DEF Carry, Latest
<1>4. With(Without(s, a) \o Latest(With(s \o removed, a)), b)
        = IF a = b THEN Latest(With(s \o removed, a)) ELSE With(s, b)
  BY <1>1, <1>2
<1>5. Without(s, a) \o Latest(With(s \o removed, a)) \in Lists
  BY <1>2, ListsJoin
<1>6. QED
  BY <1>3, <1>4, <1>5, Zenon

\* What begins a list goes on to begin it when something is put behind.
LEMMA BeginningStays ==
  ASSUME NEW s \in Lists, NEW t \in Lists, s # <<>>
  PROVE  s \o t # <<>> /\ (s \o t)[1] = s[1]
<1>1. s \in Seq(Line) /\ t \in Seq(Line)
  BY DEF Lists
<1>2. Len(s) \in Nat \ {0} /\ Len(t) \in Nat
  BY <1>1, EmptySeq, LenProperties
<1>3. 1 \in 1 .. Len(s) + Len(t) /\ 1 <= Len(s)
  BY <1>2
<1>4. Len(s \o t) = Len(s) + Len(t) /\ (s \o t)[1] = s[1]
  BY <1>1, <1>3, ConcatProperties
<1>5. QED
  BY <1>2, <1>4, EmptySeq

\* The first line stays the first if it does not bear the tag.
LEMMA CarryBeginning ==
  ASSUME NEW s \in Lists, NEW removed \in Lists, NEW a, s # <<>>, s[1].tag # a
  PROVE  Carry(s, removed, a) # <<>> /\ Carry(s, removed, a)[1] = s[1]
<1>1. Without(s, a) # <<>> /\ Without(s, a)[1] = s[1]
  BY FirstStays DEF Lists
<1>2. Without(s, a) \in Lists /\ Latest(With(s \o removed, a)) \in Lists
  BY WithJoin, ListsJoin, LatestIs
<1>3. Carry(s, removed, a) = Without(s, a) \o Latest(With(s \o removed, a))
  BY DEF Carry, Latest
<1>4. QED
  BY <1>1, <1>2, <1>3, BeginningStays

\* Lists that agree in every place are one.
LEMMA SameLists ==
  ASSUME NEW s \in Lists, NEW t \in Lists, Len(s) = Len(t), \A k \in 1 .. Len(s) : s[k] = t[k]
  PROVE  s = t
  BY SeqEqual DEF Lists

\* A list with another line in one place: the two parts around it.
LEMMA OtherLine ==
  ASSUME NEW s \in Lists, NEW i \in 1 .. Len(s), NEW e \in Line
  PROVE  \E x, y \in Lists : /\ s = x \o (<<s[i]>> \o y)
                             /\ [s EXCEPT ![i] = e] = x \o (<<e>> \o y)
                             /\ Len(x) = i - 1 /\ \A k \in 1 .. i - 1 : x[k] = s[k]
<1>1. s \in Seq(Line) /\ Len(s) \in Nat /\ i \in Nat
  BY LenProperties DEF Lists
<1>2. ASSUME NEW t, t = [s EXCEPT ![i] = e]
      PROVE  \E x, y \in Lists : /\ s = x \o (<<s[i]>> \o y)
                                 /\ t = x \o (<<e>> \o y)
                                 /\ Len(x) = i - 1 /\ \A k \in 1 .. i - 1 : x[k] = s[k]
  <2>1. /\ t \in Seq(Line) /\ Len(t) = Len(s)
        /\ \A j \in 1 .. Len(s) : t[j] = IF j = i THEN e ELSE s[j]
    BY <1>1, <1>2, ExceptSeq
  <2>2. /\ s = SubSeq(s, 1, i - 1) \o (<<s[i]>> \o SubSeq(s, i + 1, Len(s)))
        /\ SubSeq(s, 1, i - 1) \in Seq(Line) /\ SubSeq(s, i + 1, Len(s)) \in Seq(Line)
        /\ Len(SubSeq(s, 1, i - 1)) = i - 1 /\ Len(SubSeq(s, i + 1, Len(s))) = Len(s) - i
    BY <1>1, AroundLine
  <2>3. /\ t = SubSeq(t, 1, i - 1) \o (<<t[i]>> \o SubSeq(t, i + 1, Len(t)))
        /\ SubSeq(t, 1, i - 1) \in Seq(Line) /\ SubSeq(t, i + 1, Len(t)) \in Seq(Line)
        /\ Len(SubSeq(t, 1, i - 1)) = i - 1 /\ Len(SubSeq(t, i + 1, Len(t))) = Len(s) - i
    <3>1. i \in 1 .. Len(t)
      BY <2>1
    <3>2. QED
      BY <2>1, <3>1, AroundLine
  <2>4. /\ \A k \in 1 .. i - 1 : SubSeq(s, 1, i - 1)[k] = s[k]
        /\ \A k \in 1 .. i - 1 : SubSeq(t, 1, i - 1)[k] = t[k]
        /\ \A k \in 1 .. i - 1 : t[k] = s[k]
    <3>1. \A k \in 1 .. i - 1 : s[k] \in Line /\ t[k] \in Line /\ t[k] = s[k] /\ k \in Nat
      BY <1>1, <2>1, ElementOfSeq
    <3>2. /\ 1 \in Int /\ i - 1 \in Int /\ (i - 1) - 1 + 1 = i - 1
          /\ \A k \in 1 .. i - 1 : 1 + k - 1 = k
      BY <1>1
    <3>3. \A k \in 1 .. (i - 1) - 1 + 1 : SubSeq(s, 1, i - 1)[k] = s[1 + k - 1]
      BY <3>1, <3>2, SubSeqProperties
    <3>4. \A k \in 1 .. (i - 1) - 1 + 1 : SubSeq(t, 1, i - 1)[k] = t[1 + k - 1]
      BY <3>1, <3>2, SubSeqProperties
    <3>5. QED
      BY <3>1, <3>2, <3>3, <3>4
  <2>5. /\ \A k \in 1 .. Len(s) - i : SubSeq(s, i + 1, Len(s))[k] = s[i + k]
        /\ \A k \in 1 .. Len(s) - i : SubSeq(t, i + 1, Len(t))[k] = t[i + k]
        /\ \A k \in 1 .. Len(s) - i : t[i + k] = s[i + k]
    <3>1. \A k \in i + 1 .. Len(s) : s[k] \in Line /\ t[k] \in Line /\ t[k] = s[k]
      BY <1>1, <2>1, ElementOfSeq
    <3>2. /\ i + 1 \in Int /\ Len(s) \in Int /\ Len(s) - (i + 1) + 1 = Len(s) - i
          /\ \A k \in 1 .. Len(s) - i : (i + 1) + k - 1 = i + k /\ i + k \in i + 1 .. Len(s)
      BY <1>1
    <3>3. \A k \in 1 .. Len(s) - (i + 1) + 1 : SubSeq(s, i + 1, Len(s))[k] = s[(i + 1) + k - 1]
      BY <3>1, <3>2, SubSeqProperties
    <3>4. \A k \in 1 .. Len(s) - (i + 1) + 1 : SubSeq(t, i + 1, Len(s))[k] = t[(i + 1) + k - 1]
      BY <3>1, <3>2, SubSeqProperties
    <3>5. QED
      BY <2>1, <3>1, <3>2, <3>3, <3>4
  <2>6. SubSeq(t, 1, i - 1) = SubSeq(s, 1, i - 1)
    <3>1. ASSUME NEW u \in Lists, NEW v \in Lists, Len(u) = i - 1, Len(v) = i - 1,
                 \A k \in 1 .. i - 1 : v[k] = s[k], \A k \in 1 .. i - 1 : u[k] = t[k]
          PROVE  u = v
      BY <2>4, <3>1, SameLists
    <3>2. SubSeq(t, 1, i - 1) \in Lists /\ SubSeq(s, 1, i - 1) \in Lists
      BY <2>2, <2>3 DEF Lists
    <3>3. QED
      BY <2>2, <2>3, <2>4, <3>1, <3>2
  <2>7. SubSeq(t, i + 1, Len(t)) = SubSeq(s, i + 1, Len(s))
    <3>1. ASSUME NEW u \in Lists, NEW v \in Lists, Len(u) = Len(s) - i, Len(v) = Len(s) - i,
                 \A k \in 1 .. Len(s) - i : v[k] = s[i + k],
                 \A k \in 1 .. Len(s) - i : u[k] = t[i + k]
          PROVE  u = v
      BY <2>5, <3>1, SameLists
    <3>2. SubSeq(t, i + 1, Len(t)) \in Lists /\ SubSeq(s, i + 1, Len(s)) \in Lists
      BY <2>2, <2>3 DEF Lists
    <3>3. QED
      BY <2>2, <2>3, <2>5, <3>1, <3>2
  <2>8. t[i] = e
    BY <2>1
  <2>9. t = SubSeq(s, 1, i - 1) \o (<<e>> \o SubSeq(s, i + 1, Len(s)))
    BY <2>3, <2>6, <2>7, <2>8, Zenon
  <2>10. QED
    BY <2>2, <2>4, <2>9, Zenon DEF Lists
<1>3. QED
  BY <1>2

\* The list of one line, under a name for the same reason.
Just(e) == <<e>>

\* Of a list around one of its lines.
LEMMA WithAround ==
  ASSUME NEW x \in Lists, NEW y \in Lists, NEW e \in Line, NEW b
  PROVE  /\ Just(e) \in Lists /\ x \o (Just(e) \o y) \in Lists /\ x \o y \in Lists
         /\ e.tag # b => With(x \o (Just(e) \o y), b) = With(x \o y, b)
<1>1. ASSUME NEW one \in Lists, one = Just(e)
      PROVE  /\ x \o (one \o y) \in Lists /\ x \o y \in Lists
             /\ e.tag # b => With(x \o (one \o y), b) = With(x \o y, b)
  <2>1. one \o y \in Lists /\ x \o (one \o y) \in Lists /\ x \o y \in Lists
    BY ListsJoin
  <2>2. With(x \o (one \o y), b) = With(x, b) \o With(one \o y, b)
    BY <2>1, WithJoin
  <2>3. With(one \o y, b) = With(one, b) \o With(y, b)
    BY WithJoin
  <2>4. With(one, b) = IF e.tag = b THEN one ELSE <<>>
    BY <1>1, WithOne DEF Just
  <2>5. With(x \o y, b) = With(x, b) \o With(y, b) /\ With(y, b) \in Lists
    BY WithJoin
  <2>6. CASE e.tag = b
    BY <2>1, <2>2, <2>3, <2>4, <2>6
  <2>7. CASE e.tag # b
    <3>1. <<>> \o With(y, b) = With(y, b)
      BY <2>5, ListsJoin
    <3>2. QED
      BY <2>1, <2>2, <2>3, <2>4, <2>5, <2>7, <3>1
  <2>8. QED
    BY <2>6, <2>7
<1>2. Just(e) \in Lists
  BY WithOne DEF Lists, Just
<1>3. QED
  BY <1>1, <1>2

\* Of a list around a line that bears the tag.
LEMMA WithInside ==
  ASSUME NEW x \in Lists, NEW y \in Lists, NEW e \in Line
  PROVE  With(x \o (Just(e) \o y), e.tag) = With(x, e.tag) \o (Just(e) \o With(y, e.tag))
<1>1. ASSUME NEW one \in Lists, one = Just(e)
      PROVE  With(x \o (one \o y), e.tag) = With(x, e.tag) \o (one \o With(y, e.tag))
  <2>1. one \o y \in Lists
    BY ListsJoin
  <2>2. With(x \o (one \o y), e.tag) = With(x, e.tag) \o With(one \o y, e.tag)
    BY <2>1, WithJoin
  <2>3. With(one \o y, e.tag) = With(one, e.tag) \o With(y, e.tag)
    BY WithJoin
  <2>4. With(one, e.tag) = one
    BY <1>1, WithOne DEF Just
  <2>5. QED
    BY <2>2, <2>3, <2>4
<1>2. Just(e) \in Lists
  BY WithOne DEF Lists, Just
<1>3. QED
  BY <1>1, <1>2

\* The first line of a list and the others.
LEMMA BehindFirst ==
  ASSUME NEW s \in Lists, s # <<>>
  PROVE  /\ s[1] \in Line /\ <<s[1]>> \in Lists /\ SubSeq(s, 2, Len(s)) \in Lists
         /\ s = <<s[1]>> \o SubSeq(s, 2, Len(s))
<1>1. s \in Seq(Line) /\ 1 \in 1 .. Len(s)
  BY EmptySeq, LenProperties DEF Lists
<1>2. SubSeq(s, 1, 0) = <<>>
  BY SubSeqEmpty
<1>3. 1 - 1 = 0 /\ 1 + 1 = 2
  OBVIOUS
<1>4. /\ s = SubSeq(s, 1, 1 - 1) \o (<<s[1]>> \o SubSeq(s, 1 + 1, Len(s)))
      /\ s[1] \in Line /\ <<s[1]>> \in Seq(Line) /\ SubSeq(s, 1 + 1, Len(s)) \in Seq(Line)
  BY <1>1, AroundLine
<1>5. ASSUME NEW one \in Lists, NEW rest \in Lists, s = <<>> \o (one \o rest)
      PROVE  s = one \o rest
  BY <1>5, ListsJoin
<1>6. s = <<>> \o (<<s[1]>> \o SubSeq(s, 2, Len(s)))
  BY <1>2, <1>3, <1>4
<1>7. s[1] \in Line /\ <<s[1]>> \in Lists /\ SubSeq(s, 2, Len(s)) \in Lists
  BY <1>3, <1>4, Zenon DEF Lists
<1>8. QED
  BY <1>5, <1>6, <1>7

\* The tags of advancePlaylistSequence.
Numbers == {"sequence", "discontinuitySequence"}

\* What advancePlaylistSequence does: a line more, or the number of the first one
\* changed, if it can be read.
LEMMA AdvanceIs ==
  ASSUME NEW s \in Lists, NEW a \in Numbers, NEW d \in Nat
  PROVE  \E x, y \in Lists, e \in Line :
           /\ With(x, a) = <<>> /\ e.tag = a /\ Advance(s, a, d) = x \o (Just(e) \o y)
           /\ s # <<>> /\ s[1].tag = "m3u" => x # <<>> /\ x[1] = s[1]
           /\ \/ s = x \o y /\ With(y, a) = <<>> /\ e.val = d
              \/ \E l \in Line : /\ l.tag = a /\ s = x \o (Just(l) \o y)
                                 /\ e.val = IF l.val = Unreadable THEN l.val ELSE l.val + d
<1> DEFINE I == {i \in 1 .. Len(s) : s[i].tag = a}
           at == IF I # {} THEN Min(I) ELSE 0
           top == IF s # <<>> /\ s[1].tag = "m3u" THEN 2 ELSE 1
           fresh == [tag |-> a, val |-> d, at |-> "none"]
<1>1. Advance(s, a, d) = IF at = 0 THEN InsertAt(s, top, fresh)
                         ELSE IF s[at].val = Unreadable THEN s
                         ELSE [s EXCEPT ![at].val = @ + d]
  BY DEF Advance, SelectInSeq
<1>2. s \in Seq(Line) /\ Len(s) \in Nat /\ \A p \in 1 .. Len(s) : s[p] \in Line
  BY LenProperties, ElementOfSeq DEF Lists
<1>3. fresh \in Line
  BY DEF Line, Tags, Addresses, Numbers
<1>4. CASE I = {}
  <2>1. With(s, a) = <<>>
    BY <1>4, WithNowhere
  <2>2. InsertAt(s, top, fresh) = SubSeq(s, 1, top - 1) \o <<fresh>> \o SubSeq(s, top, Len(s))
    BY DEF InsertAt
  <2>3. Advance(s, a, d) = InsertAt(s, top, fresh)
    BY <1>1, <1>4
  <2>4. CASE top = 1
    <3>1. SubSeq(s, 1, 0) = <<>> /\ SubSeq(s, 1, Len(s)) = s /\ 1 - 1 = 0
      BY <1>2, SubSeqEmpty, SubSeqFull
    <3>2. ~(s # <<>> /\ s[1].tag = "m3u")
      BY <2>4
    <3> HIDE DEF top, fresh
    <3>3. Advance(s, a, d) = (<<>> \o <<fresh>>) \o s
      BY <2>2, <2>3, <2>4, <3>1
    <3>4. ASSUME NEW one \in Lists PROVE (<<>> \o one) \o s = <<>> \o (one \o s)
      BY ListsJoin
    <3>5. <<fresh>> \in Lists
      BY <1>3, WithOne DEF Lists
    <3>6. Advance(s, a, d) = <<>> \o (<<fresh>> \o s) /\ s = <<>> \o s
      BY <3>3, <3>4, <3>5, ListsJoin
    <3>7. fresh.tag = a /\ fresh.val = d
      BY DEF fresh
    <3>8. <<>> \in Lists /\ With(<<>>, a) = <<>>
      BY ListsJoin, WithNothing
    <3>9. Advance(s, a, d) = <<>> \o (Just(fresh) \o s)
      BY <3>6 DEF Just
    <3>10. QED
      BY <1>3, <2>1, <3>2, <3>6, <3>7, <3>8, <3>9
  <2>5. CASE top = 2
    <3>1. s # <<>> /\ s[1].tag = "m3u"
      BY <2>5
    <3>2. /\ s[1] \in Line /\ <<s[1]>> \in Lists /\ SubSeq(s, 2, Len(s)) \in Lists
          /\ s = <<s[1]>> \o SubSeq(s, 2, Len(s))
      BY <3>1, BehindFirst
    <3>3. SubSeq(s, 1, 1) = <<s[1]>> /\ 2 - 1 = 1
      <4>1. 1 \in 1 .. Len(s)
        BY <1>2, <3>1, EmptySeq
      <4>2. SubSeq(s, 1, 1) \in Seq(Line) /\ Len(SubSeq(s, 1, 1)) = 1 /\ SubSeq(s, 1, 1)[1] = s[1]
        BY <1>2, <4>1, SubSeqProperties
      <4>3. \A u \in Seq(Line) : Len(u) = 1 => u = <<u[1]>>
        OBVIOUS
      <4>4. SubSeq(s, 1, 1) = <<SubSeq(s, 1, 1)[1]>>
        BY <4>2, <4>3, Zenon
      <4>5. QED
        BY <4>2, <4>4
    <3> HIDE DEF top, fresh
    <3>4. Advance(s, a, d) = (<<s[1]>> \o <<fresh>>) \o SubSeq(s, 2, Len(s))
      BY <2>2, <2>3, <2>5, <3>3
    <3>5. <<fresh>> \in Lists
      BY <1>3, WithOne DEF Lists
    <3>6. Advance(s, a, d) = <<s[1]>> \o (<<fresh>> \o SubSeq(s, 2, Len(s)))
      <4>1. ASSUME NEW x \in Lists, NEW y \in Lists, NEW z \in Lists
            PROVE  (x \o y) \o z = x \o (y \o z)
        BY ConcatAssociative DEF Lists
      <4>2. QED
        BY <3>2, <3>4, <3>5, <4>1
    <3>7. fresh.tag = a /\ fresh.val = d
      BY DEF fresh
    <3>8. With(<<s[1]>>, a) = <<>> /\ With(SubSeq(s, 2, Len(s)), a) = <<>>
      <4>1. a # "m3u"
        BY DEF Numbers
      <4>2. With(<<s[1]>>, a) = <<>>
        BY <3>1, <3>2, <4>1, WithOne
      <4>3. ASSUME NEW one \in Lists, NEW rest \in Lists, s = one \o rest, With(one, a) = <<>>
            PROVE  With(rest, a) = <<>>
        <5>1. With(s, a) = With(one, a) \o With(rest, a) /\ With(rest, a) \in Lists
          BY <4>3, WithJoin
        <5>2. <<>> \o With(rest, a) = With(rest, a)
          BY <5>1, ListsJoin
        <5>3. QED
          BY <2>1, <4>3, <5>1, <5>2, Zenon
      <4>4. QED
        BY <3>2, <4>2, <4>3
    <3>9. <<s[1]>> # <<>> /\ <<s[1]>>[1] = s[1]
      OBVIOUS
    <3>10. Advance(s, a, d) = <<s[1]>> \o (Just(fresh) \o SubSeq(s, 2, Len(s)))
      BY <3>6 DEF Just
    <3>11. QED
      BY <1>3, <3>2, <3>7, <3>8, <3>9, <3>10
  <2>6. QED
    BY <2>4, <2>5
<1>5. CASE I # {}
  <2>1. at \in I /\ \A j \in I : at <= j
    <3>1. I \in SUBSET Nat
      OBVIOUS
    <3> HIDE DEF I
    <3>2. QED
      BY <1>5, <3>1, MinIs
  <2>2. at \in 1 .. Len(s) /\ s[at].tag = a /\ \A j \in 1 .. at - 1 : s[j].tag # a
    <3>1. \A j \in 1 .. Len(s) : j \in I <=> s[j].tag = a
      OBVIOUS
    <3>2. I \subseteq 1 .. Len(s)
      OBVIOUS
    <3> HIDE DEF I, at
    <3>3. QED
      BY <1>2, <2>1, <3>1, <3>2
  <2>3. Advance(s, a, d) = IF s[at].val = Unreadable THEN s ELSE [s EXCEPT ![at].val = @ + d]
    BY <1>1, <2>2
  <2> HIDE DEF at
  <2> DEFINE e == [s[at] EXCEPT !.val = IF @ = Unreadable THEN @ ELSE @ + d]
  <2>4. e \in Line /\ e.tag = a
        /\ e.val = IF s[at].val = Unreadable THEN s[at].val ELSE s[at].val + d
    BY <1>2, <2>2 DEF Line, Unreadable
  <2>5. Advance(s, a, d) = [s EXCEPT ![at] = e]
    <3>1. CASE s[at].val = Unreadable
      <4>1. e = s[at]
        BY <1>2, <2>2, <3>1 DEF Line
      <4>2. [s EXCEPT ![at] = s[at]] = s
        BY <1>2, <2>2
      <4>3. QED
        BY <2>3, <3>1, <4>1, <4>2
    <3>2. CASE s[at].val # Unreadable
      BY <2>3, <3>2
    <3>3. QED
      BY <3>1, <3>2
  <2> HIDE DEF e
  <2>6. PICK x, y \in Lists : /\ s = x \o (<<s[at]>> \o y)
                              /\ [s EXCEPT ![at] = e] = x \o (<<e>> \o y)
                              /\ Len(x) = at - 1 /\ \A k \in 1 .. at - 1 : x[k] = s[k]
    BY <2>2, <2>4, OtherLine
  <2>7. With(x, a) = <<>>
    BY <2>2, <2>6, WithNowhere
  <2>8. s[1].tag = "m3u" => x # <<>> /\ x[1] = s[1]
    <3>1. SUFFICES ASSUME s[1].tag = "m3u" PROVE x # <<>> /\ x[1] = s[1]
      OBVIOUS
    <3>2. at # 1
      BY <2>2, <3>1 DEF Numbers
    <3>3. Len(x) # 0 /\ 1 \in 1 .. at - 1
      BY <2>2, <2>6, <3>2
    <3>4. Len(<<>>) = 0
      OBVIOUS
    <3>5. QED
      BY <2>6, <3>3, <3>4
  <2>9. s[at] \in Line
    BY <1>2, <2>2
  <2>10. Advance(s, a, d) = x \o (Just(e) \o y)
    BY <2>5, <2>6 DEF Just
  <2>11. \E l \in Line : /\ l.tag = a /\ s = x \o (Just(l) \o y)
                         /\ e.val = IF l.val = Unreadable THEN l.val ELSE l.val + d
    BY <2>2, <2>4, <2>6, <2>9 DEF Just
  <2>12. QED
    BY <2>4, <2>7, <2>8, <2>10, <2>11
<1>6. QED
  BY <1>4, <1>5

-------------------------------------------------------------------------------
(* The header of a cut playlist.                                            *)

\* What advancePlaylistSequence does to each tag.
LEMMA AdvanceTags ==
  ASSUME NEW s \in Lists, NEW a \in Numbers, NEW d \in Nat
  PROVE  /\ Advance(s, a, d) \in Lists
         /\ \A b : b # a => With(Advance(s, a, d), b) = With(s, b)
         /\ s # <<>> /\ s[1].tag = "m3u" => Advance(s, a, d) # <<>> /\ Advance(s, a, d)[1] = s[1]
         /\ SequenceStart(s, a) # Unreadable =>
              SequenceStart(Advance(s, a, d), a) = SequenceStart(s, a) + d
<1>1. PICK x, y \in Lists, e \in Line :
           /\ With(x, a) = <<>> /\ e.tag = a /\ Advance(s, a, d) = x \o (Just(e) \o y)
           /\ s # <<>> /\ s[1].tag = "m3u" => x # <<>> /\ x[1] = s[1]
           /\ \/ s = x \o y /\ With(y, a) = <<>> /\ e.val = d
              \/ \E l \in Line : /\ l.tag = a /\ s = x \o (Just(l) \o y)
                                 /\ e.val = IF l.val = Unreadable THEN l.val ELSE l.val + d
  BY AdvanceIs
<1>2. Just(e) \o y \in Lists /\ x \o (Just(e) \o y) \in Lists
  <2>1. Just(e) \in Lists
    BY WithAround
  <2>2. QED
    BY <2>1, ListsJoin
<1>3. ASSUME NEW b, b # a PROVE With(x \o (Just(e) \o y), b) = With(s, b)
  <2>1. \A l \in Line : l.tag = a => With(x \o (Just(l) \o y), b) = With(x \o y, b)
    <3>1. ASSUME NEW l \in Line, l.tag = a
          PROVE  With(x \o (Just(l) \o y), b) = With(x \o y, b)
      <4>1. l.tag # b
        BY <1>3, <3>1
      <4>2. QED
        BY <4>1, WithAround
    <3>2. QED
      BY <3>1
  <2>2. QED
    BY <1>1, <2>1
<1>4. s # <<>> /\ s[1].tag = "m3u" => x \o (Just(e) \o y) # <<>> /\ (x \o (Just(e) \o y))[1] = s[1]
  BY <1>1, <1>2, BeginningStays
<1>5. \A l \in Line : l.tag = a => SequenceStart(x \o (Just(l) \o y), a) = l.val
  <2>1. SUFFICES ASSUME NEW l \in Line, l.tag = a
                 PROVE  SequenceStart(x \o (Just(l) \o y), a) = l.val
    OBVIOUS
  <2>2. With(x \o (Just(l) \o y), a) = With(x, a) \o (Just(l) \o With(y, a)) /\ Just(l) \in Lists
    <3>1. With(x \o (Just(l) \o y), l.tag) = With(x, l.tag) \o (Just(l) \o With(y, l.tag))
      BY WithInside
    <3>2. Just(l) \in Lists
      BY WithAround
    <3>3. QED
      BY <2>1, <3>1, <3>2
  <2>3. With(y, a) \in Lists /\ Just(l) \o With(y, a) \in Lists
    BY <2>2, WithJoin, ListsJoin
  <2>4. With(x \o (Just(l) \o y), a) = Just(l) \o With(y, a)
    BY <1>1, <2>2, <2>3, ListsJoin
  <2>5. Just(l) # <<>> /\ Just(l)[1] = l
    BY DEF Just
  <2>6. Just(l) \o With(y, a) # <<>> /\ (Just(l) \o With(y, a))[1] = l
    BY <2>2, <2>3, <2>5, BeginningStays
  <2>7. QED
    BY <2>4, <2>6 DEF SequenceStart
<1>6. ASSUME SequenceStart(s, a) # Unreadable
      PROVE  SequenceStart(x \o (Just(e) \o y), a) = SequenceStart(s, a) + d
  <2>1. SequenceStart(x \o (Just(e) \o y), a) = e.val
    BY <1>1, <1>5
  <2>2. CASE s = x \o y /\ With(y, a) = <<>> /\ e.val = d
    <3>1. With(s, a) = With(x, a) \o With(y, a)
      BY <2>2, WithJoin
    <3>2. <<>> \o <<>> = <<>>
      BY ListsJoin
    <3>3. SequenceStart(s, a) = 0
      BY <1>1, <2>2, <3>1, <3>2 DEF SequenceStart
    <3>4. QED
      BY <2>1, <2>2, <3>3
  <2>3. ASSUME NEW l \in Line, l.tag = a, s = x \o (Just(l) \o y),
               e.val = IF l.val = Unreadable THEN l.val ELSE l.val + d
        PROVE  e.val = SequenceStart(s, a) + d
    <3>1. SequenceStart(s, a) = l.val
      BY <1>5, <2>3
    <3>2. QED
      BY <1>6, <2>3, <3>1
  <2>4. QED
    BY <1>1, <2>1, <2>2, <2>3
<1>7. QED
  BY <1>1, <1>2, <1>3, <1>4, <1>6

\* The header of a cut list, made of what stood above the first segment and of the
\* lines that go.
HeaderOf(above, removed, n) ==
  LET breaks  == Len(With(removed, "discontinuity"))
      header  == Carry(Carry(above, removed, "key"), removed, "map")
      counted == Advance(Without(header, "start"), "sequence", n)
  IN IF breaks > 0 THEN Advance(counted, "discontinuitySequence", breaks) ELSE counted

\* What becomes of each tag.
LEMMA HeaderTags ==
  ASSUME NEW above \in Lists, NEW removed \in Lists, NEW n \in Nat
  PROVE  /\ HeaderOf(above, removed, n) \in Lists
         /\ With(HeaderOf(above, removed, n), "start") = <<>>
         /\ With(HeaderOf(above, removed, n), "key") = Latest(With(above \o removed, "key"))
         /\ With(HeaderOf(above, removed, n), "map") = Latest(With(above \o removed, "map"))
         /\ \A b : b \notin {"start", "key", "map", "sequence", "discontinuitySequence"}
                   => With(HeaderOf(above, removed, n), b) = With(above, b)
         /\ above # <<>> /\ above[1].tag = "m3u" =>
              HeaderOf(above, removed, n) # <<>> /\ HeaderOf(above, removed, n)[1] = above[1]
         /\ SequenceStart(above, "sequence") # Unreadable =>
              SequenceStart(HeaderOf(above, removed, n), "sequence")
                = SequenceStart(above, "sequence") + n
         /\ SequenceStart(above, "discontinuitySequence") # Unreadable =>
              SequenceStart(HeaderOf(above, removed, n), "discontinuitySequence")
                = SequenceStart(above, "discontinuitySequence")
                  + Len(With(removed, "discontinuity"))
<1>1. ASSUME NEW prefix,
         prefix = HeaderOf(above, removed, n)
      PROVE  /\ prefix \in Lists
             /\ With(prefix, "start") = <<>>
             /\ With(prefix, "key") = Latest(With(above \o removed, "key"))
             /\ With(prefix, "map") = Latest(With(above \o removed, "map"))
             /\ \A b : b \notin {"start", "key", "map", "sequence", "discontinuitySequence"}
                       => With(prefix, b) = With(above, b)
             /\ above # <<>> /\ above[1].tag = "m3u" => prefix # <<>> /\ prefix[1] = above[1]
             /\ SequenceStart(above, "sequence") # Unreadable =>
                  SequenceStart(prefix, "sequence") = SequenceStart(above, "sequence") + n
             /\ SequenceStart(above, "discontinuitySequence") # Unreadable =>
                  SequenceStart(prefix, "discontinuitySequence")
                    = SequenceStart(above, "discontinuitySequence")
                      + Len(With(removed, "discontinuity"))
  <2>1. ASSUME NEW keyed \in Lists, keyed = Carry(above, removed, "key"),
               NEW header \in Lists, header = Carry(keyed, removed, "map"),
               NEW started \in Lists, started = Without(header, "start"),
               NEW counted \in Lists, counted = Advance(started, "sequence", n),
               NEW breaks \in Nat, breaks = Len(With(removed, "discontinuity")),
               prefix = IF breaks > 0 THEN Advance(counted, "discontinuitySequence", breaks)
                        ELSE counted
        PROVE  /\ prefix \in Lists
               /\ With(prefix, "start") = <<>>
               /\ With(prefix, "key") = Latest(With(above \o removed, "key"))
               /\ With(prefix, "map") = Latest(With(above \o removed, "map"))
               /\ \A b : b \notin {"start", "key", "map", "sequence", "discontinuitySequence"}
                         => With(prefix, b) = With(above, b)
               /\ above # <<>> /\ above[1].tag = "m3u" => prefix # <<>> /\ prefix[1] = above[1]
               /\ SequenceStart(above, "sequence") # Unreadable =>
                    SequenceStart(prefix, "sequence") = SequenceStart(above, "sequence") + n
               /\ SequenceStart(above, "discontinuitySequence") # Unreadable =>
                    SequenceStart(prefix, "discontinuitySequence")
                      = SequenceStart(above, "discontinuitySequence") + breaks
    <3>1. \A b : With(keyed, b) = IF b = "key" THEN Latest(With(above \o removed, "key"))
                                  ELSE With(above, b)
      BY <1>1, <2>1, CarryTags
    <3>2. \A b : With(header, b) = IF b = "map" THEN Latest(With(keyed \o removed, "map"))
                                   ELSE With(keyed, b)
      BY <1>1, <2>1, CarryTags
    <3>3. With(keyed \o removed, "map") = With(above \o removed, "map")
      <4>1. With(keyed \o removed, "map") = With(keyed, "map") \o With(removed, "map")
        BY <1>1, <2>1, WithJoin
      <4>2. With(above \o removed, "map") = With(above, "map") \o With(removed, "map")
        BY <1>1, WithJoin
      <4>3. With(keyed, "map") = With(above, "map")
        BY <1>1, <3>1
      <4>4. QED
        BY <1>1, <4>1, <4>2, <4>3
    <3>4. \A b : With(started, b) = IF b = "start" THEN <<>> ELSE With(header, b)
      BY <1>1, <2>1, WithAfterWithout
    <3>5. /\ \A b : b # "sequence" => With(counted, b) = With(started, b)
          /\ SequenceStart(started, "sequence") # Unreadable =>
               SequenceStart(counted, "sequence") = SequenceStart(started, "sequence") + n
      <4>1. "sequence" \in Numbers
        BY <1>1 DEF Numbers
      <4>2. ASSUME NEW a \in Numbers, NEW r, r = Advance(started, a, n)
            PROVE  /\ \A b : b # a => With(r, b) = With(started, b)
                   /\ SequenceStart(started, a) # Unreadable =>
                        SequenceStart(r, a) = SequenceStart(started, a) + n
        BY <1>1, <4>2, AdvanceTags
      <4>3. QED
        BY <1>1, <2>1, <4>1, <4>2
    <3>6. /\ prefix \in Lists
          /\ \A b : b # "discontinuitySequence" => With(prefix, b) = With(counted, b)
          /\ SequenceStart(counted, "discontinuitySequence") # Unreadable =>
               SequenceStart(prefix, "discontinuitySequence")
                 = SequenceStart(counted, "discontinuitySequence") + breaks
      <4>1. CASE breaks > 0
        <5>1. "discontinuitySequence" \in Numbers
          BY <1>1 DEF Numbers
        <5>2. prefix = Advance(counted, "discontinuitySequence", breaks)
          BY <1>1, <2>1, <4>1
        <5>3. ASSUME NEW a \in Numbers, NEW r, r = Advance(counted, a, breaks)
              PROVE  /\ r \in Lists
                     /\ \A b : b # a => With(r, b) = With(counted, b)
                     /\ SequenceStart(counted, a) # Unreadable =>
                          SequenceStart(r, a) = SequenceStart(counted, a) + breaks
          BY <1>1, <5>3, AdvanceTags
        <5>4. QED
          BY <1>1, <5>1, <5>2, <5>3
      <4>2. CASE ~(breaks > 0)
        <5>1. breaks = 0 /\ prefix = counted
          BY <1>1, <2>1, <4>2
        <5>2. SequenceStart(counted, "discontinuitySequence") \in Int
          <6>1. With(counted, "discontinuitySequence") \in Seq(Line)
            BY <1>1, ChosenLines DEF Lists
          <6>2. ASSUME NEW w \in Seq(Line) PROVE (IF w = <<>> THEN 0 ELSE w[1].val) \in Int
            <7>1. CASE w = <<>>
              BY <1>1, <7>1
            <7>2. CASE w # <<>>
              <8>1. 1 \in 1 .. Len(w)
                BY <1>1, <7>2, EmptySeq, LenProperties
              <8>2. w[1] \in Line
                BY <1>1, <8>1, ElementOfSeq
              <8>3. QED
                BY <1>1, <7>2, <8>2 DEF Line
            <7>3. QED
              BY <1>1, <7>1, <7>2
          <6>3. QED
            BY <1>1, <6>1, <6>2 DEF SequenceStart
        <5>3. QED
          BY <1>1, <2>1, <5>1, <5>2
      <4>3. QED
        BY <1>1, <4>1, <4>2
    <3>7. /\ With(prefix, "start") = <<>>
          /\ With(prefix, "key") = Latest(With(above \o removed, "key"))
          /\ With(prefix, "map") = Latest(With(above \o removed, "map"))
      BY <1>1, <3>1, <3>2, <3>3, <3>4, <3>5, <3>6
    <3>8. \A b : b \notin {"start", "key", "map", "sequence", "discontinuitySequence"}
                 => With(prefix, b) = With(above, b)
      BY <1>1, <3>1, <3>2, <3>4, <3>5, <3>6
    <3>9. /\ SequenceStart(started, "sequence") = SequenceStart(above, "sequence")
          /\ SequenceStart(counted, "discontinuitySequence")
               = SequenceStart(above, "discontinuitySequence")
          /\ SequenceStart(prefix, "sequence") = SequenceStart(counted, "sequence")
      BY <1>1, <3>1, <3>2, <3>4, <3>5, <3>6 DEF SequenceStart
    <3>10. ASSUME above # <<>>, above[1].tag = "m3u" PROVE prefix # <<>> /\ prefix[1] = above[1]
      <4>1. keyed # <<>> /\ keyed[1] = above[1]
        BY <1>1, <2>1, <3>10, CarryBeginning
      <4>2. header # <<>> /\ header[1] = above[1]
        BY <1>1, <2>1, <3>10, <4>1, CarryBeginning
      <4>3. started # <<>> /\ started[1] = above[1]
        BY <1>1, <2>1, <3>10, <4>2, FirstStays DEF Lists
      <4>4. counted # <<>> /\ counted[1] = above[1]
        <5>1. "sequence" \in Numbers
          BY <1>1 DEF Numbers
        <5>2. QED
          BY <1>1, <2>1, <3>10, <4>3, <5>1, AdvanceTags
      <4>5. CASE breaks > 0
        <5>1. prefix = Advance(counted, "discontinuitySequence", breaks)
          BY <1>1, <2>1, <4>5
        <5>2. QED
          <6>1. "discontinuitySequence" \in Numbers
            BY <1>1 DEF Numbers
          <6>2. counted[1].tag = "m3u"
            BY <1>1, <3>10, <4>4
          <6>3. QED
            BY <1>1, <2>1, <4>4, <5>1, <6>1, <6>2, AdvanceTags
      <4>6. CASE ~(breaks > 0)
        BY <1>1, <2>1, <4>4, <4>6
      <4>7. QED
        BY <1>1, <4>5, <4>6
    <3>11. QED
      BY <1>1, <3>5, <3>6, <3>7, <3>8, <3>9, <3>10
  <2>2. Len(With(removed, "discontinuity")) \in Nat
    BY <1>1, ChosenLines, LenProperties DEF Lists
  <2>3. Carry(above, removed, "key") \in Lists
    BY <1>1, CarryTags
  <2>4. Carry(Carry(above, removed, "key"), removed, "map") \in Lists
    BY <1>1, <2>3, CarryTags
  <2>5. Without(Carry(Carry(above, removed, "key"), removed, "map"), "start") \in Lists
    BY <1>1, <2>4, WithJoin
  <2>6. Advance(Without(Carry(Carry(above, removed, "key"), removed, "map"), "start"),
                "sequence", n) \in Lists
    <3>1. "sequence" \in Numbers
      BY <1>1 DEF Numbers
    <3>2. QED
      BY <1>1, <2>5, <3>1, AdvanceTags
  <2>7. QED
    BY <1>1, <2>1, <2>2, <2>3, <2>4, <2>5, <2>6 DEF HeaderOf
<1>2. QED
  BY <1>1

-------------------------------------------------------------------------------
(* Where the addresses of a playlist stand.                                 *)

\* The members of a set, in ascending order.
Ascends(f, P) ==
  /\ f \in Seq(Nat)
  /\ \A i, j \in 1 .. Len(f) : i < j => f[i] < f[j]
  /\ \A i \in 1 .. Len(f) : f[i] \in P
  /\ \A p \in P : \E i \in 1 .. Len(f) : f[i] = p

\* No value comes twice, and what comes earlier is less.
LEMMA AscendsBack ==
  ASSUME NEW f, NEW P, Ascends(f, P), NEW i \in 1 .. Len(f), NEW j \in 1 .. Len(f)
  PROVE  /\ f[i] \in Nat /\ f[i] < f[j] => i < j
         /\ f[i] = f[j] => i = j
<1>1. Len(f) \in Nat /\ f[i] \in Nat /\ f[j] \in Nat
  BY LenProperties, ElementOfSeq DEF Ascends
<1>2. i < j => f[i] < f[j]
  BY DEF Ascends
<1>3. j < i => f[j] < f[i]
  BY DEF Ascends
<1>4. QED
  BY <1>1, <1>2, <1>3

\* As long as two enumerations of a set have agreed, the first does not run ahead.
LEMMA AscendsAlike ==
  ASSUME NEW f, NEW g, NEW P, Ascends(f, P), Ascends(g, P),
         NEW n \in 1 .. Len(f), n \in 1 .. Len(g), \A k \in 1 .. n - 1 : f[k] = g[k]
  PROVE  g[n] <= f[n]
<1>1. Len(f) \in Nat /\ Len(g) \in Nat
  BY LenProperties DEF Ascends
<1>2. f[n] \in P
  BY DEF Ascends
<1>3. PICK j \in 1 .. Len(g) : g[j] = f[n]
  BY <1>2 DEF Ascends
<1>4. ~(j < n)
  <2>1. SUFFICES ASSUME j < n PROVE FALSE
    OBVIOUS
  <2>2. j \in 1 .. n - 1 /\ j \in 1 .. Len(f)
    BY <1>1, <2>1
  <2>3. f[j] = f[n]
    BY <1>3, <2>2
  <2>4. QED
    BY <1>1, <2>1, <2>2, <2>3, AscendsBack
<1>5. g[n] \in Nat /\ (n < j => g[n] < g[j])
  BY ElementOfSeq DEF Ascends
<1>6. f[n] \in Nat
  BY ElementOfSeq DEF Ascends
<1>7. QED
  BY <1>1, <1>3, <1>4, <1>5, <1>6

\* A set has one such enumeration.
LEMMA AscendsOnce ==
  ASSUME NEW f, NEW g, NEW P, Ascends(f, P), Ascends(g, P)
  PROVE  f = g
<1> DEFINE G == {n \in Nat : \A k \in 1 .. n : k <= Len(f) /\ k <= Len(g) => f[k] = g[k]}
<1>0. Len(f) \in Nat /\ Len(g) \in Nat
  BY LenProperties DEF Ascends
<1>1. 0 \in G
  OBVIOUS
<1>2. ASSUME NEW n \in Nat, n \in G PROVE n + 1 \in G
  <2>1. SUFFICES ASSUME n + 1 <= Len(f), n + 1 <= Len(g) PROVE f[n + 1] = g[n + 1]
    BY <1>2
  <2>2. n + 1 \in 1 .. Len(f) /\ n + 1 \in 1 .. Len(g)
    BY <1>0, <2>1
  <2>3. \A k \in 1 .. (n + 1) - 1 : f[k] = g[k] /\ g[k] = f[k]
    BY <1>0, <1>2, <2>1
  <2>4. g[n + 1] <= f[n + 1]
    BY <2>2, <2>3, AscendsAlike
  <2>5. f[n + 1] <= g[n + 1]
    BY <2>2, <2>3, AscendsAlike
  <2>6. f[n + 1] \in Nat /\ g[n + 1] \in Nat
    BY <2>2, ElementOfSeq DEF Ascends
  <2>7. QED
    BY <2>4, <2>5, <2>6
<1> HIDE DEF G
<1>3. \A n \in Nat : n \in G
  BY <1>1, <1>2, NatSetInduction
<1>4. \A k \in Nat : 1 <= k /\ k <= Len(f) /\ k <= Len(g) => f[k] = g[k]
  BY <1>3 DEF G
<1>5. ASSUME NEW a, NEW b, Ascends(a, P), Ascends(b, P),
             \A k \in Nat : 1 <= k /\ k <= Len(a) /\ k <= Len(b) => a[k] = b[k]
      PROVE  ~(Len(a) < Len(b))
  <2>1. SUFFICES ASSUME Len(a) < Len(b) PROVE FALSE
    OBVIOUS
  <2>2. Len(a) \in Nat /\ Len(b) \in Nat
    BY <1>5, LenProperties DEF Ascends
  <2>3. Len(a) + 1 \in 1 .. Len(b)
    BY <2>1, <2>2
  <2>4. b[Len(a) + 1] \in P
    BY <1>5, <2>3 DEF Ascends
  <2>5. PICK i \in 1 .. Len(a) : a[i] = b[Len(a) + 1]
    BY <1>5, <2>4 DEF Ascends
  <2>6. i \in 1 .. Len(b) /\ b[i] = b[Len(a) + 1]
    BY <1>5, <2>1, <2>2, <2>5
  <2>7. i = Len(a) + 1
    BY <1>5, <2>3, <2>6, AscendsBack
  <2>8. QED
    BY <2>2, <2>5, <2>7
<1>6. Len(f) = Len(g)
  BY <1>0, <1>4, <1>5
<1>7. \A k \in 1 .. Len(f) : f[k] = g[k]
  BY <1>0, <1>4, <1>6
<1>8. f \in Seq(Nat) /\ g \in Seq(Nat)
  BY DEF Ascends
<1>9. QED
  BY <1>6, <1>7, <1>8, SeqEqual

\* What one more line does to the places of a tag.
LEMMA PlacesAppend ==
  ASSUME NEW s \in Seq(Line), NEW e \in Line, NEW tag
  PROVE  PlacesInOrder(Append(s, e), tag)
           = IF e.tag = tag THEN Append(PlacesInOrder(s, tag), Len(s) + 1)
             ELSE PlacesInOrder(s, tag)
<1> DEFINE t == Append(s, e)
           n == Len(s)
           all == [p \in DOMAIN s |-> p]
           more == [p \in DOMAIN t |-> p]
           P == PlacesOf(s, tag)
           Q == PlacesOf(t, tag)
<1>1. /\ DOMAIN s = 1 .. n /\ DOMAIN t = 1 .. n + 1 /\ n \in Nat
      /\ t[n + 1] = e /\ \A k \in 1 .. n : t[k] = s[k]
  OBVIOUS
<1>2. all \in Seq(1 .. n + 1) /\ Len(all) = n
  <2>1. \A k \in 1 .. n : k \in 1 .. n + 1
    BY <1>1
  <2>2. all \in [1 .. n -> 1 .. n + 1]
    BY <1>1, <2>1
  <2>3. QED
    BY <1>1, <2>2, IsASeq
<1>3. more = Append(all, n + 1)
  <2>1. more \in Seq(1 .. n + 1) /\ Len(more) = n + 1
    <3>1. more \in [1 .. n + 1 -> 1 .. n + 1]
      BY <1>1
    <3>2. QED
      BY <1>1, <3>1, IsASeq
  <2>2. /\ Append(all, n + 1) \in Seq(1 .. n + 1) /\ Len(Append(all, n + 1)) = n + 1
        /\ \A k \in 1 .. n + 1 : Append(all, n + 1)[k] = k
    <3>1. \A k \in 1 .. n : all[k] = k
      BY <1>1
    <3> HIDE DEF all
    <3>2. n + 1 \in 1 .. n + 1
      BY <1>1
    <3>3. QED
      BY <1>1, <1>2, <3>1, <3>2, AppendProperties
  <2>3. \A k \in 1 .. n + 1 : more[k] = k
    BY <1>1
  <2> HIDE DEF more, all
  <2>4. QED
    BY <2>1, <2>2, <2>3, SeqEqual
<1>4. (n + 1 \in Q <=> e.tag = tag) /\ \A k \in 1 .. n : k \in P <=> k \in Q
  BY <1>1 DEF PlacesOf
<1>5. n + 1 \in 1 .. n + 1
  BY <1>1
<1>6. PlacesInOrder(t, tag) = Chosen(more, Q) /\ PlacesInOrder(s, tag) = Chosen(all, P)
  BY DEF PlacesInOrder
<1> HIDE DEF all, more, P, Q
<1>7. Chosen(more, Q) = IF n + 1 \in Q THEN Append(Chosen(all, Q), n + 1) ELSE Chosen(all, Q)
  <2>1. \A S : \A u \in Seq(S), v \in S :
          Chosen(Append(u, v), Q) = IF Len(u) + 1 \in Q THEN Append(Chosen(u, Q), v)
                                    ELSE Chosen(u, Q)
    BY ChosenAppend
  <2>2. Chosen(Append(all, n + 1), Q)
          = IF Len(all) + 1 \in Q THEN Append(Chosen(all, Q), n + 1) ELSE Chosen(all, Q)
    BY <1>2, <1>5, <2>1
  <2>3. QED
    BY <1>2, <1>3, <2>2
<1>8. Chosen(all, P) = Chosen(all, Q)
  BY <1>2, <1>4, ChosenSame
<1>9. QED
  BY <1>4, <1>6, <1>7, <1>8

\* The places of a tag are enumerated in ascending order.
LEMMA PlacesAscend ==
  ASSUME NEW tag
  PROVE  \A s \in Seq(Line) : Ascends(PlacesInOrder(s, tag), PlacesOf(s, tag))
<1> DEFINE G == {s \in Seq(Line) : Ascends(PlacesInOrder(s, tag), PlacesOf(s, tag))}
<1>1. <<>> \in G
  <2>1. [p \in DOMAIN <<>> |-> p] = <<>> /\ PlacesOf(<<>>, tag) = {} /\ <<>> \in Seq(Line)
    BY DEF PlacesOf
  <2>2. PlacesInOrder(<<>>, tag) = <<>>
    BY <2>1, ChosenEmpty DEF PlacesInOrder
  <2>3. Ascends(<<>>, {})
    BY DEF Ascends
  <2>4. QED
    BY <2>1, <2>2, <2>3
<1>2. ASSUME NEW s \in Seq(Line), NEW e \in Line, s \in G PROVE Append(s, e) \in G
  <2>1. /\ DOMAIN s = 1 .. Len(s) /\ DOMAIN Append(s, e) = 1 .. Len(s) + 1 /\ Len(s) \in Nat
        /\ Append(s, e) \in Seq(Line)
        /\ Append(s, e)[Len(s) + 1] = e /\ \A k \in 1 .. Len(s) : Append(s, e)[k] = s[k]
    OBVIOUS
  <2>2. PlacesOf(Append(s, e), tag)
          = IF e.tag = tag THEN PlacesOf(s, tag) \cup {Len(s) + 1} ELSE PlacesOf(s, tag)
    BY <2>1 DEF PlacesOf
  <2>3. ASSUME NEW f, NEW P \in SUBSET (1 .. Len(s)), Ascends(f, P)
        PROVE  Ascends(Append(f, Len(s) + 1), P \cup {Len(s) + 1})
    <3>1. f \in Seq(Nat) /\ Len(f) \in Nat /\ Len(s) + 1 \in Nat
      BY <2>1, <2>3, LenProperties DEF Ascends
    <3>2. /\ Append(f, Len(s) + 1) \in Seq(Nat) /\ Len(Append(f, Len(s) + 1)) = Len(f) + 1
          /\ Append(f, Len(s) + 1)[Len(f) + 1] = Len(s) + 1
          /\ \A k \in 1 .. Len(f) : Append(f, Len(s) + 1)[k] = f[k]
      BY <3>1, AppendProperties
    <3>3. ASSUME NEW g, g = Append(f, Len(s) + 1) PROVE Ascends(g, P \cup {Len(s) + 1})
      <4>1. \A k \in 1 .. Len(f) : f[k] \in 1 .. Len(s)
        BY <2>3 DEF Ascends
      <4>2. \A i, j \in 1 .. Len(g) : i < j => g[i] < g[j]
        <5>1. SUFFICES ASSUME NEW i \in 1 .. Len(g), NEW j \in 1 .. Len(g), i < j
                       PROVE  g[i] < g[j]
          OBVIOUS
        <5>2. i \in 1 .. Len(f) /\ g[i] = f[i] /\ g[i] \in 1 .. Len(s)
          BY <3>1, <3>2, <3>3, <4>1, <5>1
        <5>3. CASE j = Len(f) + 1
          BY <2>1, <3>2, <3>3, <5>2, <5>3
        <5>4. CASE j # Len(f) + 1
          <6>1. j \in 1 .. Len(f) /\ g[j] = f[j]
            BY <3>1, <3>2, <3>3, <5>4
          <6>2. QED
            BY <2>3, <5>1, <5>2, <6>1 DEF Ascends
        <5>5. QED
          BY <5>3, <5>4
      <4>3. \A i \in 1 .. Len(g) : g[i] \in P \cup {Len(s) + 1}
        <5>1. \A i \in 1 .. Len(g) : i = Len(f) + 1 \/ i \in 1 .. Len(f)
          BY <3>1, <3>2, <3>3
        <5>2. \A i \in 1 .. Len(f) : g[i] \in P
          BY <2>3, <3>2, <3>3 DEF Ascends
        <5>3. QED
          BY <3>2, <3>3, <5>1, <5>2
      <4>4. \A p \in P \cup {Len(s) + 1} : \E i \in 1 .. Len(g) : g[i] = p
        <5>1. \A p \in P : \E i \in 1 .. Len(f) : f[i] = p
          BY <2>3 DEF Ascends
        <5>2. Len(f) + 1 \in 1 .. Len(g) /\ \A i \in 1 .. Len(f) : i \in 1 .. Len(g)
          BY <3>1, <3>2, <3>3
        <5>3. QED
          BY <3>2, <3>3, <5>1, <5>2
      <4>5. QED
        BY <3>2, <3>3, <4>2, <4>3, <4>4 DEF Ascends
    <3>4. QED
      BY <3>3
  <2>4. /\ PlacesOf(s, tag) \in SUBSET (1 .. Len(s))
        /\ Ascends(PlacesInOrder(s, tag), PlacesOf(s, tag))
    BY <1>2, <2>1 DEF PlacesOf
  <2>5. PlacesInOrder(Append(s, e), tag)
          = IF e.tag = tag THEN Append(PlacesInOrder(s, tag), Len(s) + 1)
            ELSE PlacesInOrder(s, tag)
    BY PlacesAppend
  <2>6. Ascends(PlacesInOrder(Append(s, e), tag), PlacesOf(Append(s, e), tag))
    <3>1. CASE e.tag = tag
      BY <2>2, <2>3, <2>4, <2>5, <3>1
    <3>2. CASE e.tag # tag
      BY <2>2, <2>4, <2>5, <3>2
    <3>3. QED
      BY <3>1, <3>2
  <2>7. QED
    BY <2>1, <2>6
<1> HIDE DEF G
<1>3. \A s \in Seq(Line) : s \in G
  BY <1>1, <1>2, SeqSetInduction
<1>4. QED
  BY <1>3 DEF G

\* The address that trimLivePlaylist takes for a segment whose EXTINF stands at a place.
AddressAfter(lines, p) ==
  LET U == {q \in p + 1 .. Len(lines) : lines[q].tag = "uri"} IN IF U # {} THEN Min(U) ELSE 0

\* It is the first one behind that place, if there is one.
LEMMA AddressAfterIs ==
  ASSUME NEW lines \in Seq(Line), NEW p \in 1 .. Len(lines), AddressAfter(lines, p) # 0
  PROVE  /\ AddressAfter(lines, p) \in PlacesOf(lines, "uri")
         /\ AddressAfter(lines, p) \in 1 .. Len(lines)
         /\ p < AddressAfter(lines, p)
         /\ \A q \in PlacesOf(lines, "uri") : p < q => AddressAfter(lines, p) <= q
<1> DEFINE U == {q \in p + 1 .. Len(lines) : lines[q].tag = "uri"}
           u == AddressAfter(lines, p)
<1>1. Len(lines) \in Nat /\ DOMAIN lines = 1 .. Len(lines) /\ p \in Nat
  BY LenProperties
<1>2. U \in SUBSET Nat
  BY <1>1
<1>3. u = Min(U) /\ U # {}
  BY DEF AddressAfter
<1>4. \A q : q \in U <=> q \in PlacesOf(lines, "uri") /\ p < q
  BY <1>1 DEF PlacesOf
<1> HIDE DEF U, u
<1>5. u \in U /\ \A q \in U : u <= q
  BY <1>2, <1>3, MinIs
<1>6. u \in PlacesOf(lines, "uri") /\ p < u /\ \A q \in PlacesOf(lines, "uri") : p < q => u <= q
  BY <1>4, <1>5
<1>7. u \in 1 .. Len(lines)
  BY <1>1, <1>6 DEF PlacesOf
<1>8. QED
  BY <1>6, <1>7 DEF u

\* In a list with segments as HLS has them, these are all of the addresses.
LEMMA AddressesMatch ==
  ASSUME NEW lines \in Seq(Line), Regular(lines),
         NEW infs, infs = PlacesInOrder(lines, "inf"),
         NEW uris, uris = [i \in 1 .. Len(infs) |-> AddressAfter(lines, infs[i])],
         \A i \in 1 .. Len(infs) : uris[i] # 0
  PROVE  /\ Len(infs) \in Nat /\ Len(uris) = Len(infs)
         /\ uris = PlacesInOrder(lines, "uri")
         /\ \A i \in 1 .. Len(infs) : infs[i] < uris[i]
         /\ \A i, j \in 1 .. Len(infs) : i < j => uris[i] < infs[j]
<1>1. /\ Ascends(infs, PlacesOf(lines, "inf"))
      /\ Ascends(PlacesInOrder(lines, "uri"), PlacesOf(lines, "uri"))
  BY PlacesAscend
<1>2. Len(infs) \in Nat /\ Len(lines) \in Nat /\ DOMAIN lines = 1 .. Len(lines)
  BY <1>1, LenProperties DEF Ascends
<1>3. \A i \in 1 .. Len(infs) : infs[i] \in PlacesOf(lines, "inf") /\ infs[i] \in 1 .. Len(lines)
  BY <1>1, <1>2 DEF Ascends, PlacesOf
<1>4. \A i \in 1 .. Len(infs) :
        /\ uris[i] \in PlacesOf(lines, "uri") /\ uris[i] \in 1 .. Len(lines) /\ infs[i] < uris[i]
        /\ \A q \in PlacesOf(lines, "uri") : infs[i] < q => uris[i] <= q
  <2>1. SUFFICES ASSUME NEW i \in 1 .. Len(infs)
        PROVE  /\ uris[i] \in PlacesOf(lines, "uri") /\ uris[i] \in 1 .. Len(lines)
               /\ infs[i] < uris[i]
               /\ \A q \in PlacesOf(lines, "uri") : infs[i] < q => uris[i] <= q
    OBVIOUS
  <2>2. uris[i] = AddressAfter(lines, infs[i]) /\ infs[i] \in 1 .. Len(lines) /\ uris[i] # 0
    BY <1>3
  <2>3. QED
    BY <2>2, AddressAfterIs
<1>5. \A i, j \in 1 .. Len(infs) : i < j => uris[i] < infs[j]
  <2>1. SUFFICES ASSUME NEW i \in 1 .. Len(infs), NEW j \in 1 .. Len(infs), i < j
                 PROVE  uris[i] < infs[j]
    OBVIOUS
  <2>2. infs[i] < infs[j]
    BY <1>1, <2>1 DEF Ascends
  <2>3. PICK u \in PlacesOf(lines, "uri") : infs[i] < u /\ u < infs[j]
    BY <1>3, <2>2 DEF Regular
  <2>4. uris[i] <= u
    BY <1>4, <2>3
  <2>5. u \in Nat /\ uris[i] \in Nat /\ infs[j] \in Nat
    BY <1>2, <1>3, <1>4 DEF PlacesOf
  <2>6. QED
    BY <2>3, <2>4, <2>5
<1>6. uris \in Seq(Nat) /\ Len(uris) = Len(infs)
  <2>1. uris \in [1 .. Len(infs) -> Nat]
    BY <1>4
  <2>2. QED
    BY <1>2, <2>1, IsASeq
<1>7. \A i, j \in 1 .. Len(uris) : i < j => uris[i] < uris[j]
  <2>1. SUFFICES ASSUME NEW i \in 1 .. Len(infs), NEW j \in 1 .. Len(infs), i < j
                 PROVE  uris[i] < uris[j]
    BY <1>6
  <2>2. uris[i] < infs[j] /\ infs[j] < uris[j]
    BY <1>4, <1>5, <2>1
  <2>3. uris[i] \in Nat /\ infs[j] \in Nat /\ uris[j] \in Nat
    BY <1>3, <1>4
  <2>4. QED
    BY <2>2, <2>3
<1>8. \A u \in PlacesOf(lines, "uri") : \E i \in 1 .. Len(uris) : uris[i] = u
  <2>1. SUFFICES ASSUME NEW u \in PlacesOf(lines, "uri") PROVE \E i \in 1 .. Len(uris) : uris[i] = u
    OBVIOUS
  <2>2. PICK p \in PlacesOf(lines, "inf") :
          p < u /\ \A v \in PlacesOf(lines, "uri") : v < u => v < p
    BY DEF Regular
  <2>3. PICK i \in 1 .. Len(infs) : infs[i] = p
    BY <1>1 DEF Ascends
  <2>4. uris[i] <= u
    BY <1>4, <2>2, <2>3
  <2>5. ~(uris[i] < u)
    <3>1. SUFFICES ASSUME uris[i] < u PROVE FALSE
      OBVIOUS
    <3>2. uris[i] < p /\ infs[i] < uris[i]
      BY <1>4, <2>2, <3>1
    <3>3. uris[i] \in Nat /\ infs[i] \in Nat
      BY <1>3, <1>4
    <3>4. QED
      BY <2>3, <3>2, <3>3
  <2>6. uris[i] \in Nat /\ u \in Nat
    BY <1>2, <1>4 DEF PlacesOf
  <2>7. QED
    BY <1>6, <2>4, <2>5, <2>6
<1>9. Ascends(uris, PlacesOf(lines, "uri"))
  BY <1>4, <1>6, <1>7, <1>8 DEF Ascends
<1>10. uris = PlacesInOrder(lines, "uri")
  BY <1>1, <1>9, AscendsOnce
<1>11. QED
  BY <1>2, <1>4, <1>5, <1>6, <1>10

\* The places of a tag in a list of two parts.
LEMMA JoinedPlaces ==
  ASSUME NEW x \in Seq(Line), NEW y \in Seq(Line), NEW tag,
         NEW X, X = PlacesInOrder(x, tag), NEW Y, Y = PlacesInOrder(y, tag)
  PROVE  /\ X \in Seq(1 .. Len(x)) /\ Y \in Seq(1 .. Len(y)) /\ Len(X) \in Nat /\ Len(Y) \in Nat
         /\ PlacesInOrder(x \o y, tag)
              = [k \in 1 .. Len(X) + Len(Y) |->
                   IF k <= Len(X) THEN X[k] ELSE Y[k - Len(X)] + Len(x)]
<1> DEFINE s == x \o y
           g == [k \in 1 .. Len(X) + Len(Y) |->
                   IF k <= Len(X) THEN X[k] ELSE Y[k - Len(X)] + Len(x)]
<1>1. /\ Ascends(X, PlacesOf(x, tag)) /\ Ascends(Y, PlacesOf(y, tag))
      /\ X \in Seq(1 .. Len(x)) /\ Y \in Seq(1 .. Len(y))
  BY PlacesAscend, PlacesLines
<1>2. /\ Len(x) \in Nat /\ Len(y) \in Nat /\ Len(X) \in Nat /\ Len(Y) \in Nat
      /\ s \in Seq(Line) /\ Len(s) = Len(x) + Len(y)
  BY <1>1, ConcatProperties, LenProperties
<1>3. /\ \A k \in 1 .. Len(x) : s[k] = x[k]
      /\ \A k \in 1 .. Len(y) : s[Len(x) + k] = y[k]
  <2>1. \A k \in 1 .. Len(x) + Len(y) : s[k] = IF k <= Len(x) THEN x[k] ELSE y[k - Len(x)]
    BY ConcatProperties
  <2>2. \A k \in 1 .. Len(x) : k \in 1 .. Len(x) + Len(y) /\ k <= Len(x)
    BY <1>2
  <2>3. \A k \in 1 .. Len(y) : /\ Len(x) + k \in 1 .. Len(x) + Len(y) /\ ~(Len(x) + k <= Len(x))
                              /\ (Len(x) + k) - Len(x) = k
    BY <1>2
  <2>4. QED
    BY <2>1, <2>2, <2>3
<1>4. /\ \A i \in 1 .. Len(X) : X[i] \in 1 .. Len(x) /\ X[i] \in PlacesOf(x, tag)
      /\ \A i \in 1 .. Len(Y) : Y[i] \in 1 .. Len(y) /\ Y[i] \in PlacesOf(y, tag)
  BY <1>1, ElementOfSeq DEF Ascends
<1>5. /\ DOMAIN s = 1 .. Len(x) + Len(y) /\ DOMAIN x = 1 .. Len(x) /\ DOMAIN y = 1 .. Len(y)
  BY <1>2, LenProperties
<1>6. /\ \A k \in 1 .. Len(X) : g[k] = X[k] /\ k \in 1 .. Len(X) + Len(Y)
      /\ \A k \in 1 .. Len(Y) : g[Len(X) + k] = Y[k] + Len(x) /\ Len(X) + k \in 1 .. Len(X) + Len(Y)
  <2>1. \A k \in 1 .. Len(X) : k \in 1 .. Len(X) + Len(Y) /\ k <= Len(X)
    BY <1>2
  <2>2. \A k \in 1 .. Len(Y) : /\ Len(X) + k \in 1 .. Len(X) + Len(Y) /\ ~(Len(X) + k <= Len(X))
                              /\ (Len(X) + k) - Len(X) = k
    BY <1>2
  <2>3. QED
    BY <2>1, <2>2
<1>7. \A k \in 1 .. Len(X) + Len(Y) : k \in 1 .. Len(X) \/ \E j \in 1 .. Len(Y) : k = Len(X) + j
  <2>1. SUFFICES ASSUME NEW k \in 1 .. Len(X) + Len(Y), k \notin 1 .. Len(X)
                 PROVE  \E j \in 1 .. Len(Y) : k = Len(X) + j
    OBVIOUS
  <2>2. k - Len(X) \in 1 .. Len(Y) /\ k = Len(X) + (k - Len(X))
    BY <1>2, <2>1
  <2>3. QED
    BY <2>2
<1>8. Len(g) = Len(X) + Len(Y) /\ g \in Seq(Nat)
  <2>1. \A k \in 1 .. Len(X) + Len(Y) : g[k] \in Nat
    <3> HIDE DEF g
    <3>1. QED
      <4>1. \A k \in 1 .. Len(X) : g[k] \in Nat
        BY <1>4, <1>6
      <4>2. \A k \in 1 .. Len(Y) : g[Len(X) + k] \in Nat
        <5>1. SUFFICES ASSUME NEW k \in 1 .. Len(Y) PROVE g[Len(X) + k] \in Nat
          OBVIOUS
        <5>2. g[Len(X) + k] = Y[k] + Len(x) /\ Y[k] \in 1 .. Len(y)
          BY <1>4, <1>6
        <5>3. QED
          BY <1>2, <5>2
      <4>3. QED
        BY <1>7, <4>1, <4>2
  <2>2. g \in [1 .. Len(X) + Len(Y) -> Nat]
    BY <2>1
  <2> HIDE DEF g
  <2>3. QED
    BY <1>2, <2>2, IsASeq
<1> HIDE DEF g, s
<1>9. \A i, j \in 1 .. Len(g) : i < j => g[i] < g[j]
  <2>1. SUFFICES ASSUME NEW i \in 1 .. Len(X) + Len(Y), NEW j \in 1 .. Len(X) + Len(Y), i < j
                 PROVE  g[i] < g[j]
    BY <1>8
  <2>2. CASE i \in 1 .. Len(X) /\ j \in 1 .. Len(X)
    BY <1>1, <1>6, <2>1, <2>2 DEF Ascends
  <2>3. CASE i \in 1 .. Len(X) /\ j \notin 1 .. Len(X)
    <3>1. PICK k \in 1 .. Len(Y) : j = Len(X) + k
      BY <1>7, <2>3
    <3>2. g[i] = X[i] /\ X[i] \in 1 .. Len(x) /\ g[j] = Y[k] + Len(x) /\ Y[k] \in 1 .. Len(y)
      BY <1>4, <1>6, <2>3, <3>1
    <3>3. QED
      BY <1>2, <3>2
  <2>4. CASE i \notin 1 .. Len(X) /\ j \in 1 .. Len(X)
    BY <1>2, <2>1, <2>4
  <2>5. CASE i \notin 1 .. Len(X) /\ j \notin 1 .. Len(X)
    <3>1. PICK k \in 1 .. Len(Y) : j = Len(X) + k
      BY <1>7, <2>5
    <3>2. PICK h \in 1 .. Len(Y) : i = Len(X) + h
      BY <1>7, <2>5
    <3>3. h < k
      BY <1>2, <2>1, <3>1, <3>2
    <3>4. Y[h] < Y[k] /\ Y[h] \in Nat /\ Y[k] \in Nat
      BY <1>1, <1>2, <1>4, <3>3 DEF Ascends
    <3>5. g[i] = Y[h] + Len(x) /\ g[j] = Y[k] + Len(x)
      BY <1>6, <3>1, <3>2
    <3>6. QED
      BY <1>2, <3>4, <3>5
  <2>6. QED
    BY <2>2, <2>3, <2>4, <2>5
<1>10. \A i \in 1 .. Len(g) : g[i] \in PlacesOf(s, tag)
  <2>1. \A i \in 1 .. Len(X) : g[i] \in PlacesOf(s, tag)
    <3>1. SUFFICES ASSUME NEW i \in 1 .. Len(X) PROVE g[i] \in PlacesOf(s, tag)
      OBVIOUS
    <3>2. g[i] = X[i] /\ X[i] \in 1 .. Len(x) /\ x[X[i]].tag = tag
      BY <1>4, <1>6 DEF PlacesOf
    <3>3. s[X[i]] = x[X[i]] /\ X[i] \in 1 .. Len(x) + Len(y)
      BY <1>2, <1>3, <3>2
    <3>4. QED
      BY <1>5, <3>2, <3>3 DEF PlacesOf
  <2>2. \A i \in 1 .. Len(Y) : g[Len(X) + i] \in PlacesOf(s, tag)
    <3>1. SUFFICES ASSUME NEW i \in 1 .. Len(Y) PROVE g[Len(X) + i] \in PlacesOf(s, tag)
      OBVIOUS
    <3>2. g[Len(X) + i] = Len(x) + Y[i] /\ Y[i] \in 1 .. Len(y) /\ y[Y[i]].tag = tag
      <4>1. g[Len(X) + i] = Y[i] + Len(x)
        BY <1>6
      <4>2. Y[i] \in 1 .. Len(y) /\ y[Y[i]].tag = tag
        BY <1>4 DEF PlacesOf
      <4>3. QED
        BY <1>2, <4>1, <4>2
    <3>3. s[Len(x) + Y[i]] = y[Y[i]] /\ Len(x) + Y[i] \in 1 .. Len(x) + Len(y)
      BY <1>2, <1>3, <3>2
    <3>4. QED
      BY <1>5, <3>2, <3>3 DEF PlacesOf
  <2>3. QED
    BY <1>7, <1>8, <2>1, <2>2
<1>11. \A p \in PlacesOf(s, tag) : \E i \in 1 .. Len(g) : g[i] = p
  <2>1. SUFFICES ASSUME NEW p \in PlacesOf(s, tag) PROVE \E i \in 1 .. Len(g) : g[i] = p
    OBVIOUS
  <2>2. p \in 1 .. Len(x) + Len(y) /\ s[p].tag = tag
    BY <1>5 DEF PlacesOf
  <2>3. CASE p \in 1 .. Len(x)
    <3>1. p \in PlacesOf(x, tag)
      BY <1>3, <1>5, <2>2, <2>3 DEF PlacesOf
    <3>2. PICK i \in 1 .. Len(X) : X[i] = p
      BY <1>1, <3>1 DEF Ascends
    <3>3. QED
      BY <1>6, <1>8, <3>2
  <2>4. CASE p \notin 1 .. Len(x)
    <3>1. p - Len(x) \in 1 .. Len(y) /\ Len(x) + (p - Len(x)) = p
      BY <1>2, <2>2, <2>4
    <3>2. p - Len(x) \in PlacesOf(y, tag)
      BY <1>3, <1>5, <2>2, <3>1 DEF PlacesOf
    <3>3. PICK i \in 1 .. Len(Y) : Y[i] = p - Len(x)
      BY <1>1, <3>2 DEF Ascends
    <3>4. g[Len(X) + i] = p
      <4>1. g[Len(X) + i] = (p - Len(x)) + Len(x)
        BY <1>6, <3>3
      <4>2. QED
        BY <1>2, <2>2, <4>1
    <3>5. QED
      BY <1>6, <1>8, <3>4
  <2>5. QED
    BY <2>3, <2>4
<1>12. Ascends(g, PlacesOf(s, tag))
  BY <1>8, <1>9, <1>10, <1>11 DEF Ascends
<1>13. Ascends(PlacesInOrder(s, tag), PlacesOf(s, tag))
  BY <1>2, PlacesAscend
<1>14. PlacesInOrder(s, tag) = g
  BY <1>12, <1>13, AscendsOnce
<1>15. QED
  BY <1>1, <1>2, <1>14 DEF g, s

-------------------------------------------------------------------------------
(* Where trimLivePlaylist cuts.                                             *)

\* A part of a list.
LEMMA PartIs ==
  ASSUME NEW s \in Lists, NEW m \in 1 .. Len(s) + 1, NEW n \in m - 1 .. Len(s)
  PROVE  /\ SubSeq(s, m, n) \in Lists /\ Len(SubSeq(s, m, n)) = n - m + 1
         /\ Len(SubSeq(s, m, n)) \in Nat
         /\ \A k \in 1 .. n - m + 1 : SubSeq(s, m, n)[k] = s[m + k - 1]
<1>1. ASSUME NEW x, x = SubSeq(s, m, n)
      PROVE  /\ x \in Lists /\ Len(x) = n - m + 1 /\ Len(x) \in Nat
             /\ \A k \in 1 .. n - m + 1 : x[k] = s[m + k - 1]
  <2>1. s \in Seq(Line) /\ Len(s) \in Nat /\ m \in Int /\ n \in Int
    BY <1>1, LenProperties DEF Lists
  <2>2. \A k \in m .. n : s[k] \in Line
    <3>1. \A k \in m .. n : k \in 1 .. Len(s)
      BY <1>1, <2>1
    <3>2. QED
      BY <1>1, <2>1, <3>1, ElementOfSeq
  <2>3. (IF m <= n THEN n - m + 1 ELSE 0) = n - m + 1 /\ n - m + 1 \in Nat
    BY <1>1, <2>1
  <2>4. /\ SubSeq(s, m, n) \in Seq(Line)
        /\ Len(SubSeq(s, m, n)) = IF m <= n THEN n - m + 1 ELSE 0
        /\ \A k \in 1 .. n - m + 1 : SubSeq(s, m, n)[k] = s[m + k - 1]
    BY <1>1, <2>1, <2>2, SubSeqProperties
  <2>5. QED
    BY <1>1, <2>3, <2>4 DEF Lists
<1>2. QED
  BY <1>1

\* A list in three parts.
LEMMA ThreeParts ==
  ASSUME NEW s \in Lists, NEW m \in 1 .. Len(s) + 1, NEW n \in m - 1 .. Len(s)
  PROVE  /\ SubSeq(s, 1, m - 1) \in Lists /\ SubSeq(s, m, n) \in Lists
         /\ SubSeq(s, n + 1, Len(s)) \in Lists
         /\ SubSeq(s, 1, m - 1) \o SubSeq(s, m, n) \in Lists
         /\ s = (SubSeq(s, 1, m - 1) \o SubSeq(s, m, n)) \o SubSeq(s, n + 1, Len(s))
         /\ Len(SubSeq(s, 1, m - 1)) = m - 1 /\ Len(SubSeq(s, m, n)) = n - m + 1
         /\ Len(SubSeq(s, n + 1, Len(s))) = Len(s) - n
         /\ Len(SubSeq(s, 1, m - 1) \o SubSeq(s, m, n)) = n
         /\ \A k \in 1 .. Len(SubSeq(s, 1, m - 1)) :
              k \in 1 .. Len(s) /\ SubSeq(s, 1, m - 1)[k] = s[k]
         /\ \A k \in 1 .. Len(SubSeq(s, m, n)) :
              m + k - 1 \in m .. n /\ SubSeq(s, m, n)[k] = s[m + k - 1]
         /\ \A k \in 1 .. Len(SubSeq(s, n + 1, Len(s))) :
              n + k \in n + 1 .. Len(s) /\ SubSeq(s, n + 1, Len(s))[k] = s[n + k]
<1>1. ASSUME NEW x, x = SubSeq(s, 1, m - 1), NEW y, y = SubSeq(s, m, n),
         NEW z, z = SubSeq(s, n + 1, Len(s))
      PROVE  /\ x \in Lists /\ y \in Lists
             /\ z \in Lists
             /\ x \o y \in Lists
             /\ s = (x \o y) \o z
             /\ Len(x) = m - 1 /\ Len(y) = n - m + 1
             /\ Len(z) = Len(s) - n
             /\ Len(x \o y) = n
             /\ \A k \in 1 .. Len(x) : k \in 1 .. Len(s) /\ x[k] = s[k]
             /\ \A k \in 1 .. Len(y) : m + k - 1 \in m .. n /\ y[k] = s[m + k - 1]
             /\ \A k \in 1 .. Len(z) : n + k \in n + 1 .. Len(s) /\ z[k] = s[n + k]
  <2>1. s \in Seq(Line) /\ Len(s) \in Nat /\ m \in Int /\ n \in Int
    BY <1>1, LenProperties DEF Lists
  <2>2. /\ x \in Lists /\ Len(x) = m - 1
        /\ \A k \in 1 .. m - 1 : k \in 1 .. Len(s) /\ x[k] = s[k]
    <3>1. 1 \in 1 .. Len(s) + 1 /\ m - 1 \in 1 - 1 .. Len(s)
      BY <1>1, <2>1
    <3>2. /\ x \in Lists /\ Len(x) = (m - 1) - 1 + 1
          /\ \A k \in 1 .. (m - 1) - 1 + 1 : x[k] = s[1 + k - 1]
      BY <1>1, <3>1, PartIs
    <3>3. (m - 1) - 1 + 1 = m - 1 /\ \A k \in 1 .. m - 1 : 1 + k - 1 = k /\ k \in 1 .. Len(s)
      BY <1>1, <2>1
    <3>4. QED
      BY <1>1, <3>2, <3>3
  <2>3. /\ y \in Lists /\ Len(y) = n - m + 1
        /\ \A k \in 1 .. n - m + 1 : m + k - 1 \in m .. n /\ y[k] = s[m + k - 1]
    <3>1. /\ y \in Lists /\ Len(y) = n - m + 1
          /\ \A k \in 1 .. n - m + 1 : y[k] = s[m + k - 1]
      BY <1>1, PartIs
    <3>2. \A k \in 1 .. n - m + 1 : m + k - 1 \in m .. n
      BY <1>1, <2>1
    <3>3. QED
      BY <1>1, <3>1, <3>2
  <2>4. /\ z \in Lists /\ Len(z) = Len(s) - n
        /\ \A k \in 1 .. Len(s) - n : n + k \in n + 1 .. Len(s) /\ z[k] = s[n + k]
    <3>1. n + 1 \in 1 .. Len(s) + 1 /\ Len(s) \in (n + 1) - 1 .. Len(s)
      BY <1>1, <2>1
    <3>2. /\ z \in Lists /\ Len(z) = Len(s) - (n + 1) + 1
          /\ \A k \in 1 .. Len(s) - (n + 1) + 1 : z[k] = s[(n + 1) + k - 1]
      BY <1>1, <3>1, PartIs
    <3>3. /\ Len(s) - (n + 1) + 1 = Len(s) - n
          /\ \A k \in 1 .. Len(s) - n : (n + 1) + k - 1 = n + k /\ n + k \in n + 1 .. Len(s)
      BY <1>1, <2>1
    <3>4. QED
      BY <1>1, <3>2, <3>3
  <2>5. x \o y = SubSeq(s, 1, n)
    <3>1. 1 \in 1 .. Len(s) + 1 /\ m - 1 \in 1 - 1 .. Len(s) /\ n \in (m - 1) - 1 .. Len(s)
          /\ n \in m - 1 .. Len(s)
      BY <1>1, <2>1
    <3>2. SubSeq(s, 1, m - 1) \o SubSeq(s, (m - 1) + 1, n) = SubSeq(s, 1, n)
      BY <1>1, <2>1, <3>1, ConcatAdjacentSubSeq
    <3>3. (m - 1) + 1 = m
      BY <1>1, <2>1
    <3>4. QED
      BY <1>1, <3>2, <3>3
  <2>6. (x \o y) \o z = s
    <3>1. 1 \in 1 .. Len(s) + 1 /\ n \in 1 - 1 .. Len(s) /\ Len(s) \in n .. Len(s)
      BY <1>1, <2>1
    <3>2. SubSeq(s, 1, n) \o SubSeq(s, n + 1, Len(s)) = SubSeq(s, 1, Len(s))
      BY <1>1, <2>1, <3>1, ConcatAdjacentSubSeq
    <3>3. SubSeq(s, 1, Len(s)) = s
      BY <1>1, <2>1, SubSeqFull
    <3>4. QED
      BY <1>1, <2>5, <3>2, <3>3
  <2>7. x \o y \in Lists /\ Len(x \o y) = n
    <3>1. x \o y \in Lists
      BY <1>1, <2>2, <2>3, ListsJoin
    <3>2. Len(x \o y) = Len(x) + Len(y)
      BY <1>1, <2>2, <2>3, ConcatProperties DEF Lists
    <3>3. QED
      BY <1>1, <2>1, <2>2, <2>3, <3>1, <3>2
  <2>8. QED
    BY <1>1, <2>2, <2>3, <2>4, <2>6, <2>7
<1>2. QED
  BY <1>1

\* Where a tag stands first.
FirstPlace(lines, tag) == SelectInSeq(lines, LAMBDA line : line.tag = tag)

\* That place is the one with none before.
LEMMA FirstPlaceIs ==
  ASSUME NEW s \in Lists, NEW tag, NEW i \in 1 .. Len(s), s[i].tag = tag,
         \A p \in 1 .. i - 1 : s[p].tag # tag
  PROVE  FirstPlace(s, tag) = i
<1> DEFINE I == {p \in 1 .. Len(s) : s[p].tag = tag}
<1>1. FirstPlace(s, tag) = IF I # {} THEN Min(I) ELSE 0
  BY DEF FirstPlace, SelectInSeq
<1>2. i \in I /\ I \in SUBSET Nat
  OBVIOUS
<1>3. \A p \in I : i <= p
  <2>1. Len(s) \in Nat
    BY LenProperties DEF Lists
  <2>2. QED
    BY <2>1
<1> HIDE DEF I
<1>4. Min(I) \in I /\ \A p \in I : Min(I) <= p
  BY <1>2, MinIs
<1>5. QED
  <2>1. Min(I) <= i /\ i <= Min(I) /\ Min(I) \in Nat /\ i \in Nat
    BY <1>2, <1>3, <1>4
  <2>2. I # {}
    BY <1>2
  <2>3. Min(I) = i
    BY <2>1
  <2>4. QED
    BY <1>1, <2>2, <2>3

\* Where trimLivePlaylist cuts a list: inf is the first EXTINF, u the address of the
\* last of n segments that go.
CutsAt(lines, inf, u, n) ==
  /\ n \in Nat \ {0} /\ inf \in 1 .. Len(lines) /\ u \in inf + 1 .. Len(lines)
  /\ lines[inf].tag = "inf" /\ \A p \in 1 .. inf - 1 : lines[p].tag # "inf"
  /\ \A p \in 1 .. inf - 1 : lines[p].tag # "uri"
  /\ PlacesInOrder(lines, "uri")[n] = u /\ Len(PlacesInOrder(lines, "uri")) = n + Keep
  /\ \E p \in u + 1 .. Len(lines) : lines[p].tag = "inf"
  /\ \A p \in inf .. Len(lines) :
       lines[p].tag \notin {"sequence", "discontinuitySequence", "start"}
  /\ Trim(lines).lines
       = HeaderOf(SubSeq(lines, 1, FirstSegmentTag(lines, inf) - 1),
                  SubSeq(lines, FirstSegmentTag(lines, inf), u), n)
         \o SubSeq(lines, u + 1, Len(lines))

\* It does so whenever it cuts; and it cuts every list with more segments, but for
\* those that it must leave whole or takes for malformed.
LEMMA TrimCuts ==
  ASSUME NEW lines \in Seq(Line), Regular(lines)
  PROVE  /\ Trim(lines).trimmed => \E inf, u, n : CutsAt(lines, inf, u, n)
         /\ ~Trim(lines).trimmed =>
              /\ Trim(lines).lines = lines
              /\ Trim(lines).live /\ ~Trim(lines).malformed =>
                   Len(PlacesInOrder(lines, "uri")) <= Keep
<1> DEFINE infs == PlacesInOrder(lines, "inf")
           uris == [i \in DOMAIN infs |-> AddressAfter(lines, infs[i])]
           cut == CutWindow(lines, infs, uris)
           n == Len(infs) - Keep
<1>1. Trim(lines) = IF MustStayWhole(lines) \/ infs = <<>> THEN NothingTrimmed(lines, FALSE, FALSE)
                    ELSE IF \E i \in DOMAIN uris : uris[i] = 0
                    THEN NothingTrimmed(lines, TRUE, TRUE)
                    ELSE IF Len(infs) <= Keep THEN NothingTrimmed(lines, TRUE, FALSE)
                    ELSE cut
  BY DEF Trim, SelectInSubSeq, AddressAfter
<1>3. cut.trimmed = TRUE
  BY DEF CutWindow
<1>4. /\ Ascends(infs, PlacesOf(lines, "inf")) /\ infs \in Seq(1 .. Len(lines))
      /\ Len(infs) \in Nat /\ DOMAIN infs = 1 .. Len(infs) /\ Len(lines) \in Nat
      /\ DOMAIN lines = 1 .. Len(lines)
  <2>1. Ascends(infs, PlacesOf(lines, "inf")) /\ infs \in Seq(1 .. Len(lines))
    BY PlacesAscend, PlacesLines
  <2> HIDE DEF infs
  <2>2. QED
    BY <2>1, LenProperties
<1> HIDE DEF infs
<1>5. uris = [i \in 1 .. Len(infs) |-> AddressAfter(lines, infs[i])] /\ DOMAIN uris = 1 .. Len(infs)
  BY <1>4
<1> HIDE DEF uris
<1>6. ASSUME \A i \in DOMAIN uris : uris[i] # 0
      PROVE  /\ Len(uris) = Len(infs) /\ uris = PlacesInOrder(lines, "uri")
             /\ \A i \in 1 .. Len(infs) : infs[i] < uris[i]
             /\ \A i, j \in 1 .. Len(infs) : i < j => uris[i] < infs[j]
  <2>1. \A i \in 1 .. Len(infs) : uris[i] # 0
    BY <1>5, <1>6
  <2>2. infs = PlacesInOrder(lines, "inf")
    BY DEF infs
  <2>3. QED
    BY <1>5, <2>1, <2>2, AddressesMatch
<1>7. ASSUME infs # <<>>, \A i \in DOMAIN uris : uris[i] # 0, ~(Len(infs) <= Keep),
             Trim(lines) = cut
      PROVE  \E inf, u : CutsAt(lines, inf, u, n)
  <2>1. /\ Keep \in Nat \ {0} /\ n \in Nat \ {0} /\ n \in 1 .. Len(infs) /\ 1 \in 1 .. Len(infs)
        /\ n + 1 \in 1 .. Len(infs) /\ n + Keep = Len(infs) /\ n < n + 1 /\ 1 <= n
    <3>1. Keep \in Nat \ {0}
      BY PlaylistAssumption
    <3>2. n = Len(infs) - Keep
      OBVIOUS
    <3> HIDE DEF n
    <3>3. ASSUME NEW a \in Nat, NEW k \in Nat \ {0}, ~(a <= k), NEW m, m = a - k
          PROVE  /\ m \in Nat \ {0} /\ m \in 1 .. a /\ 1 \in 1 .. a
                 /\ m + 1 \in 1 .. a /\ m + k = a /\ m < m + 1 /\ 1 <= m
      BY <3>3
    <3>4. Len(infs) \in Nat /\ ~(Len(infs) <= Keep)
      BY <1>4, <1>7
    <3>5. QED
      BY <3>1, <3>2, <3>3, <3>4
  <2> HIDE DEF n
  <2>2. Len(uris) = Len(infs) /\ uris = PlacesInOrder(lines, "uri")
    BY <1>6, <1>7
  <2>3. Ascends(uris, PlacesOf(lines, "uri")) /\ uris \in Seq(1 .. Len(lines))
    BY <2>2, PlacesAscend, PlacesLines
  <2> DEFINE inf == infs[1]
             u == uris[n]
  <2>4. inf \in 1 .. Len(lines) /\ u \in 1 .. Len(lines) /\ infs[n + 1] \in 1 .. Len(lines)
    BY <1>4, <2>1, <2>2, <2>3, ElementOfSeq
  <2>5. lines[inf].tag = "inf" /\ lines[infs[n + 1]].tag = "inf"
    BY <1>4, <2>1 DEF Ascends, PlacesOf
  <2>6. infs[1] < uris[1] /\ uris[n] < infs[n + 1] /\ uris[1] <= uris[n]
    <3>1. infs[1] < uris[1] /\ uris[n] < infs[n + 1]
      BY <1>6, <1>7, <2>1
    <3>2. CASE n = 1
      <4>1. uris[1] \in Nat
        BY <2>1, <2>4, <3>2
      <4>2. QED
        BY <3>1, <3>2, <4>1
    <3>3. CASE n # 1
      <4>1. 1 < n /\ 1 \in 1 .. Len(uris) /\ n \in 1 .. Len(uris)
        BY <2>1, <2>2, <3>3
      <4>2. uris[1] < uris[n] /\ uris[1] \in Nat /\ uris[n] \in Nat
        BY <2>3, <4>1, ElementOfSeq DEF Ascends
      <4>3. QED
        BY <3>1, <4>2
    <3>4. QED
      BY <3>2, <3>3
  <2>7. \A p \in 1 .. inf - 1 : lines[p].tag # "inf"
    <3>1. SUFFICES ASSUME NEW p \in 1 .. inf - 1, lines[p].tag = "inf" PROVE FALSE
      OBVIOUS
    <3>2. p \in PlacesOf(lines, "inf")
      BY <1>4, <2>4, <3>1 DEF PlacesOf
    <3>3. PICK i \in 1 .. Len(infs) : infs[i] = p
      BY <1>4, <3>2 DEF Ascends
    <3>4. i = 1 \/ 1 < i
      BY <1>4
    <3>5. infs[1] <= infs[i]
      <4>1. CASE i = 1
        BY <2>4, <4>1
      <4>2. CASE 1 < i
        <5>1. infs[1] < infs[i]
          BY <1>4, <2>1, <4>2 DEF Ascends
        <5>2. infs[i] \in Nat /\ infs[1] \in Nat
          BY <1>4, <2>1, ElementOfSeq DEF Ascends
        <5>3. QED
          BY <5>1, <5>2
      <4>3. QED
        BY <3>4, <4>1, <4>2
    <3>6. QED
      BY <2>4, <3>1, <3>3, <3>5
  <2>8. \A p \in 1 .. inf - 1 : lines[p].tag # "uri"
    <3>1. SUFFICES ASSUME NEW p \in 1 .. inf - 1, lines[p].tag = "uri" PROVE FALSE
      OBVIOUS
    <3>2. p \in PlacesOf(lines, "uri")
      BY <1>4, <2>4, <3>1 DEF PlacesOf
    <3>3. PICK q \in PlacesOf(lines, "inf") : q < p
      BY <3>2 DEF Regular
    <3>4. q \in 1 .. inf - 1 /\ lines[q].tag = "inf"
      BY <1>4, <2>4, <3>3 DEF PlacesOf
    <3>5. QED
      BY <2>7, <3>4
  <2>9. \A p \in inf .. Len(lines) :
          lines[p].tag \notin {"sequence", "discontinuitySequence", "start"}
    <3>1. SUFFICES ASSUME NEW p \in inf .. Len(lines),
                          lines[p].tag \in {"sequence", "discontinuitySequence", "start"}
                   PROVE  FALSE
      OBVIOUS
    <3>2. inf \in PlacesOf(lines, "inf") /\ p \in DOMAIN lines
      BY <1>4, <2>4, <2>5 DEF PlacesOf
    <3>3. p < inf
      BY <3>1, <3>2 DEF Regular
    <3>4. QED
      BY <2>4, <3>3
  <2>10. cut.lines = HeaderOf(SubSeq(lines, 1, FirstSegmentTag(lines, inf) - 1),
                              SubSeq(lines, FirstSegmentTag(lines, inf), u), n)
                     \o SubSeq(lines, u + 1, Len(lines))
    BY DEF CutWindow, HeaderOf, n
  <2> HIDE DEF inf, u, cut
  <2>11. u \in inf + 1 .. Len(lines) /\ infs[n + 1] \in u + 1 .. Len(lines)
    <3>1. uris[1] \in Nat
      BY <2>1, <2>2, <2>3, ElementOfSeq DEF Ascends
    <3>2. inf < u /\ u < infs[n + 1]
      BY <2>4, <2>6, <3>1 DEF inf, u
    <3>3. QED
      BY <2>4, <3>2
  <2>12. PlacesInOrder(lines, "uri")[n] = u /\ Len(PlacesInOrder(lines, "uri")) = n + Keep
    BY <2>1, <2>2 DEF u
  <2>13. CutsAt(lines, inf, u, n)
    <3>1. Trim(lines).lines = cut.lines
      BY <1>7
    <3>2. QED
      BY <2>1, <2>4, <2>5, <2>7, <2>8, <2>9, <2>10, <2>11, <2>12, <3>1 DEF CutsAt
  <2>14. QED
    BY <2>13
<1> HIDE DEF cut, n
<1>8. CASE MustStayWhole(lines) \/ infs = <<>>
  <2>1. /\ ~NothingTrimmed(lines, FALSE, FALSE).trimmed
        /\ NothingTrimmed(lines, FALSE, FALSE).lines = lines
        /\ ~NothingTrimmed(lines, FALSE, FALSE).live
    BY DEF NothingTrimmed
  <2>2. Trim(lines) = NothingTrimmed(lines, FALSE, FALSE)
    BY <1>1, <1>8
  <2>3. QED
    BY <2>1, <2>2
<1>9. CASE ~(MustStayWhole(lines) \/ infs = <<>>) /\ \E i \in DOMAIN uris : uris[i] = 0
  <2>1. /\ ~NothingTrimmed(lines, TRUE, TRUE).trimmed
        /\ NothingTrimmed(lines, TRUE, TRUE).lines = lines
        /\ NothingTrimmed(lines, TRUE, TRUE).malformed
    BY DEF NothingTrimmed
  <2>2. Trim(lines) = NothingTrimmed(lines, TRUE, TRUE)
    BY <1>1, <1>9
  <2>3. QED
    BY <2>1, <2>2
<1>10. CASE /\ ~(MustStayWhole(lines) \/ infs = <<>>)
            /\ ~\E i \in DOMAIN uris : uris[i] = 0
            /\ Len(infs) <= Keep
  <2>1. Trim(lines) = NothingTrimmed(lines, TRUE, FALSE)
    BY <1>1, <1>10
  <2>2. Len(PlacesInOrder(lines, "uri")) <= Keep
    <3>1. Len(uris) = Len(infs) /\ uris = PlacesInOrder(lines, "uri")
      BY <1>6, <1>10
    <3>2. QED
      BY <1>10, <3>1
  <2>3. /\ ~NothingTrimmed(lines, TRUE, FALSE).trimmed
        /\ NothingTrimmed(lines, TRUE, FALSE).lines = lines
    BY DEF NothingTrimmed
  <2>4. QED
    BY <2>1, <2>2, <2>3
<1>11. CASE /\ ~(MustStayWhole(lines) \/ infs = <<>>)
            /\ ~\E i \in DOMAIN uris : uris[i] = 0
            /\ ~(Len(infs) <= Keep)
  <2>1. Trim(lines) = cut
    BY <1>1, <1>11
  <2>2. \E inf, u : CutsAt(lines, inf, u, n)
    BY <1>7, <1>11, <2>1
  <2>3. QED
    BY <1>3, <2>1, <2>2
<1>12. QED
  BY <1>8, <1>9, <1>10, <1>11

\* The lines of a list in two parts.
LEMMA JoinIs ==
  ASSUME NEW x \in Lists, NEW y \in Lists
  PROVE  /\ (x \o y) \in Lists /\ Len(x \o y) = Len(x) + Len(y)
         /\ Len(x \o y) \in Nat /\ Len(x) \in Nat /\ Len(y) \in Nat
         /\ \A k \in 1 .. Len(x) : k \in 1 .. Len(x \o y) /\ (x \o y)[k] = x[k]
         /\ \A k \in 1 .. Len(y) : Len(x) + k \in 1 .. Len(x \o y) /\ (x \o y)[Len(x) + k] = y[k]
<1>1. ASSUME NEW s, s = x \o y
      PROVE  /\ s \in Lists /\ Len(s) = Len(x) + Len(y)
             /\ Len(s) \in Nat /\ Len(x) \in Nat /\ Len(y) \in Nat
             /\ \A k \in 1 .. Len(x) : k \in 1 .. Len(s) /\ s[k] = x[k]
             /\ \A k \in 1 .. Len(y) : Len(x) + k \in 1 .. Len(s) /\ s[Len(x) + k] = y[k]
  <2>1. x \in Seq(Line) /\ y \in Seq(Line) /\ Len(x) \in Nat /\ Len(y) \in Nat
    BY <1>1, LenProperties DEF Lists
  <2>2. /\ Len(s) = Len(x) + Len(y)
        /\ \A k \in 1 .. Len(x) + Len(y) : s[k] = IF k <= Len(x) THEN x[k] ELSE y[k - Len(x)]
    BY <1>1, <2>1, ConcatProperties
  <2>3. s \in Lists
    BY <1>1, ListsJoin
  <2>4. \A k \in 1 .. Len(x) : k \in 1 .. Len(x) + Len(y) /\ k <= Len(x)
    BY <1>1, <2>1
  <2>5. \A k \in 1 .. Len(y) : /\ Len(x) + k \in 1 .. Len(x) + Len(y) /\ ~(Len(x) + k <= Len(x))
                               /\ (Len(x) + k) - Len(x) = k
    BY <1>1, <2>1
  <2>6. QED
    BY <1>1, <2>1, <2>2, <2>3, <2>4, <2>5
<1>2. QED
  BY <1>1

\* A piece of the second part.
LEMMA PieceBehind ==
  ASSUME NEW x \in Lists, NEW y \in Lists, NEW m \in 1 .. Len(y) + 1, NEW k \in m - 1 .. Len(y)
  PROVE  /\ SubSeq(x \o y, Len(x) + m, Len(x) + k) = SubSeq(y, m, k)
         /\ SubSeq(y, m, k) \in Lists
<1>1. ASSUME NEW s, s = x \o y, NEW a, a = SubSeq(s, Len(x) + m, Len(x) + k),
             NEW b, b = SubSeq(y, m, k)
      PROVE  a = b /\ b \in Lists
  <2>1. /\ s \in Lists /\ Len(s) = Len(x) + Len(y)
        /\ Len(s) \in Nat /\ Len(x) \in Nat /\ Len(y) \in Nat
        /\ \A i \in 1 .. Len(x) : i \in 1 .. Len(s) /\ s[i] = x[i]
        /\ \A i \in 1 .. Len(y) : Len(x) + i \in 1 .. Len(s) /\ s[Len(x) + i] = y[i]
    BY <1>1, JoinIs
  <2>2. Len(x) + m \in 1 .. Len(s) + 1 /\ Len(x) + k \in (Len(x) + m) - 1 .. Len(s)
    BY <2>1
  <2>3. /\ a \in Lists /\ Len(a) = (Len(x) + k) - (Len(x) + m) + 1
        /\ \A i \in 1 .. (Len(x) + k) - (Len(x) + m) + 1 : a[i] = s[(Len(x) + m) + i - 1]
    BY <1>1, <2>1, <2>2, PartIs
  <2>4. /\ b \in Lists /\ Len(b) = k - m + 1
        /\ \A i \in 1 .. k - m + 1 : b[i] = y[m + i - 1]
    BY <1>1, PartIs
  <2>5. /\ (Len(x) + k) - (Len(x) + m) + 1 = k - m + 1
        /\ \A i \in 1 .. k - m + 1 : /\ (Len(x) + m) + i - 1 = Len(x) + (m + i - 1)
                                     /\ m + i - 1 \in 1 .. Len(y)
    BY <2>1
  <2>6. \A i \in 1 .. k - m + 1 : a[i] = b[i]
    BY <2>1, <2>3, <2>4, <2>5
  <2>7. QED
    BY <2>3, <2>4, <2>5, <2>6, SameLists
<1>2. QED
  BY <1>1

\* A beginning that takes in the whole of the first part.
LEMMA BeginningAcross ==
  ASSUME NEW x \in Lists, NEW y \in Lists, NEW k \in 0 .. Len(y)
  PROVE  SubSeq(x \o y, 1, Len(x) + k) = x \o SubSeq(y, 1, k)
<1>1. ASSUME NEW s, s = x \o y
      PROVE  SubSeq(s, 1, Len(x) + k) = x \o SubSeq(y, 1, k)
  <2>1. /\ s \in Lists /\ Len(s) = Len(x) + Len(y)
        /\ Len(s) \in Nat /\ Len(x) \in Nat /\ Len(y) \in Nat
        /\ \A i \in 1 .. Len(x) : i \in 1 .. Len(s) /\ s[i] = x[i]
        /\ \A i \in 1 .. Len(y) : Len(x) + i \in 1 .. Len(s) /\ s[Len(x) + i] = y[i]
    BY <1>1, JoinIs
  <2>2. /\ 1 \in 1 .. Len(s) + 1 /\ Len(x) \in 1 - 1 .. Len(s) /\ Len(x) + k \in Len(x) .. Len(s)
        /\ 1 \in 1 .. Len(y) + 1 /\ k \in 1 - 1 .. Len(y)
    BY <2>1
  <2>3. SubSeq(s, 1, Len(x)) \o SubSeq(s, Len(x) + 1, Len(x) + k) = SubSeq(s, 1, Len(x) + k)
    BY <2>1, <2>2, ConcatAdjacentSubSeq DEF Lists
  <2>4. SubSeq(s, Len(x) + 1, Len(x) + k) = SubSeq(y, 1, k)
    BY <1>1, <2>2, PieceBehind
  <2>5. ASSUME NEW a, a = SubSeq(s, 1, Len(x)) PROVE a = x
    <3>1. /\ a \in Lists /\ Len(a) = Len(x) - 1 + 1
          /\ \A i \in 1 .. Len(x) - 1 + 1 : a[i] = s[1 + i - 1]
      BY <2>1, <2>2, <2>5, PartIs
    <3>2. Len(x) - 1 + 1 = Len(x) /\ \A i \in 1 .. Len(x) : 1 + i - 1 = i
      BY <2>1
    <3>3. \A i \in 1 .. Len(x) : a[i] = x[i]
      BY <2>1, <3>1, <3>2
    <3>4. QED
      BY <3>1, <3>2, <3>3, SameLists
  <2>6. QED
    BY <2>3, <2>4, <2>5
<1>2. QED
  BY <1>1

\* The tags ahead of a segment are about it alone.
LEMMA FirstTagLeads ==
  ASSUME NEW lines, NEW inf \in Nat \ {0}
  PROVE  \A p \in FirstSegmentTag(lines, inf) .. inf - 1 : lines[p].tag \in SegmentTags
<1> DEFINE S == {s \in 1 .. inf : \A p \in s .. inf - 1 : lines[p].tag \in SegmentTags}
<1>1. inf \in S /\ S \in SUBSET Nat
  OBVIOUS
<1>2. Min(S) \in S
  <2> HIDE DEF S
  <2>1. QED
    BY <1>1, MinIs
<1>3. QED
  BY <1>2 DEF FirstSegmentTag

\* The pieces of a cut list: its own header, the lines that go, the lines that stay, and
\* the new header.
Pieces(lines, inf, u, n, first, above, removed, rest, prefix) ==
  /\ first = FirstSegmentTag(lines, inf) /\ first \in 1 .. inf
  /\ n \in Nat \ {0} /\ inf \in 1 .. Len(lines) /\ u \in inf + 1 .. Len(lines)
  /\ Len(lines) \in Nat
  /\ above = SubSeq(lines, 1, first - 1) /\ prefix = HeaderOf(above, removed, n)
  /\ above \in Lists /\ removed \in Lists /\ rest \in Lists /\ prefix \in Lists
  /\ lines = (above \o removed) \o rest /\ Trim(lines).lines = prefix \o rest
  /\ Len(above) = first - 1 /\ Len(above \o removed) = u /\ Len(rest) = Len(lines) - u
  /\ \A k \in 1 .. Len(above) : k \in 1 .. inf - 1 /\ above[k] = lines[k]
  /\ \A k \in 1 .. Len(rest) : u + k \in u + 1 .. Len(lines) /\ rest[k] = lines[u + k]
  /\ \A b \in {"inf", "uri"} : With(above, b) = <<>>
  /\ \A b \in {"sequence", "discontinuitySequence", "start"} :
       With(removed, b) = <<>> /\ With(rest, b) = <<>>

\* A cut list has them.
LEMMA CutPieces ==
  ASSUME NEW lines \in Lists, NEW inf, NEW u, NEW n, CutsAt(lines, inf, u, n)
  PROVE  \E first, above, removed, rest, prefix :
           Pieces(lines, inf, u, n, first, above, removed, rest, prefix)
<1>1. ASSUME NEW first, first = FirstSegmentTag(lines, inf),
             NEW above, above = SubSeq(lines, 1, first - 1),
             NEW removed, removed = SubSeq(lines, first, u),
             NEW rest, rest = SubSeq(lines, u + 1, Len(lines)),
             NEW prefix, prefix = HeaderOf(above, removed, n)
      PROVE  Pieces(lines, inf, u, n, first, above, removed, rest, prefix)
  <2>1. /\ n \in Nat \ {0} /\ inf \in 1 .. Len(lines) /\ u \in inf + 1 .. Len(lines)
        /\ \A p \in 1 .. inf - 1 : lines[p].tag \notin {"inf", "uri"}
        /\ \A p \in inf .. Len(lines) :
             lines[p].tag \notin {"sequence", "discontinuitySequence", "start"}
        /\ Trim(lines).lines = prefix \o rest
    BY <1>1 DEF CutsAt
  <2>2. Len(lines) \in Nat
    BY LenProperties DEF Lists
  <2>3. first \in 1 .. inf /\ \A p \in first .. inf - 1 : lines[p].tag \in SegmentTags
    BY <1>1, <2>1, <2>2, FirstTagIs, FirstTagLeads
  <2>4. first \in 1 .. Len(lines) + 1 /\ u \in first - 1 .. Len(lines)
    BY <2>1, <2>2, <2>3
  <2>5. /\ above \in Lists /\ removed \in Lists /\ rest \in Lists
        /\ lines = (above \o removed) \o rest
        /\ Len(above) = first - 1 /\ Len(removed) = u - first + 1 /\ Len(rest) = Len(lines) - u
        /\ Len(above \o removed) = u
        /\ \A k \in 1 .. Len(above) : k \in 1 .. Len(lines) /\ above[k] = lines[k]
        /\ \A k \in 1 .. Len(removed) :
             first + k - 1 \in first .. u /\ removed[k] = lines[first + k - 1]
        /\ \A k \in 1 .. Len(rest) : u + k \in u + 1 .. Len(lines) /\ rest[k] = lines[u + k]
    <3>1. /\ SubSeq(lines, 1, first - 1) \in Lists /\ SubSeq(lines, first, u) \in Lists
          /\ SubSeq(lines, u + 1, Len(lines)) \in Lists
          /\ SubSeq(lines, 1, first - 1) \o SubSeq(lines, first, u) \in Lists
          /\ lines = (SubSeq(lines, 1, first - 1) \o SubSeq(lines, first, u))
                        \o SubSeq(lines, u + 1, Len(lines))
          /\ Len(SubSeq(lines, 1, first - 1)) = first - 1
          /\ Len(SubSeq(lines, first, u)) = u - first + 1
          /\ Len(SubSeq(lines, u + 1, Len(lines))) = Len(lines) - u
          /\ Len(SubSeq(lines, 1, first - 1) \o SubSeq(lines, first, u)) = u
          /\ \A k \in 1 .. Len(SubSeq(lines, 1, first - 1)) :
               k \in 1 .. Len(lines) /\ SubSeq(lines, 1, first - 1)[k] = lines[k]
          /\ \A k \in 1 .. Len(SubSeq(lines, first, u)) :
               first + k - 1 \in first .. u /\ SubSeq(lines, first, u)[k] = lines[first + k - 1]
          /\ \A k \in 1 .. Len(SubSeq(lines, u + 1, Len(lines))) :
               u + k \in u + 1 .. Len(lines) /\ SubSeq(lines, u + 1, Len(lines))[k] = lines[u + k]
      BY <2>4, ThreeParts
    <3>2. QED
      BY <1>1, <3>1
  <2>6. \A k \in 1 .. Len(above) : k \in 1 .. inf - 1
    <3>1. inf \in Nat
      BY <2>1, <2>2
    <3>2. first \in 1 .. inf
      BY <2>3
    <3>3. Len(above) = first - 1
      BY <2>5
    <3>4. QED
      BY <3>1, <3>2, <3>3
  <2>7. \A b \in {"inf", "uri"} : With(above, b) = <<>>
    <3>1. SUFFICES ASSUME NEW b \in {"inf", "uri"} PROVE With(above, b) = <<>>
      OBVIOUS
    <3>2. \A k \in 1 .. Len(above) : above[k].tag # b
      BY <2>1, <2>5, <2>6
    <3>3. QED
      <4>1. ASSUME NEW s \in Lists, NEW t, \A k \in 1 .. Len(s) : s[k].tag # t
            PROVE  With(s, t) = <<>>
        BY <4>1, WithNowhere
      <4>2. QED
        BY <2>5, <3>2, <4>1
  <2>8. \A b \in {"sequence", "discontinuitySequence", "start"} :
          With(removed, b) = <<>> /\ With(rest, b) = <<>>
    <3>1. SUFFICES ASSUME NEW b \in {"sequence", "discontinuitySequence", "start"}
                   PROVE  With(removed, b) = <<>> /\ With(rest, b) = <<>>
      OBVIOUS
    <3>2. b \notin SegmentTags
      BY DEF SegmentTags
    <3>3. \A p \in first .. Len(lines) : lines[p].tag # b
      <4>1. \A p \in first .. inf - 1 : lines[p].tag # b
        BY <2>3, <3>2
      <4>2. \A p \in inf .. Len(lines) : lines[p].tag # b
        BY <2>1
      <4>3. \A p \in first .. Len(lines) : p \in first .. inf - 1 \/ p \in inf .. Len(lines)
        BY <2>1, <2>2, <2>3
      <4>4. QED
        BY <4>1, <4>2, <4>3
    <3>4. \A k \in 1 .. Len(removed) : removed[k].tag # b
      <4>1. \A p \in first .. u : p \in first .. Len(lines)
        BY <2>1, <2>2, <2>3
      <4>2. QED
        BY <2>5, <3>3, <4>1
    <3>5. \A k \in 1 .. Len(rest) : rest[k].tag # b
      <4>1. \A p \in u + 1 .. Len(lines) : p \in first .. Len(lines)
        BY <2>1, <2>2, <2>3
      <4>2. QED
        BY <2>5, <3>3, <4>1
    <3>6. QED
      <4>1. ASSUME NEW s \in Lists, NEW t, \A k \in 1 .. Len(s) : s[k].tag # t
            PROVE  With(s, t) = <<>>
        BY <4>1, WithNowhere
      <4>2. QED
        BY <2>5, <3>4, <3>5, <4>1
  <2>9. prefix \in Lists
    <3>1. n \in Nat
      BY <2>1
    <3>2. QED
      BY <1>1, <2>5, <3>1, HeaderTags
  <2>10. QED
    BY <1>1, <2>1, <2>2, <2>3, <2>5, <2>6, <2>7, <2>8, <2>9 DEF Pieces
<1>2. QED
  BY <1>1

-------------------------------------------------------------------------------
(* What is said of a whole playlist.                                        *)

\* What begins with a list has it as a prefix.
LEMMA BeginsWith ==
  ASSUME NEW x \in Lists, NEW y \in Lists
  PROVE  IsPrefix(x, x \o y)
<1>1. Len(x) \in Nat /\ Len(y) \in Nat /\ Len(x \o y) = Len(x) + Len(y)
  BY JoinIs
<1>2. 0 \in 0 .. Len(y) /\ Len(x) + 0 = Len(x)
  BY <1>1
<1>3. SubSeq(x \o y, 1, Len(x) + 0) = x \o SubSeq(y, 1, 0)
  BY <1>2, BeginningAcross
<1>4. SubSeq(y, 1, 0) = <<>> /\ x \o <<>> = x
  BY SubSeqEmpty, ListsJoin
<1>5. SubSeq(x, 1, Len(x)) = x
  BY SubSeqFull DEF Lists
<1>6. QED
  BY <1>1, <1>2, <1>3, <1>4, <1>5 DEF IsPrefix

\* The lines of a selection that leaves out a tag elsewhere.
LEMMA NoneOf ==
  ASSUME NEW s \in Lists, NEW tag, \A p \in 1 .. Len(s) : s[p].tag # tag
  PROVE  With(s, tag) = <<>>
  BY WithNowhere

\* The header of a list that trimLivePlaylist has cut.
LEMMA HeaderStands ==
  ASSUME NEW lines \in Lists, NEW cut \in Lists, NEW inf, NEW u, NEW n,
         CutsAt(lines, inf, u, n), cut = Trim(lines).lines
  PROVE  \E i \in 1 .. Len(cut) :
           /\ FirstPlace(lines, "inf") = inf /\ FirstPlace(cut, "inf") = i
           /\ lines[1].tag = "m3u" => cut[1].tag = "m3u"
           /\ IsPrefix(With(SubSeq(lines, 1, inf), "other"), With(SubSeq(cut, 1, i), "other"))
           /\ \A p \in 1 .. i : cut[p].tag # "start"
<1>1. PICK first, above, removed, rest, prefix :
           Pieces(lines, inf, u, n, first, above, removed, rest, prefix)
  BY CutPieces
<1>2. first = FirstSegmentTag(lines, inf) /\ above = SubSeq(lines, 1, first - 1)
  BY <1>1 DEF Pieces
<1>6. /\ n \in Nat \ {0} /\ inf \in 1 .. Len(lines) /\ u \in inf + 1 .. Len(lines)
      /\ first \in 1 .. inf /\ Len(lines) \in Nat
      /\ above \in Lists /\ removed \in Lists /\ rest \in Lists /\ prefix \in Lists
      /\ lines = (above \o removed) \o rest /\ Trim(lines).lines = prefix \o rest
      /\ Len(above) = first - 1 /\ Len(above \o removed) = u /\ Len(rest) = Len(lines) - u
      /\ \A k \in 1 .. Len(above) : k \in 1 .. inf - 1 /\ above[k] = lines[k]
      /\ \A k \in 1 .. Len(rest) : u + k \in u + 1 .. Len(lines) /\ rest[k] = lines[u + k]
      /\ \A b \in {"inf", "uri"} : With(above, b) = <<>>
      /\ \A b \in {"sequence", "discontinuitySequence", "start"} :
           With(removed, b) = <<>> /\ With(rest, b) = <<>>
  BY <1>1 DEF Pieces
<1>7. /\ With(prefix, "start") = <<>> /\ With(prefix, "inf") = <<>>
      /\ With(prefix, "other") = With(above, "other")
      /\ above # <<>> /\ above[1].tag = "m3u" => prefix # <<>> /\ prefix[1] = above[1]
  <2>1. n \in Nat /\ With(above, "inf") = <<>>
    BY <1>6
  <2>2. /\ With(prefix, "start") = <<>>
        /\ \A b : b \notin {"start", "key", "map", "sequence", "discontinuitySequence"}
                  => With(prefix, b) = With(above, b)
        /\ above # <<>> /\ above[1].tag = "m3u" => prefix # <<>> /\ prefix[1] = above[1]
    <3>1. prefix = HeaderOf(above, removed, n)
      BY <1>1 DEF Pieces
    <3>2. above \in Lists /\ removed \in Lists
      BY <1>6
    <3>3. /\ With(HeaderOf(above, removed, n), "start") = <<>>
          /\ \A b : b \notin {"start", "key", "map", "sequence", "discontinuitySequence"}
                    => With(HeaderOf(above, removed, n), b) = With(above, b)
          /\ above # <<>> /\ above[1].tag = "m3u"
               => HeaderOf(above, removed, n) # <<>> /\ HeaderOf(above, removed, n)[1] = above[1]
      BY <2>1, <3>2, HeaderTags
    <3>4. QED
      BY <3>1, <3>3
  <2>3. QED
    BY <2>1, <2>2
<1>8. /\ cut = prefix \o rest /\ Len(cut) = Len(prefix) + Len(rest)
      /\ Len(cut) \in Nat /\ Len(prefix) \in Nat /\ Len(rest) \in Nat
      /\ \A k \in 1 .. Len(prefix) : k \in 1 .. Len(cut) /\ cut[k] = prefix[k]
      /\ \A k \in 1 .. Len(rest) :
           Len(prefix) + k \in 1 .. Len(cut) /\ cut[Len(prefix) + k] = rest[k]
  <2>1. cut = prefix \o rest
    BY <1>6
  <2>2. prefix \in Lists /\ rest \in Lists
    BY <1>6
  <2>3. /\ Len(prefix \o rest) = Len(prefix) + Len(rest)
        /\ Len(prefix) \in Nat /\ Len(rest) \in Nat /\ Len(prefix \o rest) \in Nat
        /\ \A k \in 1 .. Len(prefix) : /\ k \in 1 .. Len(prefix \o rest)
                                       /\ (prefix \o rest)[k] = prefix[k]
        /\ \A k \in 1 .. Len(rest) : /\ Len(prefix) + k \in 1 .. Len(prefix \o rest)
                                     /\ (prefix \o rest)[Len(prefix) + k] = rest[k]
    BY <2>2, JoinIs
  <2>4. QED
    BY <2>1, <2>3
<1>9. lines[inf].tag = "inf" /\ \A p \in 1 .. inf - 1 : lines[p].tag # "inf"
  BY DEF CutsAt
<1>10. FirstPlace(lines, "inf") = inf
  BY <1>6, <1>9, FirstPlaceIs
<1>11. \E q \in 1 .. Len(rest) : rest[q].tag = "inf" /\ \A p \in 1 .. q - 1 : rest[p].tag # "inf"
  <2>1. PICK v \in u + 1 .. Len(lines) : lines[v].tag = "inf"
    BY DEF CutsAt
  <2>2. v - u \in 1 .. Len(rest) /\ u + (v - u) = v
    BY <1>6
  <2>3. rest[v - u].tag = "inf"
    BY <1>6, <2>1, <2>2
  <2> DEFINE Q == {q \in 1 .. Len(rest) : rest[q].tag = "inf"}
  <2>4. Q \in SUBSET Nat /\ Q # {}
    BY <2>2, <2>3
  <2>5. PICK q \in Q : \A r \in Q : q <= r
    <3> HIDE DEF Q
    <3>1. QED
      BY <2>4, LeastNatural
  <2>6. QED
    <3>1. q \in 1 .. Len(rest) /\ rest[q].tag = "inf"
      OBVIOUS
    <3>2. \A p \in 1 .. q - 1 : p \in 1 .. Len(rest) /\ ~(q <= p)
      BY <1>8, <3>1
    <3>3. QED
      BY <2>5, <3>1, <3>2
<1>12. PICK q \in 1 .. Len(rest) : rest[q].tag = "inf" /\ \A p \in 1 .. q - 1 : rest[p].tag # "inf"
  BY <1>11
<1>13. PICK i : i = Len(prefix) + q
  OBVIOUS
<1>14. i \in 1 .. Len(cut) /\ cut[i].tag = "inf"
  BY <1>8, <1>12, <1>13
<1>15. \A p \in 1 .. i : p \in 1 .. Len(prefix) \/ p - Len(prefix) \in 1 .. q
  BY <1>8, <1>12, <1>13
<1>16. FirstPlace(cut, "inf") = i
  <2>1. \A p \in 1 .. Len(prefix) : prefix[p].tag # "inf"
    BY <1>6, <1>7, WithNowhere
  <2>2. \A p \in 1 .. i - 1 : cut[p].tag # "inf"
    <3>1. SUFFICES ASSUME NEW p \in 1 .. i - 1 PROVE cut[p].tag # "inf"
      OBVIOUS
    <3>2. CASE p \in 1 .. Len(prefix)
      BY <1>8, <2>1, <3>2
    <3>3. CASE p \notin 1 .. Len(prefix)
      <4>1. p - Len(prefix) \in 1 .. q - 1 /\ Len(prefix) + (p - Len(prefix)) = p
        BY <1>8, <1>12, <1>13, <1>14, <3>3
      <4>2. p - Len(prefix) \in 1 .. Len(rest)
        BY <1>8, <1>12, <4>1
      <4>3. cut[p] = rest[p - Len(prefix)]
        BY <1>8, <4>1, <4>2
      <4>4. QED
        BY <1>12, <4>1, <4>3
    <3>4. QED
      BY <3>2, <3>3
  <2>3. QED
    BY <1>14, <2>2, FirstPlaceIs
<1>17. lines[1].tag = "m3u" => cut[1].tag = "m3u"
  <2>1. SUFFICES ASSUME lines[1].tag = "m3u" PROVE cut[1].tag = "m3u"
    OBVIOUS
  <2>2. first # 1
    <3>1. SUFFICES ASSUME first = 1 PROVE FALSE
      OBVIOUS
    <3>2. CASE inf = 1
      BY <1>9, <2>1, <3>2
    <3>3. CASE inf # 1
      <4>1. 1 \in first .. inf - 1 /\ inf \in Nat \ {0}
        BY <1>6, <3>1, <3>3
      <4>2. lines[1].tag \in SegmentTags
        BY <1>2, <4>1, FirstTagLeads
      <4>3. QED
        BY <2>1, <4>2 DEF SegmentTags
    <3>4. QED
      BY <3>2, <3>3
  <2>3. 1 \in 1 .. Len(above)
    BY <1>6, <2>2
  <2>4. above # <<>> /\ above[1].tag = "m3u"
    <3>1. Len(<<>>) = 0
      OBVIOUS
    <3>2. above # <<>>
      BY <2>3, <3>1
    <3>3. QED
      BY <1>6, <2>1, <2>3, <3>2
  <2>5. cut # <<>> /\ cut[1] = prefix[1]
    BY <1>6, <1>7, <1>8, <2>4, BeginningStays
  <2>6. QED
    BY <1>7, <2>4, <2>5
<1>18. IsPrefix(With(SubSeq(lines, 1, inf), "other"), With(SubSeq(cut, 1, i), "other"))
  <2>1. PICK lead : lead = SubSeq(lines, first, inf)
    OBVIOUS
  <2>2. /\ above \in Lists /\ lead \in Lists /\ SubSeq(lines, 1, inf) = above \o lead
        /\ \A k \in 1 .. Len(lead) :
             first + k - 1 \in first .. inf /\ lead[k] = lines[first + k - 1]
    <3>1. first \in 1 .. Len(lines) + 1 /\ inf \in first - 1 .. Len(lines)
      BY <1>6
    <3>2. /\ lead \in Lists
          /\ \A k \in 1 .. Len(lead) :
               first + k - 1 \in first .. inf /\ lead[k] = lines[first + k - 1]
      BY <2>1, <3>1, ThreeParts
    <3>3. above \o lead = SubSeq(lines, 1, inf)
      <4>1. /\ 1 \in 1 .. Len(lines) + 1 /\ first - 1 \in 1 - 1 .. Len(lines)
            /\ inf \in first - 1 .. Len(lines) /\ (first - 1) + 1 = first
        BY <1>6
      <4>2. SubSeq(lines, 1, first - 1) \o SubSeq(lines, (first - 1) + 1, inf)
              = SubSeq(lines, 1, inf)
        BY <4>1, ConcatAdjacentSubSeq DEF Lists
      <4>3. QED
        BY <1>2, <2>1, <4>1, <4>2
    <3>4. QED
      BY <1>6, <3>2, <3>3
  <2>3. With(lead, "other") = <<>>
    <3>1. \A p \in first .. inf : lines[p].tag # "other"
      <4>1. \A p \in first .. inf - 1 : lines[p].tag \in SegmentTags
        <5>1. inf \in Nat \ {0}
          BY <1>6
        <5>2. QED
          BY <1>2, <5>1, FirstTagLeads
      <4>2. \A p \in first .. inf : p = inf \/ p \in first .. inf - 1
        BY <1>6
      <4>3. QED
        BY <1>9, <4>1, <4>2 DEF SegmentTags
    <3>2. \A k \in 1 .. Len(lead) : lead[k].tag # "other"
      BY <2>2, <3>1
    <3>3. QED
      BY <2>2, <3>2, NoneOf
  <2>4. With(SubSeq(lines, 1, inf), "other") = With(above, "other")
    <3>1. With(above \o lead, "other") = With(above, "other") \o With(lead, "other")
      BY <2>2, WithJoin
    <3>2. With(above, "other") \in Lists
      BY <1>6, WithJoin
    <3>3. With(above, "other") \o <<>> = With(above, "other")
      BY <3>2, ListsJoin
    <3>4. QED
      BY <2>2, <2>3, <3>1, <3>3
  <2>5. SubSeq(cut, 1, i) = prefix \o SubSeq(rest, 1, q) /\ SubSeq(rest, 1, q) \in Lists
    <3>1. q \in 0 .. Len(rest) /\ 1 \in 1 .. Len(rest) + 1 /\ q \in 1 - 1 .. Len(rest)
      BY <1>8
    <3>2. SubSeq(prefix \o rest, 1, Len(prefix) + q) = prefix \o SubSeq(rest, 1, q)
      BY <1>6, <3>1, BeginningAcross
    <3>3. SubSeq(rest, 1, q) \in Lists
      BY <1>6, <3>1, PartIs
    <3>4. QED
      BY <1>8, <1>13, <3>2, <3>3
  <2>6. With(SubSeq(cut, 1, i), "other")
          = With(prefix, "other") \o With(SubSeq(rest, 1, q), "other")
    <3>1. prefix \in Lists
      BY <1>6
    <3>2. With(prefix \o SubSeq(rest, 1, q), "other")
            = With(prefix, "other") \o With(SubSeq(rest, 1, q), "other")
      BY <2>5, <3>1, WithJoin
    <3>3. QED
      BY <2>5, <3>2
  <2>7. With(above, "other") \in Lists /\ With(SubSeq(rest, 1, q), "other") \in Lists
    BY <1>6, <2>5, WithJoin
  <2>8. QED
    BY <1>7, <2>4, <2>6, <2>7, BeginsWith
<1>19. \A p \in 1 .. i : cut[p].tag # "start"
  <2>1. With(rest, "start") = <<>>
    BY <1>6
  <2>2. With(cut, "start") = <<>>
    <3>1. With(prefix \o rest, "start") = With(prefix, "start") \o With(rest, "start")
      BY <1>6, WithJoin
    <3>2. <<>> \o <<>> = <<>>
      BY ListsJoin
    <3>3. QED
      BY <1>7, <1>8, <2>1, <3>1, <3>2
  <2>3. \A p \in 1 .. Len(cut) : cut[p].tag # "start"
    BY <2>2, WithNowhere
  <2>4. \A p \in 1 .. i : p \in 1 .. Len(cut)
    BY <1>8, <1>14
  <2>5. QED
    BY <2>3, <2>4
<1>20. QED
  BY <1>10, <1>14, <1>16, <1>17, <1>18, <1>19

\* What is said of a whole list stays on top when trimLivePlaylist cuts it.
LEMMA HeaderHolds ==
  ASSUME body \in Seq(Line), trimmed = Trim(body)
  PROVE  HeaderKept
<1>1. SUFFICES ASSUME trimmed.trimmed, Regular(body)
      PROVE LET inf == SelectInSeq(trimmed.lines, LAMBDA line : line.tag = "inf")
                top == SelectInSeq(body, LAMBDA line : line.tag = "inf")
            IN /\ body[1].tag = "m3u" => trimmed.lines[1].tag = "m3u"
               /\ IsPrefix(With(SubSeq(body, 1, top), "other"),
                           With(SubSeq(trimmed.lines, 1, inf), "other"))
               /\ "start" \notin {trimmed.lines[p].tag : p \in 1 .. inf}
  BY DEF HeaderKept
<1>2. PICK inf, u, n : CutsAt(body, inf, u, n)
  BY <1>1, TrimCuts
<1>3. trimmed.lines \in Lists /\ body \in Lists
  BY TrimLines DEF Lists
<1>4. PICK i \in 1 .. Len(trimmed.lines) :
           /\ FirstPlace(body, "inf") = inf /\ FirstPlace(trimmed.lines, "inf") = i
           /\ body[1].tag = "m3u" => trimmed.lines[1].tag = "m3u"
           /\ IsPrefix(With(SubSeq(body, 1, inf), "other"),
                       With(SubSeq(trimmed.lines, 1, i), "other"))
           /\ \A p \in 1 .. i : trimmed.lines[p].tag # "start"
  BY <1>2, <1>3, HeaderStands
<1>5. /\ SelectInSeq(body, LAMBDA line : line.tag = "inf") = inf
      /\ SelectInSeq(trimmed.lines, LAMBDA line : line.tag = "inf") = i
  BY <1>4 DEF FirstPlace
<1>6. "start" \notin {trimmed.lines[p].tag : p \in 1 .. i}
  BY <1>4
<1>7. QED
  BY <1>4, <1>5, <1>6

-------------------------------------------------------------------------------
(* What a player learns of a segment.                                       *)

\* Of what comes before a list, only the latest line bears on its last one.
LEMMA LatestSuffices ==
  ASSUME NEW a \in Lists, NEW m \in Lists, NEW b \in Lists, b = Latest(a)
  PROVE  /\ a \o m = <<>> <=> b \o m = <<>>
         /\ a \o m # <<>> => Last(a \o m) = Last(b \o m)
<1>1. CASE a = <<>>
  BY <1>1 DEF Latest
<1>2. CASE a # <<>>
  <2>1. Len(a) \in Nat \ {0}
    BY <1>2, EmptySeq, LenProperties DEF Lists
  <2>2. b = <<a[Len(a)]>> /\ Len(b) = 1 /\ b[1] = a[Len(a)]
    BY <1>2 DEF Latest, Last
  <2>3. ASSUME NEW s, s = a \o m, NEW t, t = b \o m
        PROVE  s # <<>> /\ t # <<>> /\ s[Len(s)] = t[Len(t)]
    <3>1. /\ Len(s) = Len(a) + Len(m) /\ Len(m) \in Nat
          /\ \A k \in 1 .. Len(a) : s[k] = a[k]
          /\ \A k \in 1 .. Len(m) : s[Len(a) + k] = m[k]
      BY <2>3, JoinIs
    <3>2. /\ Len(t) = Len(b) + Len(m)
          /\ \A k \in 1 .. Len(b) : t[k] = b[k]
          /\ \A k \in 1 .. Len(m) : t[Len(b) + k] = m[k]
      BY <2>3, JoinIs
    <3>3. s # <<>> /\ t # <<>>
      <4>1. Len(<<>>) = 0
        OBVIOUS
      <4>2. Len(s) # 0 /\ Len(t) # 0
        BY <2>1, <2>2, <3>1, <3>2
      <4>3. QED
        BY <4>1, <4>2
    <3>4. CASE Len(m) = 0
      <4>1. Len(s) = Len(a) /\ Len(a) \in 1 .. Len(a) /\ Len(t) = 1 /\ 1 \in 1 .. Len(b)
        BY <2>1, <2>2, <3>1, <3>2, <3>4
      <4>2. QED
        BY <2>2, <3>1, <3>2, <3>3, <4>1
    <3>5. CASE Len(m) # 0
      <4>1. Len(m) \in 1 .. Len(m)
        BY <3>1, <3>5
      <4>2. QED
        BY <3>1, <3>2, <3>3, <4>1
    <3>6. QED
      BY <3>4, <3>5
  <2>4. QED
    BY <2>3 DEF Last
<1>3. QED
  BY <1>1, <1>2

\* What is in force behind a header that keeps only the latest line of a tag.
LEMMA ForceKept ==
  ASSUME NEW x \in Lists, NEW prefix \in Lists, NEW part \in Lists, NEW tag,
         With(prefix, tag) = Latest(With(x, tag))
  PROVE  InForce(prefix \o part, tag) = InForce(x \o part, tag)
<1>1. /\ With(x, tag) \in Lists /\ With(prefix, tag) \in Lists /\ With(part, tag) \in Lists
      /\ With(x \o part, tag) = With(x, tag) \o With(part, tag)
      /\ With(prefix \o part, tag) = With(prefix, tag) \o With(part, tag)
  BY WithJoin
<1>2. /\ With(x \o part, tag) = <<>> <=> With(prefix \o part, tag) = <<>>
      /\ With(x \o part, tag) # <<>>
           => Last(With(x \o part, tag)) = Last(With(prefix \o part, tag))
  <2>1. ASSUME NEW a \in Lists, NEW m \in Lists, NEW b \in Lists, b = Latest(a)
        PROVE  /\ a \o m = <<>> <=> b \o m = <<>>
               /\ a \o m # <<>> => Last(a \o m) = Last(b \o m)
    BY <2>1, LatestSuffices
  <2>2. QED
    BY <1>1, <2>1
<1>3. QED
  BY <1>2 DEF InForce

\* What is said of a segment alone, in the lines that lead up to it.
Said == {"discontinuity", "date", "aux"}

Marks(own) == {own[p] : p \in {q \in DOMAIN own : own[q].tag \in Said}}

\* Nothing is, in lines without those tags.
LEMMA MarksBehind ==
  ASSUME NEW prefix \in Lists, NEW part \in Lists, \A b \in Said : With(prefix, b) = <<>>
  PROVE  Marks(prefix \o part) = Marks(part)
<1>1. ASSUME NEW s, s = prefix \o part PROVE Marks(s) = Marks(part)
  <2>1. /\ s \in Lists /\ Len(s) = Len(prefix) + Len(part)
        /\ Len(s) \in Nat /\ Len(prefix) \in Nat /\ Len(part) \in Nat
        /\ \A k \in 1 .. Len(prefix) : s[k] = prefix[k]
        /\ \A k \in 1 .. Len(part) : Len(prefix) + k \in 1 .. Len(s) /\ s[Len(prefix) + k] = part[k]
    BY <1>1, JoinIs
  <2>2. DOMAIN s = 1 .. Len(s) /\ DOMAIN part = 1 .. Len(part)
    BY <2>1, LenProperties DEF Lists
  <2>3. \A k \in 1 .. Len(prefix) : prefix[k].tag \notin Said
    BY WithNowhere
  <2>4. \A k \in 1 .. Len(s) : k \in 1 .. Len(prefix)
                                \/ (k - Len(prefix) \in 1 .. Len(part)
                                    /\ Len(prefix) + (k - Len(prefix)) = k)
    BY <2>1
  <2>5. \A k \in 1 .. Len(s) : s[k].tag \in Said => \E q \in 1 .. Len(part) : part[q] = s[k]
    BY <2>1, <2>3, <2>4
  <2>6. /\ Marks(s) = {s[k] : k \in {i \in 1 .. Len(s) : s[i].tag \in Said}}
        /\ Marks(part) = {part[k] : k \in {i \in 1 .. Len(part) : part[i].tag \in Said}}
    BY <2>2 DEF Marks
  <2>7. Marks(s) \subseteq Marks(part)
    BY <2>5, <2>6
  <2>8. Marks(part) \subseteq Marks(s)
    <3>1. \A k \in 1 .. Len(part) : \E i \in 1 .. Len(s) : s[i] = part[k]
      BY <2>1
    <3>2. QED
      BY <2>6, <3>1
  <2>9. QED
    BY <2>7, <2>8
<1>2. QED
  BY <1>1

\* A header that takes over what n segments said about those that follow.
TakesOver(x, rest, prefix, n) ==
  /\ x \in Lists /\ rest \in Lists /\ prefix \in Lists /\ n \in Nat
  /\ \A b \in Said : With(prefix, b) = <<>>
  /\ \A b \in {"key", "map"} : With(prefix, b) = Latest(With(x, b))
  /\ SequenceStart(prefix \o rest, "sequence") = SequenceStart(x \o rest, "sequence") + n
  /\ SequenceStart(prefix \o rest, "discontinuitySequence")
       = SequenceStart(x \o rest, "discontinuitySequence") + Len(With(x, "discontinuity"))

\* The first number of a list is a number.
LEMMA StartsAtNumber ==
  ASSUME NEW s \in Lists, NEW tag
  PROVE  SequenceStart(s, tag) \in Int
<1>1. ASSUME NEW w \in Lists, w # <<>> PROVE w[1].val \in Int
  <2>1. w[1] \in Line
    BY <1>1, BehindFirst
  <2>2. QED
    BY <2>1 DEF Line
<1>2. With(s, tag) \in Lists
  BY WithJoin
<1>3. QED
  BY <1>1, <1>2 DEF SequenceStart

\* How long two lists are together.
LEMMA TogetherLong ==
  ASSUME NEW s \in Lists, NEW t \in Lists, NEW tag
  PROVE  /\ Len(With(s \o t, tag)) = Len(With(s, tag)) + Len(With(t, tag))
         /\ Len(With(s, tag)) \in Nat /\ Len(With(t, tag)) \in Nat
<1>1. /\ With(s, tag) \in Lists /\ With(t, tag) \in Lists
      /\ With(s \o t, tag) = With(s, tag) \o With(t, tag)
  BY WithJoin
<1>2. ASSUME NEW a \in Lists, NEW b \in Lists
      PROVE  Len(a \o b) = Len(a) + Len(b) /\ Len(a) \in Nat /\ Len(b) \in Nat
  BY JoinIs
<1>3. QED
  BY <1>1, <1>2

\* Of a segment that stays, a player learns the same.
LEMMA SegmentStays ==
  ASSUME NEW x, NEW rest, NEW prefix, NEW n, TakesOver(x, rest, prefix, n),
         NEW j \in Nat, NEW k \in 1 .. Len(rest), NEW f \in 1 .. k,
         NEW g, g = Len(prefix) + f \/ (f = 1 /\ g = 1)
  PROVE  SegmentAt(x \o rest, Len(x) + f, Len(x) + k, n + j)
           = SegmentAt(prefix \o rest, g, Len(prefix) + k, j)
<1> DEFINE part == SubSeq(rest, 1, k - 1)
           old == x \o rest
           new == prefix \o rest
<1>1. /\ x \in Lists /\ rest \in Lists /\ prefix \in Lists /\ n \in Nat
      /\ \A b \in Said : With(prefix, b) = <<>>
      /\ \A b \in {"key", "map"} : With(prefix, b) = Latest(With(x, b))
      /\ SequenceStart(new, "sequence") = SequenceStart(old, "sequence") + n
      /\ SequenceStart(new, "discontinuitySequence")
           = SequenceStart(old, "discontinuitySequence") + Len(With(x, "discontinuity"))
  BY DEF TakesOver
<1>2. /\ Len(x) \in Nat /\ Len(rest) \in Nat /\ Len(prefix) \in Nat
      /\ old \in Lists /\ new \in Lists
  <2>1. ASSUME NEW s \in Lists PROVE Len(s) \in Nat
    BY <2>1, LenProperties DEF Lists
  <2>2. QED
    BY <1>1, <2>1, ListsJoin
<1>3. /\ k \in Nat /\ f \in Nat /\ k - 1 \in 0 .. Len(rest) /\ 1 \in 1 .. Len(rest) + 1
      /\ k - 1 \in 1 - 1 .. Len(rest) /\ f \in 1 .. Len(rest) + 1 /\ k - 1 \in f - 1 .. Len(rest)
      /\ (Len(x) + k) - 1 = Len(x) + (k - 1) /\ (Len(prefix) + k) - 1 = Len(prefix) + (k - 1)
  BY <1>2
<1>4. part \in Lists
  BY <1>1, <1>3, PartIs
<1>5. /\ SubSeq(old, 1, (Len(x) + k) - 1) = x \o part
      /\ SubSeq(new, 1, (Len(prefix) + k) - 1) = prefix \o part
  <2>1. ASSUME NEW y \in Lists PROVE SubSeq(y \o rest, 1, Len(y) + (k - 1)) = y \o part
    BY <1>1, <1>3, BeginningAcross
  <2>2. QED
    BY <1>1, <1>3, <2>1
<1>6. Marks(SubSeq(old, Len(x) + f, (Len(x) + k) - 1))
        = Marks(SubSeq(new, g, (Len(prefix) + k) - 1))
  <2>1. ASSUME NEW y \in Lists
        PROVE  SubSeq(y \o rest, Len(y) + f, Len(y) + (k - 1)) = SubSeq(rest, f, k - 1)
    BY <1>1, <1>3, PieceBehind
  <2>2. SubSeq(old, Len(x) + f, (Len(x) + k) - 1) = SubSeq(rest, f, k - 1)
    BY <1>1, <1>3, <2>1
  <2>3. CASE g = Len(prefix) + f
    <3>1. SubSeq(new, g, (Len(prefix) + k) - 1) = SubSeq(rest, f, k - 1)
      BY <1>1, <1>3, <2>1, <2>3
    <3>2. QED
      BY <2>2, <3>1
  <2>4. CASE f = 1 /\ g = 1
    <3>1. Marks(prefix \o part) = Marks(part)
      BY <1>1, <1>4, MarksBehind
    <3>2. QED
      BY <1>5, <2>2, <2>4, <3>1
  <2>5. QED
    BY <2>3, <2>4
<1>7. /\ InForce(prefix \o part, "key") = InForce(x \o part, "key")
      /\ InForce(prefix \o part, "map") = InForce(x \o part, "map")
  <2>1. ASSUME NEW tag, With(prefix, tag) = Latest(With(x, tag))
        PROVE  InForce(prefix \o part, tag) = InForce(x \o part, tag)
    BY <1>1, <1>4, <2>1, ForceKept
  <2>2. With(prefix, "key") = Latest(With(x, "key")) /\ With(prefix, "map") = Latest(With(x, "map"))
    BY <1>1
  <2>3. QED
    BY <2>1, <2>2
<1>8. SequenceStart(old, "sequence") + (n + j) - 1 = SequenceStart(new, "sequence") + j - 1
  <2>1. SequenceStart(old, "sequence") \in Int
    BY <1>2, StartsAtNumber
  <2>2. QED
    BY <1>1, <2>1
<1>9. SequenceStart(old, "discontinuitySequence") + Len(With(x \o part, "discontinuity"))
        = SequenceStart(new, "discontinuitySequence") + Len(With(prefix \o part, "discontinuity"))
  <2>1. SequenceStart(old, "discontinuitySequence") \in Int
    BY <1>2, StartsAtNumber
  <2>2. ASSUME NEW y \in Lists
        PROVE  /\ Len(With(y \o part, "discontinuity"))
                    = Len(With(y, "discontinuity")) + Len(With(part, "discontinuity"))
               /\ Len(With(y, "discontinuity")) \in Nat /\ Len(With(part, "discontinuity")) \in Nat
    BY <1>4, TogetherLong
  <2>3. Len(With(prefix, "discontinuity")) = 0
    <3>1. With(prefix, "discontinuity") = <<>>
      BY <1>1 DEF Said
    <3>2. QED
      BY <3>1
  <2>4. QED
    <3>1. /\ Len(With(x \o part, "discontinuity"))
               = Len(With(x, "discontinuity")) + Len(With(part, "discontinuity"))
          /\ Len(With(x, "discontinuity")) \in Nat /\ Len(With(part, "discontinuity")) \in Nat
          /\ Len(With(prefix \o part, "discontinuity"))
               = Len(With(prefix, "discontinuity")) + Len(With(part, "discontinuity"))
      BY <1>1, <2>2
    <3>2. SequenceStart(new, "discontinuitySequence")
            = SequenceStart(old, "discontinuitySequence") + Len(With(x, "discontinuity"))
      BY <1>1
    <3>3. QED
      BY <2>1, <2>3, <3>1, <3>2
<1>10. old[Len(x) + k] = new[Len(prefix) + k]
  <2>1. ASSUME NEW y \in Lists PROVE (y \o rest)[Len(y) + k] = rest[k]
    BY <1>1, JoinIs
  <2>2. QED
    BY <1>1, <2>1
<1>11. \A lines, from, at, number :
         SegmentAt(lines, from, at, number) =
           [segment |-> lines[at].val,
            number  |-> SequenceStart(lines, "sequence") + number - 1,
            period  |-> SequenceStart(lines, "discontinuitySequence")
                          + Len(With(SubSeq(lines, 1, at - 1), "discontinuity")),
            key     |-> InForce(SubSeq(lines, 1, at - 1), "key"),
            map     |-> InForce(SubSeq(lines, 1, at - 1), "map"),
            marks   |-> Marks(SubSeq(lines, from, at - 1))]
  BY DEF SegmentAt, Marks, Said
<1> HIDE DEF part, old, new
<1>12. SegmentAt(old, Len(x) + f, Len(x) + k, n + j) = SegmentAt(new, g, Len(prefix) + k, j)
  BY <1>5, <1>6, <1>7, <1>8, <1>9, <1>10, <1>11
<1>13. QED
  BY <1>12 DEF old, new

\* A list without a tag does not change where the count of that tag starts.
LEMMA StartAhead ==
  ASSUME NEW s \in Lists, NEW t \in Lists, NEW tag, With(t, tag) = <<>>
  PROVE  SequenceStart(s \o t, tag) = SequenceStart(s, tag)
<1>1. With(s \o t, tag) = With(s, tag) \o With(t, tag) /\ With(s, tag) \in Lists
  BY WithJoin
<1>2. With(s, tag) \o <<>> = With(s, tag)
  BY <1>1, ListsJoin
<1>3. QED
  BY <1>1, <1>2 DEF SequenceStart

\* Where all numbers can be read, so can the first of a tag.
LEMMA StartReadable ==
  ASSUME NEW s \in Lists, NEW tag, \A p \in 1 .. Len(s) : s[p].val # Unreadable
  PROVE  SequenceStart(s, tag) # Unreadable
<1>1. CASE With(s, tag) = <<>>
  BY <1>1 DEF SequenceStart, Unreadable
<1>2. CASE With(s, tag) # <<>>
  <2>1. ASSUME NEW w \in Lists, w # <<>> PROVE 1 \in 1 .. Len(w)
    BY <2>1, EmptySeq, LenProperties DEF Lists
  <2>2. 1 \in 1 .. Len(With(s, tag))
    BY <1>2, <2>1, WithJoin
  <2>3. \E p \in 1 .. Len(s) : With(s, tag)[1] = s[p]
    BY <2>2, WithTagged DEF Lists
  <2>4. QED
    BY <1>2, <2>3 DEF SequenceStart
<1>3. QED
  BY <1>1, <1>2

\* The header of a cut list takes over what the segments that go said.
LEMMA HeaderTakesOver ==
  ASSUME NEW lines \in Lists, Orderly(lines), NEW inf, NEW u, NEW n, CutsAt(lines, inf, u, n),
         NEW first, NEW above, NEW removed, NEW rest, NEW prefix,
         Pieces(lines, inf, u, n, first, above, removed, rest, prefix)
  PROVE  TakesOver(above \o removed, rest, prefix, n)
<1>1. /\ first = FirstSegmentTag(lines, inf) /\ first \in 1 .. inf
      /\ n \in Nat /\ inf \in 1 .. Len(lines) /\ Len(lines) \in Nat
      /\ prefix = HeaderOf(above, removed, n)
      /\ above \in Lists /\ removed \in Lists /\ rest \in Lists /\ prefix \in Lists
      /\ Len(above) = first - 1
      /\ \A k \in 1 .. Len(above) : k \in 1 .. inf - 1 /\ above[k] = lines[k]
      /\ With(removed, "sequence") = <<>> /\ With(rest, "sequence") = <<>>
      /\ With(removed, "discontinuitySequence") = <<>>
      /\ With(rest, "discontinuitySequence") = <<>>
  BY DEF Pieces
<1>2. FirstPlace(lines, "inf") = inf
  <2>1. lines[inf].tag = "inf" /\ \A p \in 1 .. inf - 1 : lines[p].tag # "inf"
    BY DEF CutsAt
  <2>2. QED
    BY <1>1, <2>1, FirstPlaceIs
<1>3. /\ \A p \in 1 .. first - 1 : lines[p].tag \notin Said
      /\ \A p \in 1 .. Len(lines) : lines[p].val # Unreadable
  <2>1. inf # 0
    BY <1>1
  <2>2. DOMAIN lines = 1 .. Len(lines)
    BY LenProperties DEF Lists
  <2>3. SelectInSeq(lines, LAMBDA line : line.tag = "inf") = inf
    BY <1>2 DEF FirstPlace
  <2>4. QED
    BY <1>1, <2>1, <2>2, <2>3 DEF Orderly, Said
<1>4. \A b \in Said : With(above, b) = <<>>
  <2>1. \A k \in 1 .. Len(above) : above[k].tag \notin Said
    BY <1>1, <1>3
  <2>2. ASSUME NEW b \in Said PROVE With(above, b) = <<>>
    <3>1. \A k \in 1 .. Len(above) : above[k].tag # b
      BY <2>1
    <3>2. QED
      BY <1>1, <3>1, NoneOf
  <2>3. QED
    BY <2>2
<1>5. /\ \A b \in {"key", "map"} : With(prefix, b) = Latest(With(above \o removed, b))
      /\ \A b \in Said : With(prefix, b) = With(above, b)
      /\ SequenceStart(above, "sequence") # Unreadable =>
           SequenceStart(prefix, "sequence") = SequenceStart(above, "sequence") + n
      /\ SequenceStart(above, "discontinuitySequence") # Unreadable =>
           SequenceStart(prefix, "discontinuitySequence")
             = SequenceStart(above, "discontinuitySequence") + Len(With(removed, "discontinuity"))
  <2>1. above \in Lists /\ removed \in Lists /\ n \in Nat
    BY <1>1
  <2>2. /\ With(HeaderOf(above, removed, n), "key") = Latest(With(above \o removed, "key"))
        /\ With(HeaderOf(above, removed, n), "map") = Latest(With(above \o removed, "map"))
    BY <2>1, HeaderTags
  <2>3. \A b : b \notin {"start", "key", "map", "sequence", "discontinuitySequence"}
                 => With(HeaderOf(above, removed, n), b) = With(above, b)
    BY <2>1, HeaderTags
  <2>4. /\ SequenceStart(above, "sequence") # Unreadable =>
             SequenceStart(HeaderOf(above, removed, n), "sequence")
               = SequenceStart(above, "sequence") + n
        /\ SequenceStart(above, "discontinuitySequence") # Unreadable =>
             SequenceStart(HeaderOf(above, removed, n), "discontinuitySequence")
               = SequenceStart(above, "discontinuitySequence")
                 + Len(With(removed, "discontinuity"))
    BY <2>1, HeaderTags
  <2>5. \A b \in Said : b \notin {"start", "key", "map", "sequence", "discontinuitySequence"}
    BY DEF Said
  <2>6. QED
    BY <1>1, <2>2, <2>3, <2>4, <2>5
<1>6. ASSUME NEW tag \in Numbers
      PROVE  /\ SequenceStart(above, tag) # Unreadable
             /\ SequenceStart((above \o removed) \o rest, tag) = SequenceStart(above, tag)
             /\ SequenceStart(prefix \o rest, tag) = SequenceStart(prefix, tag)
  <2>1. With(removed, tag) = <<>> /\ With(rest, tag) = <<>>
    BY <1>1, <1>6 DEF Numbers
  <2>2. above \o removed \in Lists
    BY <1>1, ListsJoin
  <2>3. SequenceStart((above \o removed) \o rest, tag) = SequenceStart(above \o removed, tag)
    BY <1>1, <2>1, <2>2, StartAhead
  <2>4. SequenceStart(above \o removed, tag) = SequenceStart(above, tag)
    BY <1>1, <2>1, StartAhead
  <2>5. SequenceStart(prefix \o rest, tag) = SequenceStart(prefix, tag)
    BY <1>1, <2>1, StartAhead
  <2>6. SequenceStart(above, tag) # Unreadable
    <3>1. \A k \in 1 .. Len(above) : above[k].val # Unreadable
      BY <1>1, <1>3
    <3>2. QED
      BY <1>1, <3>1, StartReadable
  <2>7. QED
    BY <2>3, <2>4, <2>5, <2>6
<1>7. Len(With(above \o removed, "discontinuity")) = Len(With(removed, "discontinuity"))
  <2>1. /\ Len(With(above \o removed, "discontinuity"))
             = Len(With(above, "discontinuity")) + Len(With(removed, "discontinuity"))
        /\ Len(With(removed, "discontinuity")) \in Nat
    <3>1. above \in Lists /\ removed \in Lists
      BY <1>1
    <3>2. QED
      BY <3>1, TogetherLong
  <2>2. Len(With(above, "discontinuity")) = 0
    BY <1>4 DEF Said
  <2>3. QED
    BY <2>1, <2>2
<1>8. above \o removed \in Lists
  BY <1>1, ListsJoin
<1>9. "sequence" \in Numbers /\ "discontinuitySequence" \in Numbers
  BY DEF Numbers
<1>10. QED
  BY <1>1, <1>4, <1>5, <1>6, <1>7, <1>8, <1>9 DEF TakesOver

\* Where the addresses of two lists stand that share their second part.
LEMMA AddressesBehind ==
  ASSUME NEW x \in Lists, NEW y \in Lists
  PROVE  \E X, Y, Z :
           /\ X = PlacesInOrder(x, "uri") /\ Y = PlacesInOrder(y, "uri")
           /\ Z = PlacesInOrder(x \o y, "uri")
           /\ X \in Seq(1 .. Len(x)) /\ Len(X) \in Nat
           /\ Y \in Seq(1 .. Len(y)) /\ Len(Y) \in Nat
           /\ \A i, j \in 1 .. Len(Y) : i < j => Y[i] < Y[j]
           /\ \A i \in 1 .. Len(X) : X[i] \in 1 .. Len(x)
           /\ \A i \in 1 .. Len(Y) : Y[i] \in 1 .. Len(y)
           /\ Len(Z) = Len(X) + Len(Y)
           /\ \A i \in 1 .. Len(X) : Z[i] = X[i]
           /\ \A i \in 1 .. Len(Y) : Z[Len(X) + i] = Y[i] + Len(x)
<1>1. PICK X, Y, Z : /\ X = PlacesInOrder(x, "uri") /\ Y = PlacesInOrder(y, "uri")
                     /\ Z = PlacesInOrder(x \o y, "uri")
  OBVIOUS
<1>2. /\ X \in Seq(1 .. Len(x)) /\ Y \in Seq(1 .. Len(y)) /\ Len(X) \in Nat /\ Len(Y) \in Nat
      /\ Z = [k \in 1 .. Len(X) + Len(Y) |-> IF k <= Len(X) THEN X[k] ELSE Y[k - Len(X)] + Len(x)]
  BY <1>1, JoinedPlaces DEF Lists
<1>3. \A i, j \in 1 .. Len(Y) : i < j => Y[i] < Y[j]
  <2>1. Ascends(Y, PlacesOf(y, "uri"))
    BY <1>1, PlacesAscend DEF Lists
  <2>2. QED
    BY <2>1 DEF Ascends
<1>4. /\ \A i \in 1 .. Len(X) : X[i] \in 1 .. Len(x)
      /\ \A i \in 1 .. Len(Y) : Y[i] \in 1 .. Len(y)
  BY <1>2, ElementOfSeq
<1>5. Len(Z) = Len(X) + Len(Y)
  <2>1. Len(X) + Len(Y) \in Nat
    BY <1>2
  <2>2. DOMAIN Z = 1 .. Len(X) + Len(Y)
    BY <1>2
  <2>3. Z \in Seq(Nat)
    <3>1. Ascends(Z, PlacesOf(x \o y, "uri"))
      BY <1>1, PlacesAscend, ListsJoin DEF Lists
    <3>2. QED
      BY <3>1 DEF Ascends
  <2>4. DOMAIN Z = 1 .. Len(Z) /\ Len(Z) \in Nat
    BY <2>3, LenProperties
  <2>5. QED
    BY <2>1, <2>2, <2>4
<1>6. /\ \A i \in 1 .. Len(X) : Z[i] = X[i]
      /\ \A i \in 1 .. Len(Y) : Z[Len(X) + i] = Y[i] + Len(x)
  <2>1. \A i \in 1 .. Len(X) : i \in 1 .. Len(X) + Len(Y) /\ i <= Len(X)
    BY <1>2
  <2>2. \A i \in 1 .. Len(Y) : /\ Len(X) + i \in 1 .. Len(X) + Len(Y) /\ ~(Len(X) + i <= Len(X))
                               /\ (Len(X) + i) - Len(X) = i
    BY <1>2
  <2>3. QED
    BY <1>2, <2>1, <2>2
<1>7. QED
  BY <1>1, <1>2, <1>3, <1>4, <1>5, <1>6

\* The addresses of a list that trimLivePlaylist has cut, and of what it was cut from.
LEMMA WindowPlaces ==
  ASSUME NEW lines \in Lists, NEW inf, NEW u, NEW n, CutsAt(lines, inf, u, n),
         NEW first, NEW above, NEW removed, NEW rest, NEW prefix,
         Pieces(lines, inf, u, n, first, above, removed, rest, prefix)
  PROVE  \E U, V, W :
           /\ U = PlacesInOrder((above \o removed) \o rest, "uri")
           /\ W = PlacesInOrder(prefix \o rest, "uri")
           /\ Len(V) = Keep /\ Len(U) = n + Keep /\ Len(W) = Keep
           /\ \A i \in 1 .. Keep : V[i] \in 1 .. Len(rest)
           /\ \A i, j \in 1 .. Keep : i < j => V[i] < V[j]
           /\ \A i \in 1 .. Keep : U[n + i] = V[i] + Len(above \o removed)
           /\ \A i \in 1 .. Keep : W[i] = V[i] + Len(prefix)
           /\ U[n] = Len(above \o removed)
<1>1. /\ n \in Nat \ {0} /\ above \in Lists /\ removed \in Lists /\ rest \in Lists
      /\ prefix \in Lists
      /\ lines = (above \o removed) \o rest /\ Len(above \o removed) = u
      /\ PlacesInOrder(lines, "uri")[n] = u /\ Len(PlacesInOrder(lines, "uri")) = n + Keep
      /\ With(above, "uri") = <<>> /\ prefix = HeaderOf(above, removed, n)
      /\ Keep \in Nat
  BY PlaylistAssumption DEF Pieces, CutsAt
<1>2. above \o removed \in Lists
  BY <1>1, ListsJoin
<1>3. ASSUME NEW x \in Lists
      PROVE  \E X, Y, Z :
           /\ X = PlacesInOrder(x, "uri") /\ Y = PlacesInOrder(rest, "uri")
           /\ Z = PlacesInOrder(x \o rest, "uri")
           /\ X \in Seq(1 .. Len(x)) /\ Len(X) \in Nat
           /\ Y \in Seq(1 .. Len(rest)) /\ Len(Y) \in Nat
           /\ \A i, j \in 1 .. Len(Y) : i < j => Y[i] < Y[j]
           /\ \A i \in 1 .. Len(X) : X[i] \in 1 .. Len(x)
           /\ \A i \in 1 .. Len(Y) : Y[i] \in 1 .. Len(rest)
           /\ Len(Z) = Len(X) + Len(Y)
           /\ \A i \in 1 .. Len(X) : Z[i] = X[i]
           /\ \A i \in 1 .. Len(Y) : Z[Len(X) + i] = Y[i] + Len(x)
  BY <1>1, AddressesBehind
<1>4. PICK X, V, U :
           /\ X = PlacesInOrder(above \o removed, "uri") /\ V = PlacesInOrder(rest, "uri")
           /\ U = PlacesInOrder((above \o removed) \o rest, "uri")
           /\ X \in Seq(1 .. Len(above \o removed)) /\ Len(X) \in Nat
           /\ V \in Seq(1 .. Len(rest)) /\ Len(V) \in Nat
           /\ \A i, j \in 1 .. Len(V) : i < j => V[i] < V[j]
           /\ \A i \in 1 .. Len(X) : X[i] \in 1 .. Len(above \o removed)
           /\ \A i \in 1 .. Len(V) : V[i] \in 1 .. Len(rest)
           /\ Len(U) = Len(X) + Len(V)
           /\ \A i \in 1 .. Len(X) : U[i] = X[i]
           /\ \A i \in 1 .. Len(V) : U[Len(X) + i] = V[i] + Len(above \o removed)
  BY <1>2, <1>3
<1>5. PICK P, Y, W :
           /\ P = PlacesInOrder(prefix, "uri") /\ Y = PlacesInOrder(rest, "uri")
           /\ W = PlacesInOrder(prefix \o rest, "uri")
           /\ P \in Seq(1 .. Len(prefix)) /\ Len(P) \in Nat
           /\ Len(W) = Len(P) + Len(Y)
           /\ \A i \in 1 .. Len(Y) : W[Len(P) + i] = Y[i] + Len(prefix)
  <2>1. prefix \in Lists
    BY <1>1
  <2>2. QED
    BY <2>1, <1>3
<1>6. Len(P) = 0
  <2>1. With(prefix, "uri") = <<>>
    <3>1. above \in Lists /\ removed \in Lists /\ n \in Nat
      BY <1>1
    <3>2. \A b : b \notin {"start", "key", "map", "sequence", "discontinuitySequence"}
                   => With(HeaderOf(above, removed, n), b) = With(above, b)
      BY <3>1, HeaderTags
    <3>3. QED
      BY <1>1, <3>2
  <2>2. \A p \in 1 .. Len(prefix) : prefix[p].tag # "uri"
    BY <1>1, <2>1, WithNowhere
  <2>3. \A i \in 1 .. Len(P) : P[i] \in 1 .. Len(prefix) /\ prefix[P[i]].tag = "uri"
    BY <1>1, <1>5, PlacesLines, ElementOfSeq DEF Lists
  <2>4. QED
    BY <1>5, <2>2, <2>3
<1>7. Len(X) = n /\ Len(V) = Keep
  <2>1. /\ Len(above \o removed) = u /\ U[n] = u /\ Len(U) = n + Keep /\ n \in Nat \ {0}
    BY <1>1, <1>4
  <2>2. u \in Nat /\ Len(rest) \in Nat
    BY <1>1, <1>2, LenProperties DEF Lists
  <2>3. ~(Len(X) < n)
    <3>1. SUFFICES ASSUME Len(X) < n PROVE FALSE
      OBVIOUS
    <3>2. n - Len(X) \in 1 .. Len(V) /\ Len(X) + (n - Len(X)) = n
      BY <1>1, <1>4, <2>1, <3>1
    <3>3. U[n] = V[n - Len(X)] + u /\ V[n - Len(X)] \in 1 .. Len(rest)
      BY <1>4, <2>1, <3>2
    <3>4. QED
      BY <2>1, <2>2, <3>3
  <2>4. ~(n < Len(X))
    <3>1. SUFFICES ASSUME n < Len(X) PROVE FALSE
      OBVIOUS
    <3>2. n + 1 \in 1 .. Len(X) /\ n \in 1 .. Len(X)
      BY <1>4, <2>1, <3>1
    <3>3. X[n] < X[n + 1]
      <4>1. Ascends(X, PlacesOf(above \o removed, "uri"))
        BY <1>2, <1>4, PlacesAscend DEF Lists
      <4>2. n < n + 1
        BY <2>1
      <4>3. QED
        BY <3>2, <4>1, <4>2 DEF Ascends
    <3>4. X[n] = u /\ X[n + 1] \in 1 .. u
      BY <1>4, <2>1, <3>2
    <3>5. QED
      BY <2>2, <3>3, <3>4
  <2>5. /\ n \in Nat /\ Keep \in Nat /\ Len(X) \in Nat /\ Len(V) \in Nat
        /\ Len(X) + Len(V) = n + Keep
    BY <1>1, <1>4
  <2>6. QED
    BY <2>3, <2>4, <2>5
<1>8. U[n] = Len(above \o removed)
  BY <1>1, <1>4
<1>9. /\ Len(U) = n + Keep /\ \A i \in 1 .. Keep : U[n + i] = V[i] + Len(above \o removed)
  BY <1>4, <1>7
<1>10. Len(W) = Keep /\ \A i \in 1 .. Keep : W[i] = V[i] + Len(prefix)
  <2>1. Y = V
    BY <1>4, <1>5
  <2>2. \A i \in 1 .. Keep : Len(P) + i = i
    BY <1>1, <1>6
  <2>3. Len(P) + Len(Y) = Keep
    BY <1>1, <1>6, <1>7, <2>1
  <2>4. QED
    BY <1>5, <1>7, <2>1, <2>2, <2>3
<1>11. QED
  BY <1>4, <1>5, <1>7, <1>8, <1>9, <1>10

\* What a player learns of the segments of a list.
LEMMA SeenIs ==
  ASSUME NEW lines \in Lists, NEW U, U = PlacesInOrder(lines, "uri")
  PROVE  /\ Len(U) \in Nat
         /\ Seen(lines) = [i \in 1 .. Len(U) |->
              SegmentAt(lines, IF i = 1 THEN 1 ELSE U[i - 1] + 1, U[i], i)]
         /\ Len(Seen(lines)) = Len(U)
<1>1. DOMAIN U = 1 .. Len(U) /\ Len(U) \in Nat
  BY PlacesLines, LenProperties DEF Lists
<1>2. Seen(lines) = [i \in 1 .. Len(U) |->
        SegmentAt(lines, IF i = 1 THEN 1 ELSE U[i - 1] + 1, U[i], i)]
  BY <1>1 DEF Seen
<1>3. ASSUME NEW F(_) PROVE Len([i \in 1 .. Len(U) |-> F(i)]) = Len(U)
  BY <1>1
<1>4. QED
  BY <1>1, <1>2, <1>3

\* The player of a cut list sees the last segments of the list, unchanged.
LEMMA WindowStands ==
  ASSUME NEW lines \in Lists, Orderly(lines), NEW inf, NEW u, NEW n, CutsAt(lines, inf, u, n),
         NEW cut \in Lists, cut = Trim(lines).lines
  PROVE  /\ Len(Seen(lines)) > Keep
         /\ Seen(cut) = SubSeq(Seen(lines), Len(Seen(lines)) - Keep + 1, Len(Seen(lines)))
<1>1. PICK first, above, removed, rest, prefix :
           Pieces(lines, inf, u, n, first, above, removed, rest, prefix)
  BY CutPieces
<1>2. TakesOver(above \o removed, rest, prefix, n)
  BY <1>1, HeaderTakesOver
<1>3. lines = (above \o removed) \o rest /\ cut = prefix \o rest /\ n \in Nat \ {0}
  BY <1>1 DEF Pieces
<1>4. PICK x : x = above \o removed
  OBVIOUS
<1>5. PICK U, V, W :
           /\ U = PlacesInOrder(x \o rest, "uri") /\ W = PlacesInOrder(prefix \o rest, "uri")
           /\ Len(V) = Keep /\ Len(U) = n + Keep /\ Len(W) = Keep
           /\ \A i \in 1 .. Keep : V[i] \in 1 .. Len(rest)
           /\ \A i, j \in 1 .. Keep : i < j => V[i] < V[j]
           /\ \A i \in 1 .. Keep : U[n + i] = V[i] + Len(x)
           /\ \A i \in 1 .. Keep : W[i] = V[i] + Len(prefix)
           /\ U[n] = Len(x)
  BY <1>1, <1>4, WindowPlaces
<1>6. /\ Keep \in Nat \ {0} /\ Len(x) \in Nat /\ Len(prefix) \in Nat /\ Len(rest) \in Nat
  <2>1. x \in Lists /\ prefix \in Lists /\ rest \in Lists
    BY <1>2, <1>4 DEF TakesOver
  <2>2. QED
    BY <2>1, PlaylistAssumption, LenProperties DEF Lists
<1>7. PICK all, now : all = Seen(lines) /\ now = Seen(cut)
  OBVIOUS
<1>8. /\ Len(all) = n + Keep /\ Len(now) = Keep
      /\ all = [i \in 1 .. n + Keep |->
                 SegmentAt(x \o rest, IF i = 1 THEN 1 ELSE U[i - 1] + 1, U[i], i)]
      /\ now = [i \in 1 .. Keep |->
                 SegmentAt(prefix \o rest, IF i = 1 THEN 1 ELSE W[i - 1] + 1, W[i], i)]
  <2>1. ASSUME NEW s \in Lists, NEW Z, Z = PlacesInOrder(s, "uri")
        PROVE  /\ Seen(s) = [i \in 1 .. Len(Z) |->
                    SegmentAt(s, IF i = 1 THEN 1 ELSE Z[i - 1] + 1, Z[i], i)]
               /\ Len(Seen(s)) = Len(Z)
    BY <2>1, SeenIs
  <2>2. /\ Seen(lines) = [i \in 1 .. Len(U) |->
             SegmentAt(lines, IF i = 1 THEN 1 ELSE U[i - 1] + 1, U[i], i)]
        /\ Len(Seen(lines)) = Len(U)
    <3>1. U = PlacesInOrder(lines, "uri")
      BY <1>3, <1>4, <1>5
    <3>2. QED
      BY <2>1, <3>1
  <2>3. /\ Seen(cut) = [i \in 1 .. Len(W) |->
             SegmentAt(cut, IF i = 1 THEN 1 ELSE W[i - 1] + 1, W[i], i)]
        /\ Len(Seen(cut)) = Len(W)
    <3>1. W = PlacesInOrder(cut, "uri")
      BY <1>3, <1>5
    <3>2. QED
      BY <2>1, <3>1
  <2>4. lines = x \o rest /\ cut = prefix \o rest
    BY <1>3, <1>4
  <2>5. Len(U) = n + Keep /\ Len(W) = Keep
    BY <1>5
  <2>6. QED
    BY <1>7, <2>2, <2>3, <2>4, <2>5
<1>9. ASSUME NEW i \in 1 .. Keep PROVE all[n + i] = now[i]
  <2>1. PICK f : f = IF i = 1 THEN 1 ELSE V[i - 1] + 1
    OBVIOUS
  <2>2. V[i] \in 1 .. Len(rest) /\ U[n + i] = Len(x) + V[i] /\ W[i] = Len(prefix) + V[i]
    <3>1. /\ V[i] \in 1 .. Len(rest) /\ U[n + i] = V[i] + Len(x) /\ W[i] = V[i] + Len(prefix)
      BY <1>5
    <3>2. QED
      BY <1>6, <3>1
  <2>3. i # 1 => /\ V[i - 1] \in 1 .. Len(rest) /\ V[i - 1] < V[i]
                 /\ U[n + (i - 1)] = Len(x) + V[i - 1] /\ W[i - 1] = Len(prefix) + V[i - 1]
    <3>1. SUFFICES ASSUME i # 1
                   PROVE  /\ V[i - 1] \in 1 .. Len(rest) /\ V[i - 1] < V[i]
                          /\ U[n + (i - 1)] = Len(x) + V[i - 1]
                          /\ W[i - 1] = Len(prefix) + V[i - 1]
      OBVIOUS
    <3>2. i - 1 \in 1 .. Keep /\ i - 1 < i
      BY <1>6, <3>1
    <3>3. /\ V[i - 1] \in 1 .. Len(rest) /\ V[i - 1] < V[i]
          /\ U[n + (i - 1)] = V[i - 1] + Len(x) /\ W[i - 1] = V[i - 1] + Len(prefix)
      BY <1>5, <3>2
    <3>4. QED
      BY <1>6, <3>3
  <2>4. f \in 1 .. V[i]
    BY <1>6, <2>1, <2>2, <2>3
  <2>5. /\ n + i \in 1 .. n + Keep /\ n + i # 1 /\ (n + i) - 1 = n + (i - 1) /\ i \in Nat
        /\ (i = 1 => n + (i - 1) = n)
    BY <1>3, <1>6
  <2>6. U[(n + i) - 1] + 1 = Len(x) + f
    <3>1. CASE i = 1
      <4>1. U[(n + i) - 1] = Len(x) /\ f = 1
        BY <1>5, <2>1, <2>5, <3>1
      <4>2. QED
        BY <4>1
    <3>2. CASE i # 1
      <4>1. U[(n + i) - 1] = Len(x) + V[i - 1] /\ f = V[i - 1] + 1 /\ V[i - 1] \in 1 .. Len(rest)
        BY <2>1, <2>3, <2>5, <3>2
      <4>2. QED
        BY <1>6, <4>1
    <3>3. QED
      BY <3>1, <3>2
  <2>7. PICK g : g = IF i = 1 THEN 1 ELSE W[i - 1] + 1
    OBVIOUS
  <2>8. g = Len(prefix) + f \/ (f = 1 /\ g = 1)
    BY <1>6, <2>1, <2>3, <2>7
  <2>9. SegmentAt(x \o rest, Len(x) + f, Len(x) + V[i], n + i)
          = SegmentAt(prefix \o rest, g, Len(prefix) + V[i], i)
    <3>1. TakesOver(x, rest, prefix, n)
      BY <1>2, <1>4
    <3>2. QED
      BY <2>2, <2>4, <2>5, <2>8, <3>1, SegmentStays
  <2>10. all[n + i] = SegmentAt(x \o rest, Len(x) + f, Len(x) + V[i], n + i)
    BY <1>8, <2>2, <2>5, <2>6
  <2>11. now[i] = SegmentAt(prefix \o rest, g, Len(prefix) + V[i], i)
    BY <1>8, <2>2, <2>7
  <2>12. QED
    BY <2>9, <2>10, <2>11
<1>10. now = SubSeq(all, n + 1, n + Keep)
  <2> DEFINE S == {all[i] : i \in 1 .. n + Keep}
  <2>1. all \in Seq(S) /\ DOMAIN now = 1 .. Keep
    <3>1. DOMAIN all = 1 .. n + Keep /\ n + Keep \in Nat /\ all = [i \in 1 .. n + Keep |-> all[i]]
      BY <1>3, <1>6, <1>8
    <3>2. QED
      BY <1>8, <3>1
  <2> HIDE DEF S
  <2>2. /\ n + 1 \in 1 .. Len(all) + 1 /\ n + Keep \in (n + 1) - 1 .. Len(all)
        /\ (n + Keep) - (n + 1) + 1 = Keep
        /\ \A i \in 1 .. Keep : (n + 1) + i - 1 = n + i
    BY <1>3, <1>6, <1>8
  <2>3. PICK tail : tail = SubSeq(all, n + 1, n + Keep)
    OBVIOUS
  <2>4. /\ tail \in Seq(S) /\ Len(tail) = (n + Keep) - (n + 1) + 1
        /\ \A i \in 1 .. (n + Keep) - (n + 1) + 1 : tail[i] = all[(n + 1) + i - 1]
    BY <2>1, <2>2, <2>3, SubSeqProperties
  <2>5. DOMAIN tail = 1 .. Keep /\ \A i \in 1 .. Keep : tail[i] = now[i]
    BY <1>9, <2>2, <2>4, LenProperties
  <2>6. tail = [i \in 1 .. Keep |-> tail[i]] /\ now = [i \in 1 .. Keep |-> now[i]]
    <3>1. tail = [i \in DOMAIN tail |-> tail[i]]
      BY <2>4
    <3>2. QED
      BY <1>8, <2>5, <3>1
  <2>7. QED
    BY <2>3, <2>5, <2>6
<1>11. n + Keep > Keep /\ (n + Keep) - Keep + 1 = n + 1
  BY <1>3, <1>6
<1>12. QED
  BY <1>7, <1>8, <1>10, <1>11

\* Whatever trimLivePlaylist makes of a list, its player sees what it must.
LEMMA WindowHolds ==
  ASSUME body \in Seq(Line), trimmed = Trim(body)
  PROVE  WindowKept
<1>1. SUFFICES ASSUME Orderly(body), answer.status = 200
      PROVE  IF trimmed.trimmed
             THEN /\ Len(Seen(body)) > Keep
                  /\ Seen(trimmed.lines)
                       = SubSeq(Seen(body), Len(Seen(body)) - Keep + 1, Len(Seen(body)))
             ELSE /\ Seen(trimmed.lines) = Seen(body)
                  /\ trimmed.live /\ ~trimmed.malformed => Len(Seen(body)) <= Keep
  BY DEF WindowKept
<1>2. Regular(body)
  BY <1>1 DEF Orderly
<1>3. trimmed.lines \in Lists /\ body \in Lists
  BY TrimLines DEF Lists
<1>4. CASE trimmed.trimmed
  <2>1. PICK inf, u, n : CutsAt(body, inf, u, n)
    BY <1>2, <1>4, TrimCuts
  <2>2. /\ Len(Seen(body)) > Keep
        /\ Seen(trimmed.lines) = SubSeq(Seen(body), Len(Seen(body)) - Keep + 1, Len(Seen(body)))
    BY <1>1, <1>3, <2>1, WindowStands
  <2>3. QED
    BY <1>4, <2>2
<1>5. CASE ~trimmed.trimmed
  <2>1. /\ trimmed.lines = body
        /\ trimmed.live /\ ~trimmed.malformed => Len(PlacesInOrder(body, "uri")) <= Keep
    BY <1>2, <1>5, TrimCuts
  <2>2. Len(Seen(body)) = Len(PlacesInOrder(body, "uri"))
    BY <1>3, SeenIs
  <2>3. QED
    BY <1>5, <2>1, <2>2
<1>6. QED
  BY <1>4, <1>5

-------------------------------------------------------------------------------
(* Tables whose entries are made of one another.                            *)

\* H says how an entry of a table is made of the entries of lower rank.
Makes(H, D, R, N, rank) ==
  /\ R # {} /\ N \in Nat /\ rank \in [D -> 0 .. N] /\ H \in [D \X [D -> R] -> R]
  /\ \A p \in D : \A f, g \in [D -> R] :
       (\A q \in D : rank[q] < rank[p] => f[q] = g[q]) => H[<<p, f>>] = H[<<p, g>>]

\* Such a table exists.
LEMMA TableExists ==
  ASSUME NEW D, NEW R, NEW N, NEW rank, NEW H, Makes(H, D, R, N, rank)
  PROVE  \E f \in [D -> R] : \A p \in D : f[p] = H[<<p, f>>]
<1>1. /\ R # {} /\ N \in Nat /\ rank \in [D -> 0 .. N] /\ H \in [D \X [D -> R] -> R]
      /\ \A p \in D : \A f, g \in [D -> R] :
           (\A q \in D : rank[q] < rank[p] => f[q] = g[q]) => H[<<p, f>>] = H[<<p, g>>]
  BY DEF Makes
<1> DEFINE Good(f, k) == f \in [D -> R] /\ \A p \in D : rank[p] < k => f[p] = H[<<p, f>>]
           G == {k \in Nat : \E f : Good(f, k)}
<1>2. 0 \in G
  <2>1. PICK r : r \in R
    BY <1>1
  <2>2. Good([p \in D |-> r], 0)
    <3>1. \A p \in D : ~(rank[p] < 0)
      BY <1>1
    <3>2. QED
      BY <2>1, <3>1
  <2>3. QED
    BY <2>2
<1>3. ASSUME NEW k \in Nat, k \in G
      PROVE  k + 1 \in G
  <2>1. PICK f : Good(f, k)
    BY <1>3
  <2>2. f \in [D -> R]
    BY <2>1
  <2> DEFINE g == [p \in D |-> IF rank[p] < k THEN f[p] ELSE H[<<p, f>>]]
  <2>3. g \in [D -> R]
    BY <1>1, <2>2
  <2>4. \A p \in D : g[p] = IF rank[p] < k THEN f[p] ELSE H[<<p, f>>]
    OBVIOUS
  <2> HIDE DEF g
  <2>5. ASSUME NEW p \in D, rank[p] < k + 1 PROVE g[p] = H[<<p, g>>]
    <3>1. \A q \in D : rank[q] < rank[p] => f[q] = g[q]
      <4>1. SUFFICES ASSUME NEW q \in D, rank[q] < rank[p] PROVE f[q] = g[q]
        OBVIOUS
      <4>2. rank[q] \in Nat /\ rank[p] \in Nat
        BY <1>1
      <4>3. rank[q] < k
        BY <2>5, <4>1, <4>2
      <4>4. QED
        BY <2>4, <4>3
    <3>2. H[<<p, f>>] = H[<<p, g>>]
      BY <1>1, <2>2, <2>3, <3>1
    <3>3. g[p] = H[<<p, f>>]
      <4>1. CASE rank[p] < k
        BY <2>1, <2>4, <4>1
      <4>2. CASE ~(rank[p] < k)
        BY <2>4, <4>2
      <4>3. QED
        BY <4>1, <4>2
    <3>4. QED
      BY <3>2, <3>3
  <2>6. Good(g, k + 1)
    BY <2>3, <2>5
  <2>7. k + 1 \in Nat
    OBVIOUS
  <2> HIDE DEF Good
  <2>8. QED
    BY <2>6, <2>7
<1>4. \A k \in Nat : k \in G
  <2> HIDE DEF G
  <2>1. QED
    BY <1>2, <1>3, NatSetInduction
<1>5. N + 1 \in Nat /\ N + 1 \in G
  <2> HIDE DEF G
  <2>1. QED
    BY <1>1, <1>4
<1>6. PICK f : Good(f, N + 1)
  BY <1>5
<1>7. \A p \in D : rank[p] < N + 1
  BY <1>1
<1>8. QED
  BY <1>6, <1>7

-------------------------------------------------------------------------------
(* Texts put together.                                                      *)

\* Rows of bytes, under a name for the same reason as Lists.
Texts == Seq(Protobuf!Bytes)

\* The table that FlattenSeq builds.
Flattens(f, s) ==
  /\ f \in [1 .. Len(s) -> Texts]
  /\ \A i \in 1 .. Len(s) : f[i] = IF i = 1 THEN s[i] ELSE f[i - 1] \o s[i]

\* Texts put together.
LEMMA TextsJoin ==
  /\ <<>> \in Texts
  /\ \A a, b \in Texts : a \o b \in Texts
  /\ \A a, b, c \in Texts : (a \o b) \o c = a \o (b \o c)
  /\ \A a \in Texts : a \o <<>> = a /\ <<>> \o a = a
<1>1. <<>> \in Texts
  BY EmptySeq DEF Texts
<1>2. \A a, b \in Texts : a \o b \in Texts
  BY ConcatProperties DEF Texts
<1>3. \A a, b, c \in Texts : (a \o b) \o c = a \o (b \o c)
  BY ConcatAssociative DEF Texts
<1>4. \A a \in Texts : a \o <<>> = a /\ <<>> \o a = a
  BY ConcatEmptySeq DEF Texts
<1>5. QED
  BY <1>1, <1>2, <1>3, <1>4

\* FlattenSeq of some texts ends such a table.
LEMMA FlattenIs ==
  ASSUME NEW s \in Seq(Texts), Len(s) # 0
  PROVE  \E f : Flattens(f, s) /\ Protobuf!FlattenSeq(s) = f[Len(s)]
<1> DEFINE n == Len(s)
           D == 1 .. n
           Equation(f) == f = [i \in 1 .. Len(s) |-> IF i = 1 THEN s[i] ELSE f[i - 1] \o s[i]]
           E == CHOOSE f : Equation(f)
           H == [x \in D \X [D -> Texts] |->
                   IF x[1] = 1 THEN s[x[1]] ELSE x[2][x[1] - 1] \o s[x[1]]]
           rank == [i \in D |-> i]
<1>1. n \in Nat /\ n # 0 /\ \A i \in D : s[i] \in Texts
  BY LenProperties, ElementOfSeq
<1>2. \A i \in D : i # 1 => i - 1 \in D /\ i - 1 < i
  BY <1>1
<1>3. rank \in [D -> 0 .. n] /\ \A i \in D : rank[i] = i
  BY <1>1
<1>4. \A i \in D : \A f \in [D -> Texts] :
        H[<<i, f>>] = IF i = 1 THEN s[i] ELSE f[i - 1] \o s[i]
  OBVIOUS
<1>5. H \in [D \X [D -> Texts] -> Texts]
  <2>1. \A i \in D : \A f \in [D -> Texts] : (IF i = 1 THEN s[i] ELSE f[i - 1] \o s[i]) \in Texts
    BY <1>1, <1>2, TextsJoin
  <2> HIDE DEF D
  <2>2. QED
    BY <2>1
<1>6. \A p \in D : \A f, g \in [D -> Texts] :
        (\A q \in D : rank[q] < rank[p] => f[q] = g[q]) => H[<<p, f>>] = H[<<p, g>>]
  <2> HIDE DEF H, rank
  <2>1. QED
    BY <1>2, <1>3, <1>4
<1>7. Texts # {}
  BY TextsJoin
<1>8. \E f \in [D -> Texts] : \A p \in D : f[p] = H[<<p, f>>]
  <2>1. Makes(H, D, Texts, n, rank)
    <3> HIDE DEF H, rank, D
    <3>1. QED
      BY <1>1, <1>3, <1>5, <1>6, <1>7 DEF Makes
  <2> HIDE DEF H, rank, D, n
  <2>2. QED
    BY <2>1, TableExists
<1>9. \E f : Equation(f)
  <2>1. PICK f \in [D -> Texts] : \A p \in D : f[p] = H[<<p, f>>]
    BY <1>8
  <2>2. \A p \in D : f[p] = IF p = 1 THEN s[p] ELSE f[p - 1] \o s[p]
    <3> HIDE DEF H
    <3>1. QED
      BY <1>4, <2>1
  <2>3. f = [p \in D |-> f[p]]
    OBVIOUS
  <2>4. Equation(f)
    BY <2>2, <2>3
  <2>5. QED
    BY <2>4
<1>10. Equation(E)
  BY <1>9
<1>11. Protobuf!FlattenSeq(s) = E[Len(s)]
  BY DEF Protobuf!FlattenSeq
<1>12. \A i \in D : E[i] = IF i = 1 THEN s[i] ELSE E[i - 1] \o s[i]
  <2> HIDE DEF E
  <2>1. QED
    BY <1>10
<1>13. E \in [D -> Texts]
  <2> HIDE DEF E
  <2> DEFINE G == {k \in Nat : k \in D => E[k] \in Texts}
  <2>1. 0 \in G
    OBVIOUS
  <2>2. ASSUME NEW k \in Nat, k \in G PROVE k + 1 \in G
    <3>1. CASE k + 1 \in D
      <4>1. CASE k = 0
        BY <1>1, <1>12, <3>1, <4>1
      <4>2. CASE k # 0
        <5>1. k \in D /\ (k + 1) - 1 = k /\ k + 1 # 1
          BY <1>1, <3>1, <4>2
        <5>2. E[k + 1] = E[k] \o s[k + 1] /\ E[k] \in Texts /\ s[k + 1] \in Texts
          BY <1>1, <1>12, <2>2, <3>1, <5>1
        <5>3. E[k] \o s[k + 1] \in Texts
          BY <5>2, TextsJoin
        <5>4. E[k + 1] \in Texts
          BY <5>2, <5>3
        <5>5. QED
          BY <5>4
      <4>3. QED
        BY <4>1, <4>2
    <3>2. QED
      BY <3>1
  <2>3. \A k \in Nat : k \in G
    <3> HIDE DEF G
    <3>1. QED
      BY <2>1, <2>2, NatSetInduction
  <2>4. \A k \in D : E[k] \in Texts
    BY <1>1, <2>3
  <2>5. E = [i \in D |-> IF i = 1 THEN s[i] ELSE E[i - 1] \o s[i]]
    BY <1>10
  <2>6. E = [i \in D |-> E[i]]
    BY <1>12, <2>5
  <2>7. QED
    BY <2>4, <2>6
<1>14. Flattens(E, s)
  <2> HIDE DEF E
  <2>1. QED
    BY <1>12, <1>13 DEF Flattens
<1>15. QED
  <2> HIDE DEF E
  <2>1. QED
    BY <1>11, <1>14

\* FlattenSeq of nothing and of one text more.
LEMMA FlattenMore ==
  /\ Protobuf!FlattenSeq(<<>>) = <<>>
  /\ \A a \in Texts : \A r \in Seq(Texts) :
       Protobuf!FlattenSeq(<<a>> \o r) = a \o Protobuf!FlattenSeq(r)
<1>1. Protobuf!FlattenSeq(<<>>) = <<>>
  <2>1. Len(<<>>) = 0
    OBVIOUS
  <2>2. QED
    BY <2>1 DEF Protobuf!FlattenSeq
<1>2. SUFFICES ASSUME NEW a \in Texts, NEW r \in Seq(Texts)
               PROVE  Protobuf!FlattenSeq(<<a>> \o r) = a \o Protobuf!FlattenSeq(r)
  BY <1>1
<1>3. PICK t : t = <<a>> \o r
  OBVIOUS
<1>4. /\ t \in Seq(Texts) /\ Len(t) = Len(r) + 1 /\ Len(r) \in Nat /\ t[1] = a
      /\ \A i \in 1 .. Len(r) : t[i + 1] = r[i]
  BY <1>3
<1>5. PICK f : Flattens(f, t) /\ Protobuf!FlattenSeq(t) = f[Len(t)]
  <2>1. Len(t) # 0
    BY <1>4
  <2>2. QED
    BY <1>4, <2>1, FlattenIs
<1>6. \A i \in 1 .. Len(t) : f[i] \in Texts /\ f[i] = IF i = 1 THEN t[i] ELSE f[i - 1] \o t[i]
  BY <1>5 DEF Flattens
<1>7. 1 \in 1 .. Len(t) /\ f[1] = a
  BY <1>4, <1>6
<1>8. CASE Len(r) = 0
  <2>1. r = <<>>
    BY <1>8, EmptySeq
  <2>2. Protobuf!FlattenSeq(r) = <<>>
    BY <1>1, <2>1
  <2>3. Protobuf!FlattenSeq(t) = a
    BY <1>4, <1>5, <1>7, <1>8
  <2>4. a \o <<>> = a
    BY TextsJoin
  <2>5. QED
    BY <1>3, <2>2, <2>3, <2>4
<1>9. CASE Len(r) # 0
  <2>1. PICK g : Flattens(g, r) /\ Protobuf!FlattenSeq(r) = g[Len(r)]
    BY <1>9, FlattenIs
  <2>2. \A i \in 1 .. Len(r) : g[i] \in Texts /\ g[i] = IF i = 1 THEN r[i] ELSE g[i - 1] \o r[i]
    BY <2>1 DEF Flattens
  <2> DEFINE G == {k \in Nat : k \in 1 .. Len(r) => f[k + 1] = a \o g[k]}
  <2>3. 0 \in G
    OBVIOUS
  <2>4. ASSUME NEW k \in Nat, k \in G PROVE k + 1 \in G
    <3>1. SUFFICES ASSUME k + 1 \in 1 .. Len(r) PROVE f[(k + 1) + 1] = a \o g[k + 1]
      OBVIOUS
    <3>2. /\ (k + 1) + 1 \in 1 .. Len(t) /\ (k + 1) + 1 # 1 /\ ((k + 1) + 1) - 1 = k + 1
          /\ t[(k + 1) + 1] = r[k + 1] /\ (k + 1) - 1 = k
      BY <1>4, <3>1
    <3>3. f[(k + 1) + 1] = f[k + 1] \o r[k + 1] /\ r[k + 1] \in Texts
      BY <1>6, <3>1, <3>2, ElementOfSeq
    <3>4. CASE k = 0
      <4>1. g[k + 1] = r[k + 1] /\ f[k + 1] = a
        BY <1>7, <2>2, <3>1, <3>4
      <4>2. QED
        BY <3>3, <4>1
    <3>5. CASE k # 0
      <4>1. k \in 1 .. Len(r) /\ k + 1 # 1
        BY <1>4, <3>1, <3>5
      <4>2. g[k + 1] = g[k] \o r[k + 1] /\ f[k + 1] = a \o g[k] /\ g[k] \in Texts
        BY <2>2, <2>4, <3>1, <3>2, <4>1
      <4>3. (a \o g[k]) \o r[k + 1] = a \o (g[k] \o r[k + 1])
        BY <3>3, <4>2, TextsJoin
      <4>4. QED
        BY <3>3, <4>2, <4>3
    <3>6. QED
      BY <3>4, <3>5
  <2>5. \A k \in Nat : k \in G
    <3> HIDE DEF G
    <3>1. QED
      BY <2>3, <2>4, NatSetInduction
  <2>6. Len(r) \in 1 .. Len(r)
    BY <1>4, <1>9
  <2>7. f[Len(r) + 1] = a \o g[Len(r)]
    BY <1>4, <2>5, <2>6
  <2>8. QED
    BY <1>3, <1>4, <1>5, <2>1, <2>7
<1>10. QED
  BY <1>8, <1>9

\* The fields that are left when those of a number go.
OtherThan(number) == {w \in Texts : \A tag \in Protobuf!TagsOf(w) : tag \div 8 # number}

\* Without, as what is picked.
LEMMA WithoutIs ==
  ASSUME NEW fields \in Seq(Texts), NEW number
  PROVE  Protobuf!Without(fields, number) = Protobuf!FlattenSeq(Picked(fields, OtherThan(number)))
<1>1. DOMAIN fields = 1 .. Len(fields) /\ \A f \in DOMAIN fields : fields[f] \in Texts
  BY LenProperties, ElementOfSeq
<1> DEFINE P == {f \in DOMAIN fields : \A tag \in Protobuf!TagsOf(fields[f]) : tag \div 8 # number}
           Q == {p \in DOMAIN fields : fields[p] \in OtherThan(number)}
<1>2. P = Q
  BY <1>1 DEF OtherThan
<1>3. Protobuf!Chosen(fields, P) = Chosen(fields, P)
  BY DEF Protobuf!Chosen, Chosen
<1>4. Protobuf!Without(fields, number) = Protobuf!FlattenSeq(Protobuf!Chosen(fields, P))
  BY DEF Protobuf!Without
<1>5. Picked(fields, OtherThan(number)) = Chosen(fields, Q)
  BY DEF Picked
<1>6. QED
  <2> HIDE DEF P, Q
  <2>1. QED
    BY <1>2, <1>3, <1>4, <1>5

\* Without, of nothing and of one field more.
LEMMA WithoutMore ==
  ASSUME NEW number
  PROVE  /\ Protobuf!Without(<<>>, number) = <<>>
         /\ \A a \in Texts : \A r \in Seq(Texts) :
              Protobuf!Without(<<a>> \o r, number)
                = IF a \in OtherThan(number) THEN a \o Protobuf!Without(r, number)
                  ELSE Protobuf!Without(r, number)
<1>1. Protobuf!Without(<<>>, number) = <<>>
  <2>1. <<>> \in Seq(Texts)
    BY EmptySeq
  <2>2. QED
    BY <2>1, WithoutIs, PickedEmpty, FlattenMore
<1>2. SUFFICES ASSUME NEW a \in Texts, NEW r \in Seq(Texts)
               PROVE  Protobuf!Without(<<a>> \o r, number)
                        = IF a \in OtherThan(number) THEN a \o Protobuf!Without(r, number)
                          ELSE Protobuf!Without(r, number)
  BY <1>1
<1>3. <<a>> \in Seq(Texts) /\ <<a>> \o r \in Seq(Texts)
  OBVIOUS
<1>4. Picked(<<a>> \o r, OtherThan(number))
        = Picked(<<a>>, OtherThan(number)) \o Picked(r, OtherThan(number))
  <2>1. ASSUME NEW x \in Seq(Texts), NEW y \in Seq(Texts), NEW T
        PROVE  Picked(x \o y, T) = Picked(x, T) \o Picked(y, T)
    BY PickedParts
  <2>2. QED
    BY <1>3, <2>1
<1>5. Picked(r, OtherThan(number)) \in Seq(Texts)
  BY PickedMembers
<1>6. /\ Protobuf!Without(<<a>> \o r, number)
           = Protobuf!FlattenSeq(Picked(<<a>> \o r, OtherThan(number)))
      /\ Protobuf!Without(r, number) = Protobuf!FlattenSeq(Picked(r, OtherThan(number)))
  BY <1>3, WithoutIs
<1>7. CASE a \in OtherThan(number)
  <2>1. Picked(<<a>>, OtherThan(number)) = <<a>>
    BY <1>7, PickedOne
  <2>2. Protobuf!FlattenSeq(<<a>> \o Picked(r, OtherThan(number)))
          = a \o Protobuf!FlattenSeq(Picked(r, OtherThan(number)))
    BY <1>5, FlattenMore
  <2>3. QED
    BY <1>4, <1>6, <1>7, <2>1, <2>2
<1>8. CASE a \notin OtherThan(number)
  <2>1. Picked(<<a>>, OtherThan(number)) = <<>>
    BY <1>8, PickedOne
  <2>2. <<>> \o Picked(r, OtherThan(number)) = Picked(r, OtherThan(number))
    BY <1>5, ConcatEmptySeq
  <2>3. QED
    BY <1>4, <1>6, <1>8, <2>1, <2>2
<1>9. QED
  BY <1>7, <1>8

-------------------------------------------------------------------------------
(* The numbers of a message.                                                *)

\* The last byte of the number that begins at a place.
Stop(m, p) == Protobuf!SelectInSubSeq(m, p, Len(m), LAMBDA b : b < 128)

Digit(m, p, digits, n) == IF n < digits THEN m[p + n] % (IF n = 9 THEN 2 ELSE 128) ELSE 0

\* What its digits make.
ValueOf(m, p, digits) ==
  Digit(m, p, digits, 0)
    + 128 * (Digit(m, p, digits, 1)
               + 128 * (Digit(m, p, digits, 2) + 128 * Digit(m, p, digits, 3)))
    + (IF \E n \in 4 .. 9 : Digit(m, p, digits, n) # 0 THEN Protobuf!Huge ELSE 0)

\* readProtobufVarint in these terms.
LEMMA ReadIs ==
  ASSUME NEW m, NEW p
  PROVE  Protobuf!ReadVarint(m, p)
           = IF Stop(m, p) = 0 \/ Stop(m, p) - p + 1 > 10 THEN Protobuf!NotRead
             ELSE [ok |-> TRUE, value |-> ValueOf(m, p, Stop(m, p) - p + 1), next |-> Stop(m, p) + 1]
  BY DEF Protobuf!ReadVarint, Stop, ValueOf, Digit

\* A text is made of bytes.
LEMMA BytesIs ==
  ASSUME NEW m \in Texts
  PROVE  Len(m) \in Nat /\ DOMAIN m = 1 .. Len(m) /\ \A i \in 1 .. Len(m) : m[i] \in 0 .. 255
<1>1. m \in Seq(0 .. 255)
  BY DEF Texts, Protobuf!Bytes
<1>2. QED
  BY <1>1, LenProperties, ElementOfSeq

\* The first byte without the top bit.
LEMMA StopIs ==
  ASSUME NEW m \in Texts, NEW p \in 1 .. Len(m) + 1
  PROVE  /\ Stop(m, p) = 0 \/ Stop(m, p) \in p .. Len(m)
         /\ \A q \in p .. Len(m) :
              Stop(m, p) = q <=> m[q] < 128 /\ \A i \in p .. q - 1 : m[i] >= 128
<1> DEFINE I == {i \in p .. Len(m) : m[i] < 128}
<1>1. Stop(m, p) = IF I # {} THEN Protobuf!Min(I) ELSE 0
  BY DEF Stop, Protobuf!SelectInSubSeq
<1>2. Len(m) \in Nat /\ \A i \in p .. Len(m) : m[i] \in 0 .. 255 /\ i # 0
  BY BytesIs
<1>3. I \in SUBSET Nat
  OBVIOUS
<1>a. ASSUME NEW v \in 0 .. 255 PROVE v < 128 <=> ~(v >= 128)
  OBVIOUS
<1>4. ASSUME I # {} PROVE Protobuf!Min(I) \in I /\ \A i \in I : Protobuf!Min(I) <= i
  <2> HIDE DEF I
  <2>1. PICK x \in I : \A y \in I : x <= y
    BY <1>3, <1>4, LeastNatural
  <2>2. Protobuf!Min(I) = CHOOSE a \in I : \A b \in I : a <= b
    BY DEF Protobuf!Min
  <2>3. QED
    BY <2>1, <2>2
<1>5. Stop(m, p) = 0 \/ Stop(m, p) \in p .. Len(m)
  BY <1>1, <1>4
<1>6. ASSUME NEW q \in p .. Len(m)
      PROVE  Stop(m, p) = q <=> m[q] < 128 /\ \A i \in p .. q - 1 : m[i] >= 128
  <2>1. ASSUME Stop(m, p) = q PROVE m[q] < 128 /\ \A i \in p .. q - 1 : m[i] >= 128
    <3>1. I # {}
      BY <1>1, <1>2, <2>1
    <3>2. q \in I /\ \A i \in I : q <= i
      BY <1>1, <1>4, <2>1, <3>1
    <3>3. ASSUME NEW i \in p .. q - 1 PROVE m[i] >= 128
      <4>1. i \in p .. Len(m) /\ ~(q <= i)
        OBVIOUS
      <4>2. ~(m[i] < 128) /\ m[i] \in 0 .. 255
        BY <1>2, <3>2, <4>1
      <4>3. m[i] < 128 <=> ~(m[i] >= 128)
        BY <1>a, <4>2
      <4>4. QED
        BY <4>2, <4>3
    <3>4. QED
      BY <3>2, <3>3
  <2>2. ASSUME m[q] < 128, \A i \in p .. q - 1 : m[i] >= 128 PROVE Stop(m, p) = q
    <3>1. q \in I
      BY <2>2
    <3>2. Protobuf!Min(I) \in p .. q
      BY <1>2, <1>3, <1>4, <3>1
    <3>3. Protobuf!Min(I) \notin p .. q - 1
      <4>1. \A i \in p .. q - 1 : i \notin I
        <5>1. ASSUME NEW i \in p .. q - 1 PROVE i \notin I
          <6>1. m[i] >= 128 /\ i \in p .. Len(m) /\ m[i] \in 0 .. 255
            BY <1>2, <2>2
          <6>2. m[i] < 128 <=> ~(m[i] >= 128)
            BY <1>a, <6>1
          <6>3. QED
            BY <6>1, <6>2
        <5>2. QED
          BY <5>1
      <4>2. Protobuf!Min(I) \in I
        BY <1>4, <3>1
      <4>3. QED
        BY <4>1, <4>2
    <3>4. QED
      BY <1>1, <3>1, <3>2, <3>3
  <2>3. QED
    BY <2>1, <2>2
<1>7. QED
  BY <1>5, <1>6

\* Digits are numbers, and all there is to a value.
LEMMA ValueIs ==
  ASSUME NEW m, NEW p, NEW digits \in Nat, \A n \in 0 .. digits - 1 : m[p + n] \in 0 .. 255
  PROVE  /\ ValueOf(m, p, digits) \in Nat
         /\ \A w, k : (\A n \in 0 .. digits - 1 : w[k + n] = m[p + n])
                        => ValueOf(w, k, digits) = ValueOf(m, p, digits)
<1>1. \A n \in 0 .. 9 : Digit(m, p, digits, n) \in Nat
  <2>1. SUFFICES ASSUME NEW n \in 0 .. 9 PROVE Digit(m, p, digits, n) \in Nat
    OBVIOUS
  <2>2. CASE n < digits
    <3>1. m[p + n] \in 0 .. 255
      BY <2>2
    <3>2. m[p + n] % 2 \in Nat /\ m[p + n] % 128 \in Nat
      BY <3>1
    <3>3. QED
      BY <2>2, <3>2 DEF Digit
  <2>3. CASE ~(n < digits)
    BY <2>3 DEF Digit
  <2>4. QED
    BY <2>2, <2>3
<1>2. Protobuf!Huge \in Nat
  BY DEF Protobuf!Huge
<1>3. ValueOf(m, p, digits) \in Nat
  <2>1. /\ Digit(m, p, digits, 0) \in Nat /\ Digit(m, p, digits, 1) \in Nat
        /\ Digit(m, p, digits, 2) \in Nat /\ Digit(m, p, digits, 3) \in Nat
    BY <1>1
  <2>2. QED
    BY <1>2, <2>1 DEF ValueOf
<1>4. ASSUME NEW w, NEW k, \A n \in 0 .. digits - 1 : w[k + n] = m[p + n]
      PROVE  ValueOf(w, k, digits) = ValueOf(m, p, digits)
  <2>1. \A n \in 0 .. 9 : Digit(w, k, digits, n) = Digit(m, p, digits, n)
    <3>1. SUFFICES ASSUME NEW n \in 0 .. 9 PROVE Digit(w, k, digits, n) = Digit(m, p, digits, n)
      OBVIOUS
    <3>2. n < digits => w[k + n] = m[p + n]
      BY <1>4
    <3>3. QED
      BY <3>2 DEF Digit
  <2>2. QED
    BY <2>1 DEF ValueOf
<1>5. QED
  BY <1>3, <1>4

\* The number that readProtobufVarint reads at a place.
Num(m, p) == Protobuf!ReadVarint(m, p)

\* What is cut out of a text.
LEMMA CutIs ==
  ASSUME NEW m \in Texts, NEW p \in 1 .. Len(m) + 1, NEW l \in p - 1 .. Len(m)
  PROVE  /\ SubSeq(m, p, l) \in Texts
         /\ Len(SubSeq(m, p, l)) = l - p + 1
         /\ \A n \in 1 .. l - p + 1 : SubSeq(m, p, l)[n] = m[p + n - 1]
         /\ \A a, b \in Nat : a \in 1 .. l - p + 2 /\ b \in a - 1 .. l - p + 1
              => SubSeq(SubSeq(m, p, l), a, b) = SubSeq(m, p + a - 1, p + b - 1)
<1>1. Len(m) \in Nat /\ \A i \in 1 .. Len(m) : m[i] \in 0 .. 255
  BY BytesIs
<1> DEFINE w == SubSeq(m, p, l)
<1>2. /\ w \in Texts /\ Len(w) = l - p + 1
      /\ \A n \in 1 .. l - p + 1 : w[n] = m[p + n - 1]
  BY <1>1, SubSeqProperties DEF Texts
<1>3. ASSUME NEW a \in Nat, NEW b \in Nat, a \in 1 .. l - p + 2, b \in a - 1 .. l - p + 1
      PROVE  SubSeq(w, a, b) = SubSeq(m, p + a - 1, p + b - 1)
  <2> HIDE DEF w
  <2> DEFINE u == SubSeq(w, a, b)
             v == SubSeq(m, p + a - 1, p + b - 1)
  <2>1. /\ u \in Texts /\ Len(u) = b - a + 1
        /\ \A n \in 1 .. b - a + 1 : u[n] = w[a + n - 1]
    BY <1>2, <1>3, SubSeqProperties DEF Texts
  <2>2. /\ v \in Texts /\ Len(v) = b - a + 1
        /\ \A n \in 1 .. b - a + 1 : v[n] = m[(p + a - 1) + n - 1]
    BY <1>1, <1>3, SubSeqProperties DEF Texts
  <2>3. ASSUME NEW n \in 1 .. b - a + 1 PROVE u[n] = v[n]
    <3>1. a + n - 1 \in 1 .. l - p + 1 /\ p + (a + n - 1) - 1 = (p + a - 1) + n - 1
      BY <1>1, <1>3
    <3>2. QED
      BY <1>2, <2>1, <2>2, <3>1
  <2> HIDE DEF u, v
  <2>4. u = v
    BY <2>1, <2>2, <2>3, SeqEqual DEF Texts
  <2>5. QED
    BY <2>4 DEF u, v
<1>4. QED
  BY <1>2, <1>3

\* What is read at a place.
LEMMA NumberRead ==
  ASSUME NEW m \in Texts, NEW p \in 1 .. Len(m) + 1
  PROVE  \/ /\ Num(m, p).ok /\ Stop(m, p) \in p .. Len(m) /\ Stop(m, p) - p + 1 <= 10
            /\ Num(m, p).next = Stop(m, p) + 1 /\ Num(m, p).value \in Nat
            /\ Num(m, p).value = ValueOf(m, p, Stop(m, p) - p + 1)
         \/ /\ ~Num(m, p).ok /\ Num(m, p).next = 0 /\ Num(m, p).value = 0
            /\ Stop(m, p) = 0 \/ Stop(m, p) - p + 1 > 10
<1>1. Len(m) \in Nat /\ \A i \in 1 .. Len(m) : m[i] \in 0 .. 255
  BY BytesIs
<1>2. Stop(m, p) = 0 \/ Stop(m, p) \in p .. Len(m)
  BY StopIs
<1>3. CASE Stop(m, p) = 0 \/ Stop(m, p) - p + 1 > 10
  <2>1. Num(m, p) = Protobuf!NotRead
    BY <1>3, ReadIs DEF Num
  <2>2. QED
    BY <1>3, <2>1 DEF Protobuf!NotRead
<1>4. CASE ~(Stop(m, p) = 0 \/ Stop(m, p) - p + 1 > 10)
  <2> DEFINE s == Stop(m, p)
  <2>1. s \in p .. Len(m) /\ s - p + 1 <= 10
    BY <1>1, <1>2, <1>4
  <2>2. Num(m, p) = [ok |-> TRUE, value |-> ValueOf(m, p, s - p + 1), next |-> s + 1]
    BY <1>4, ReadIs DEF Num
  <2> HIDE DEF s
  <2>3. s - p + 1 \in Nat /\ \A n \in 0 .. (s - p + 1) - 1 : m[p + n] \in 0 .. 255
    <3>1. \A n \in 0 .. (s - p + 1) - 1 : p + n \in 1 .. Len(m)
      BY <1>1, <2>1
    <3>2. s - p + 1 \in Nat
      BY <1>1, <2>1
    <3>3. QED
      BY <1>1, <3>1, <3>2
  <2>4. ValueOf(m, p, s - p + 1) \in Nat
    BY <2>3, ValueIs
  <2>5. QED
    BY <2>1, <2>2, <2>4 DEF s
<1>5. QED
  BY <1>3, <1>4

\* A number is what is read of its bytes, in a message as alone.
LEMMA NumberAt ==
  ASSUME NEW m \in Texts, NEW p \in 1 .. Len(m), NEW q \in p .. Len(m)
  PROVE  /\ Protobuf!IsNumber(SubSeq(m, p, q)) <=> Num(m, p).ok /\ Num(m, p).next = q + 1
         /\ Protobuf!IsNumber(SubSeq(m, p, q))
              => Protobuf!NumberOf(SubSeq(m, p, q)) = Num(m, p).value
<1> DEFINE w == SubSeq(m, p, q)
           d == q - p + 1
<1>1. Len(m) \in Nat /\ \A i \in 1 .. Len(m) : m[i] \in 0 .. 255
  BY BytesIs
<1>2. p \in 1 .. Len(m) + 1 /\ q \in p - 1 .. Len(m) /\ d \in Nat /\ d >= 1
  BY <1>1
<1>3. w \in Texts /\ Len(w) = d /\ \A n \in 1 .. d : w[n] = m[p + n - 1]
  BY <1>2, CutIs
<1>a. ASSUME NEW v \in 0 .. 255 PROVE v < 128 <=> ~(v >= 128)
  OBVIOUS
<1> HIDE DEF w
<1>4. DOMAIN w = 1 .. d /\ \A n \in 1 .. d : w[n] \in 0 .. 255
  BY <1>3, BytesIs
<1>5. Protobuf!IsNumber(w) <=> d <= 10 /\ Stop(w, 1) = d
  <2>1. Stop(w, 1) = d <=> w[d] < 128 /\ \A i \in 1 .. d - 1 : w[i] >= 128
    <3>1. 1 \in 1 .. Len(w) + 1 /\ d \in 1 .. Len(w)
      BY <1>2, <1>3
    <3>2. QED
      BY <1>3, <3>1, StopIs
  <2>2. Protobuf!IsNumber(w) <=> d <= 10 /\ \A n \in 1 .. d : w[n] >= 128 <=> n < d
    <3> HIDE DEF d
    <3>1. Len(w) = d /\ DOMAIN w = 1 .. d /\ (d \in 1 .. 10 <=> d <= 10)
      BY <1>2, <1>3, <1>4
    <3>2. QED
      BY <3>1 DEF Protobuf!IsNumber
  <2>3. (\A n \in 1 .. d : w[n] >= 128 <=> n < d)
          <=> w[d] < 128 /\ \A i \in 1 .. d - 1 : w[i] >= 128
    <3>1. d \in 1 .. d /\ ~(d < d) /\ (w[d] < 128 <=> ~(w[d] >= 128))
      <4>1. d \in 1 .. d /\ ~(d < d)
        BY <1>2
      <4>2. w[d] \in 0 .. 255
        BY <1>4, <4>1
      <4>3. QED
        BY <1>a, <4>1, <4>2
    <3>2. \A n \in 1 .. d : n < d <=> n \in 1 .. d - 1
      BY <1>2
    <3>3. \A n \in 1 .. d : ~(n < d) => n = d
      BY <1>2
    <3>4. \A n \in 1 .. d - 1 : n \in 1 .. d
      BY <1>2
    <3>5. QED
      BY <3>1, <3>2, <3>3, <3>4
  <2>4. QED
    BY <2>1, <2>2, <2>3
<1>6. Stop(w, 1) = d <=> Stop(m, p) = q
  <2>1. Stop(w, 1) = d <=> w[d] < 128 /\ \A i \in 1 .. d - 1 : w[i] >= 128
    <3>1. 1 \in 1 .. Len(w) + 1 /\ d \in 1 .. Len(w)
      BY <1>2, <1>3
    <3>2. QED
      BY <1>3, <3>1, StopIs
  <2>2. Stop(m, p) = q <=> m[q] < 128 /\ \A i \in p .. q - 1 : m[i] >= 128
    BY <1>2, StopIs
  <2>3. w[d] = m[q]
    <3>1. d \in 1 .. d /\ p + d - 1 = q
      BY <1>2
    <3>2. QED
      BY <1>3, <3>1
  <2>4. (\A i \in 1 .. d - 1 : w[i] >= 128) <=> (\A i \in p .. q - 1 : m[i] >= 128)
    <3>1. ASSUME \A i \in 1 .. d - 1 : w[i] >= 128, NEW i \in p .. q - 1 PROVE m[i] >= 128
      <4>1. i - p + 1 \in 1 .. d - 1 /\ i - p + 1 \in 1 .. d /\ p + (i - p + 1) - 1 = i
        BY <1>2
      <4>2. w[i - p + 1] = m[i] /\ w[i - p + 1] >= 128
        BY <1>3, <3>1, <4>1
      <4>3. QED
        BY <4>2
    <3>2. ASSUME \A i \in p .. q - 1 : m[i] >= 128, NEW i \in 1 .. d - 1 PROVE w[i] >= 128
      <4>1. p + i - 1 \in p .. q - 1 /\ i \in 1 .. d
        BY <1>2
      <4>2. w[i] = m[p + i - 1] /\ m[p + i - 1] >= 128
        BY <1>3, <3>2, <4>1
      <4>3. QED
        BY <4>2
    <3>3. QED
      BY <3>1, <3>2
  <2>5. QED
    BY <2>1, <2>2, <2>3, <2>4
<1>7. Num(m, p).ok /\ Num(m, p).next = q + 1 <=> d <= 10 /\ Stop(m, p) = q
  <2> DEFINE s == Stop(m, p)
             r == Num(m, p)
  <2>1. \/ r.ok /\ s \in p .. Len(m) /\ s - p + 1 <= 10 /\ r.next = s + 1
        \/ ~r.ok /\ r.next = 0 /\ (s = 0 \/ s - p + 1 > 10)
    BY <1>2, NumberRead
  <2> HIDE DEF s, r
  <2>2. CASE r.ok /\ s \in p .. Len(m) /\ s - p + 1 <= 10 /\ r.next = s + 1
    <3>1. s + 1 = q + 1 <=> s = q
      BY <1>2, <2>2
    <3>2. s = q => d <= 10
      BY <2>2
    <3>3. QED
      BY <2>2, <3>1, <3>2 DEF s, r
  <2>3. CASE ~r.ok /\ r.next = 0 /\ (s = 0 \/ s - p + 1 > 10)
    <3>1. ~(s = q /\ d <= 10)
      <4>1. SUFFICES ASSUME s = q, d <= 10 PROVE FALSE
        OBVIOUS
      <4>2. s # 0
        BY <1>1, <4>1
      <4>3. ~(s - p + 1 > 10)
        BY <1>2, <4>1
      <4>4. QED
        BY <2>3, <4>2, <4>3
    <3>2. QED
      BY <2>3, <3>1 DEF s, r
  <2>4. QED
    BY <2>1, <2>2, <2>3
<1>8. ASSUME Protobuf!IsNumber(w) PROVE Protobuf!NumberOf(w) = Num(m, p).value
  <2>1. d <= 10 /\ Stop(w, 1) = d /\ Stop(m, p) = q
    BY <1>5, <1>6, <1>8
  <2>2. Protobuf!NumberOf(w) = Num(w, 1).value
    BY DEF Protobuf!NumberOf, Num
  <2>3. Num(w, 1).value = ValueOf(w, 1, d)
    <3>1. /\ 1 \in 1 .. Len(w) + 1
          /\ Stop(w, 1) # 0 /\ ~(Stop(w, 1) - 1 + 1 > 10) /\ Stop(w, 1) - 1 + 1 = d
      BY <1>2, <1>3, <2>1
    <3>2. QED
      BY <1>3, <3>1, NumberRead
  <2>4. Num(m, p).value = ValueOf(m, p, d)
    <3>1. Num(m, p).ok
      BY <1>7, <2>1
    <3>2. QED
      BY <1>2, <2>1, <3>1, NumberRead
  <2>5. ValueOf(w, 1, d) = ValueOf(m, p, d)
    <3>1. \A n \in 0 .. d - 1 : m[p + n] \in 0 .. 255
      <4>1. \A n \in 0 .. d - 1 : p + n \in 1 .. Len(m)
        BY <1>1, <1>2
      <4>2. QED
        BY <1>1, <4>1
    <3>2. ASSUME NEW n \in 0 .. d - 1 PROVE w[1 + n] = m[p + n]
      <4>1. 1 + n \in 1 .. d /\ p + (1 + n) - 1 = p + n
        BY <1>2
      <4>2. QED
        BY <1>3, <4>1
    <3> HIDE DEF d
    <3>3. d \in Nat
      BY <1>2
    <3>4. \A x, k : (\A n \in 0 .. d - 1 : x[k + n] = m[p + n])
                      => ValueOf(x, k, d) = ValueOf(m, p, d)
      BY <3>1, <3>3, ValueIs
    <3>5. \A n \in 0 .. d - 1 : w[1 + n] = m[p + n]
      BY <3>2
    <3>6. QED
      BY <3>4, <3>5
  <2>6. QED
    BY <2>2, <2>3, <2>4, <2>5
<1>9. QED
  BY <1>5, <1>6, <1>7, <1>8 DEF w

-------------------------------------------------------------------------------
(* The fields of a message.                                                 *)

\* Where the content ends that begins at a place.
ContentEnd(m, c, wireType) ==
  CASE wireType = 0 -> Num(m, c).next
    [] wireType = 1 -> c + 8
    [] wireType = 5 -> c + 4
    [] wireType = 2 -> Num(m, c).next + Num(m, c).value
    [] OTHER -> 0

\* Content is what ends where the code takes it to end.
LEMMA ContentAt ==
  ASSUME NEW m \in Texts, NEW c \in 1 .. Len(m) + 1, NEW l \in c - 1 .. Len(m),
         NEW wireType \in 0 .. 7
  PROVE  Protobuf!IsContent(wireType, SubSeq(m, c, l)) <=> ContentEnd(m, c, wireType) = l + 1
<1> DEFINE w == SubSeq(m, c, l)
           d == l - c + 1
<1>1. Len(m) \in Nat /\ l \in Nat /\ d \in Nat /\ l <= Len(m)
  BY BytesIs
<1>2. w \in Texts /\ Len(w) = d /\ \A n \in 1 .. d : SubSeq(w, 1, n) = SubSeq(m, c, c + n - 1)
  <2>1. /\ w \in Texts /\ Len(w) = d
        /\ \A a, b \in Nat : a \in 1 .. d + 1 /\ b \in a - 1 .. d
             => SubSeq(w, a, b) = SubSeq(m, c + a - 1, c + b - 1)
    <3>1. d + 1 = l - c + 2
      BY <1>1
    <3>2. QED
      BY <3>1, CutIs
  <2>2. ASSUME NEW n \in 1 .. d PROVE SubSeq(w, 1, n) = SubSeq(m, c, c + n - 1)
    <3>1. 1 \in Nat /\ n \in Nat /\ 1 \in 1 .. d + 1 /\ n \in 1 - 1 .. d /\ c + 1 - 1 = c
      BY <1>1
    <3> HIDE DEF w, d
    <3>2. QED
      BY <2>1, <3>1
  <2>3. QED
    BY <2>1, <2>2
<1>3. \/ /\ Num(m, c).ok /\ Num(m, c).next \in c + 1 .. Len(m) + 1
         /\ Num(m, c).value \in Nat
      \/ ~Num(m, c).ok /\ Num(m, c).next = 0 /\ Num(m, c).value = 0
  <2>1. \/ /\ Num(m, c).ok /\ Stop(m, c) \in c .. Len(m)
           /\ Num(m, c).next = Stop(m, c) + 1 /\ Num(m, c).value \in Nat
        \/ ~Num(m, c).ok /\ Num(m, c).next = 0 /\ Num(m, c).value = 0
    BY NumberRead
  <2>2. QED
    BY <1>1, <2>1
<1>4. ASSUME NEW n \in 1 .. d
      PROVE  /\ Protobuf!IsNumber(SubSeq(w, 1, n)) <=> Num(m, c).ok /\ Num(m, c).next = c + n
             /\ Protobuf!IsNumber(SubSeq(w, 1, n))
                  => Protobuf!NumberOf(SubSeq(w, 1, n)) = Num(m, c).value
  <2>1. c \in 1 .. Len(m) /\ c + n - 1 \in c .. Len(m) /\ (c + n - 1) + 1 = c + n
    BY <1>1
  <2>2. SubSeq(w, 1, n) = SubSeq(m, c, c + n - 1)
    BY <1>2
  <2>3. /\ Protobuf!IsNumber(SubSeq(m, c, c + n - 1))
             <=> Num(m, c).ok /\ Num(m, c).next = (c + n - 1) + 1
        /\ Protobuf!IsNumber(SubSeq(m, c, c + n - 1))
             => Protobuf!NumberOf(SubSeq(m, c, c + n - 1)) = Num(m, c).value
    BY <2>1, NumberAt
  <2> HIDE DEF w
  <2>4. QED
    BY <2>1, <2>2, <2>3
<1>5. CASE wireType = 0
  <2>1. Protobuf!IsContent(wireType, w) <=> Protobuf!IsNumber(w)
    BY <1>5 DEF Protobuf!IsContent
  <2>2. ContentEnd(m, c, wireType) = Num(m, c).next
    BY <1>5 DEF ContentEnd
  <2>3. CASE d = 0
    <3>1. ~Protobuf!IsNumber(w)
      <4> HIDE DEF w
      <4>1. QED
        BY <1>2, <2>3 DEF Protobuf!IsNumber
    <3>2. Num(m, c).next # l + 1
      BY <1>1, <1>3, <2>3
    <3>3. QED
      BY <2>1, <2>2, <3>1, <3>2
  <2>4. CASE d # 0
    <3>1. c \in 1 .. Len(m) /\ l \in c .. Len(m)
      BY <1>1, <2>4
    <3>2. Protobuf!IsNumber(w) <=> Num(m, c).ok /\ Num(m, c).next = l + 1
      BY <3>1, NumberAt
    <3>3. Num(m, c).next = l + 1 => Num(m, c).ok
      BY <1>1, <1>3
    <3>4. QED
      BY <2>1, <2>2, <3>2, <3>3
  <2>5. QED
    BY <2>3, <2>4
<1>6. CASE wireType = 1
  <2>1. Protobuf!IsContent(wireType, w) <=> d = 8
    BY <1>2, <1>6 DEF Protobuf!IsContent
  <2>2. ContentEnd(m, c, wireType) = c + 8
    BY <1>6 DEF ContentEnd
  <2>3. d = 8 <=> c + 8 = l + 1
    BY <1>1
  <2>4. QED
    BY <2>1, <2>2, <2>3
<1>7. CASE wireType = 5
  <2>1. Protobuf!IsContent(wireType, w) <=> d = 4
    BY <1>2, <1>7 DEF Protobuf!IsContent
  <2>2. ContentEnd(m, c, wireType) = c + 4
    BY <1>7 DEF ContentEnd
  <2>3. d = 4 <=> c + 4 = l + 1
    BY <1>1
  <2>4. QED
    BY <2>1, <2>2, <2>3
<1>8. CASE wireType = 2
  <2>1. Protobuf!IsContent(wireType, w)
          <=> \E n \in 1 .. Len(w) : /\ Protobuf!IsNumber(SubSeq(w, 1, n))
                                     /\ Protobuf!NumberOf(SubSeq(w, 1, n)) = Len(w) - n
    BY <1>8 DEF Protobuf!IsContent
  <2>2. ContentEnd(m, c, wireType) = Num(m, c).next + Num(m, c).value
    BY <1>8 DEF ContentEnd
  <2>3. ASSUME Protobuf!IsContent(wireType, w) PROVE ContentEnd(m, c, wireType) = l + 1
    <3>1. PICK n \in 1 .. d : /\ Protobuf!IsNumber(SubSeq(w, 1, n))
                              /\ Protobuf!NumberOf(SubSeq(w, 1, n)) = d - n
      BY <1>2, <2>1, <2>3
    <3>2. Num(m, c).next = c + n /\ Num(m, c).value = d - n
      BY <1>4, <3>1
    <3>3. (c + n) + (d - n) = l + 1
      BY <1>1
    <3>4. QED
      BY <2>2, <3>2, <3>3
  <2>4. ASSUME ContentEnd(m, c, wireType) = l + 1 PROVE Protobuf!IsContent(wireType, w)
    <3>1. Num(m, c).next + Num(m, c).value = l + 1
      BY <2>2, <2>4
    <3>2. Num(m, c).ok /\ Num(m, c).next \in c + 1 .. Len(m) + 1 /\ Num(m, c).value \in Nat
      BY <1>1, <1>3, <3>1
    <3>3. PICK n : n = Num(m, c).next - c
      OBVIOUS
    <3>4. n \in 1 .. d /\ Num(m, c).next = c + n /\ Num(m, c).value = d - n
      BY <1>1, <3>1, <3>2, <3>3
    <3>5. /\ Protobuf!IsNumber(SubSeq(w, 1, n))
          /\ Protobuf!NumberOf(SubSeq(w, 1, n)) = Num(m, c).value
      BY <1>4, <3>2, <3>4
    <3>6. QED
      BY <1>2, <2>1, <3>4, <3>5
  <2>5. QED
    BY <2>3, <2>4
<1>9. CASE wireType \notin {0, 1, 2, 5}
  <2>1. ~Protobuf!IsContent(wireType, w)
    BY <1>9 DEF Protobuf!IsContent
  <2>2. ContentEnd(m, c, wireType) = 0
    BY <1>9 DEF ContentEnd
  <2>3. 0 # l + 1
    BY <1>1
  <2>4. QED
    BY <2>1, <2>2, <2>3
<1>10. QED
  BY <1>5, <1>6, <1>7, <1>8, <1>9

\* Where the field ends, of the message alone.
FieldEnd(m, p) ==
  IF /\ Num(m, p).ok /\ Num(m, p).value # 0
     /\ ContentEnd(m, Num(m, p).next, Num(m, p).value % 8) <= Len(m) + 1
  THEN ContentEnd(m, Num(m, p).next, Num(m, p).value % 8) ELSE 0

\* End, of the numbers that RemoveField reads.
LEMMA EndIs ==
  ASSUME NEW m \in Texts, NEW p \in 1 .. Len(m) + 1
  PROVE  Protobuf!End(m, [first \in 1 .. Len(m) + 1 |-> Protobuf!ReadVarint(m, first)], p)
           = FieldEnd(m, p)
<1> DEFINE N == [first \in 1 .. Len(m) + 1 |-> Protobuf!ReadVarint(m, first)]
<1>1. \A q \in 1 .. Len(m) + 1 : N[q] = Num(m, q)
  BY DEF Num
<1>2. N[p] = Num(m, p)
  BY <1>1
<1>3. CASE Num(m, p).ok
  <2>1. Num(m, p).next \in 1 .. Len(m) + 1
    <3>1. Stop(m, p) \in p .. Len(m) /\ Num(m, p).next = Stop(m, p) + 1 /\ Len(m) \in Nat
      BY <1>3, NumberRead, BytesIs
    <3>2. QED
      BY <3>1
  <2>2. N[N[p].next] = Num(m, Num(m, p).next)
    BY <1>1, <1>2, <2>1
  <2>3. ASSUME NEW M, M[p] = Num(m, p), M[M[p].next] = Num(m, Num(m, p).next)
        PROVE  Protobuf!End(m, M, p) = FieldEnd(m, p)
    <3>1. M[Num(m, p).next] = Num(m, Num(m, p).next)
      BY <2>3
    <3>2. Protobuf!End(m, M, p)
            = IF /\ Num(m, p).ok /\ Num(m, p).value # 0
                 /\ ContentEnd(m, Num(m, p).next, Num(m, p).value % 8) <= Len(m) + 1
              THEN ContentEnd(m, Num(m, p).next, Num(m, p).value % 8) ELSE 0
      BY <2>3, <3>1 DEF Protobuf!End, ContentEnd
    <3>3. QED
      BY <3>2 DEF FieldEnd
  <2>4. QED
    BY <1>2, <2>2, <2>3
<1>4. CASE ~Num(m, p).ok
  <2>1. ASSUME NEW M, M[p] = Num(m, p) PROVE Protobuf!End(m, M, p) = 0
    BY <1>4, <2>1 DEF Protobuf!End
  <2>2. FieldEnd(m, p) = 0
    BY <1>4 DEF FieldEnd
  <2>3. QED
    BY <1>2, <2>1, <2>2
<1>5. QED
  BY <1>3, <1>4

\* A field is what ends where the code takes it to end, and has one tag.
LEMMA FieldAt ==
  ASSUME NEW m \in Texts, NEW p \in 1 .. Len(m)
  PROVE  /\ FieldEnd(m, p) = 0 \/ FieldEnd(m, p) \in p + 1 .. Len(m) + 1
         /\ \A l \in p .. Len(m) :
              Protobuf!TagsOf(SubSeq(m, p, l))
                = IF FieldEnd(m, p) = l + 1 THEN {Num(m, p).value} ELSE {}
<1>1. Len(m) \in Nat /\ p \in 1 .. Len(m) + 1
  BY BytesIs
<1> DEFINE r == Num(m, p)
           e == ContentEnd(m, r.next, r.value % 8)
<1>2. \/ r.ok /\ r.next \in p + 1 .. Len(m) + 1 /\ r.value \in Nat
      \/ ~r.ok
  <2>1. \/ r.ok /\ Stop(m, p) \in p .. Len(m) /\ r.next = Stop(m, p) + 1 /\ r.value \in Nat
        \/ ~r.ok
    BY <1>1, NumberRead
  <2> HIDE DEF r
  <2>2. QED
    BY <1>1, <2>1
<1>3. r.value \in Nat => r.value % 8 \in 0 .. 7
  <2> HIDE DEF r
  <2>1. QED
    OBVIOUS
<1>4. ASSUME r.ok PROVE e = 0 \/ e >= r.next
  <2>1. r.next \in 1 .. Len(m) + 1 /\ r.value % 8 \in 0 .. 7
    BY <1>1, <1>2, <1>3, <1>4
  <2>2. \/ Num(m, r.next).next \in Nat /\ Num(m, r.next).value = 0 /\ Num(m, r.next).next = 0
        \/ /\ Num(m, r.next).next \in Nat /\ Num(m, r.next).value \in Nat
           /\ Num(m, r.next).next >= r.next
    <3> HIDE DEF r, e
    <3>1. \/ /\ Stop(m, r.next) \in r.next .. Len(m) /\ Num(m, r.next).next = Stop(m, r.next) + 1
             /\ Num(m, r.next).value \in Nat
          \/ Num(m, r.next).value = 0 /\ Num(m, r.next).next = 0
      BY <2>1, NumberRead
    <3>2. QED
      BY <1>1, <2>1, <3>1
  <2> HIDE DEF r
  <2>3. QED
    BY <1>1, <2>1, <2>2 DEF ContentEnd
<1>5. FieldEnd(m, p) = IF r.ok /\ r.value # 0 /\ e <= Len(m) + 1 THEN e ELSE 0
  BY DEF FieldEnd
<1>6. FieldEnd(m, p) = 0 \/ FieldEnd(m, p) \in p + 1 .. Len(m) + 1
  <2>1. CASE r.ok /\ r.value # 0 /\ e <= Len(m) + 1 /\ e # 0
    <3>1. e >= r.next /\ r.next \in p + 1 .. Len(m) + 1 /\ e \in Int
      <4>1. e >= r.next /\ r.next \in p + 1 .. Len(m) + 1
        BY <1>2, <1>4, <2>1
      <4>2. r.next \in 1 .. Len(m) + 1 /\ r.value % 8 \in 0 .. 7
        BY <1>1, <1>2, <1>3, <2>1
      <4>3. Num(m, r.next).next \in Int /\ Num(m, r.next).value \in Int
        <5> HIDE DEF r, e
        <5>1. \/ /\ Stop(m, r.next) \in r.next .. Len(m)
                 /\ Num(m, r.next).next = Stop(m, r.next) + 1
                 /\ Num(m, r.next).value \in Nat
              \/ Num(m, r.next).value = 0 /\ Num(m, r.next).next = 0
          BY <4>2, NumberRead
        <5>2. QED
          BY <1>1, <4>2, <5>1
      <4>4. e \in Int
        <5> HIDE DEF r
        <5>1. QED
          BY <1>1, <4>2, <4>3 DEF ContentEnd
      <4>5. QED
        BY <4>1, <4>4
    <3> HIDE DEF r, e
    <3>2. e \in p + 1 .. Len(m) + 1
      BY <1>1, <2>1, <3>1
    <3>3. QED
      BY <1>5, <2>1, <3>2
  <2>2. CASE ~(r.ok /\ r.value # 0 /\ e <= Len(m) + 1 /\ e # 0)
    <3> HIDE DEF r, e
    <3>1. QED
      BY <1>5, <2>2
  <2>3. QED
    BY <2>1, <2>2
<1>7. ASSUME NEW l \in p .. Len(m)
      PROVE  Protobuf!TagsOf(SubSeq(m, p, l)) = IF FieldEnd(m, p) = l + 1 THEN {r.value} ELSE {}
  <2> DEFINE w == SubSeq(m, p, l)
             d == l - p + 1
             IsTag(n) == /\ Protobuf!IsNumber(SubSeq(w, 1, n))
                         /\ Protobuf!NumberOf(SubSeq(w, 1, n)) # 0
                         /\ Protobuf!IsContent(Protobuf!NumberOf(SubSeq(w, 1, n)) % 8,
                                               SubSeq(w, n + 1, Len(w)))
  <2>1. w \in Texts /\ Len(w) = d /\ d \in Nat /\ d >= 1 /\ l \in Nat /\ l <= Len(m)
    <3>1. l \in p - 1 .. Len(m)
      BY <1>1
    <3>2. w \in Texts /\ Len(w) = d
      BY <1>1, <3>1, CutIs
    <3>3. QED
      BY <1>1, <3>2
  <2>2. Protobuf!TagsOf(w)
          = {Protobuf!NumberOf(SubSeq(w, 1, n)) : n \in {n \in 1 .. Len(w) : IsTag(n)}}
    BY DEF Protobuf!TagsOf
  <2>3. ASSUME NEW n \in 1 .. d
        PROVE  /\ SubSeq(w, 1, n) = SubSeq(m, p, p + n - 1)
               /\ SubSeq(w, n + 1, Len(w)) = SubSeq(m, p + n, l)
    <3>1. \A a, b \in Nat : a \in 1 .. l - p + 2 /\ b \in a - 1 .. l - p + 1
             => SubSeq(w, a, b) = SubSeq(m, p + a - 1, p + b - 1)
      <4>1. l \in p - 1 .. Len(m)
        BY <1>1
      <4>2. QED
        BY <1>1, <4>1, CutIs
    <3>2. /\ 1 \in Nat /\ n \in Nat /\ 1 \in 1 .. l - p + 2 /\ n \in 1 - 1 .. l - p + 1
          /\ p + 1 - 1 = p
          /\ n + 1 \in Nat /\ Len(w) \in Nat /\ n + 1 \in 1 .. l - p + 2
          /\ Len(w) \in (n + 1) - 1 .. l - p + 1 /\ p + (n + 1) - 1 = p + n
          /\ p + Len(w) - 1 = l
      BY <1>1, <2>1
    <3> HIDE DEF w
    <3>3. QED
      BY <3>1, <3>2
  <2>4. ASSUME NEW n \in 1 .. d
        PROVE  /\ IsTag(n) <=> r.ok /\ r.next = p + n /\ r.value # 0 /\ e = l + 1
               /\ IsTag(n) => Protobuf!NumberOf(SubSeq(w, 1, n)) = r.value
    <3>1. p + n - 1 \in p .. Len(m) /\ (p + n - 1) + 1 = p + n
      BY <1>1, <2>1
    <3>2. /\ Protobuf!IsNumber(SubSeq(w, 1, n)) <=> r.ok /\ r.next = p + n
          /\ Protobuf!IsNumber(SubSeq(w, 1, n))
               => Protobuf!NumberOf(SubSeq(w, 1, n)) = r.value
      <4>1. /\ Protobuf!IsNumber(SubSeq(m, p, p + n - 1))
                 <=> Num(m, p).ok /\ Num(m, p).next = (p + n - 1) + 1
            /\ Protobuf!IsNumber(SubSeq(m, p, p + n - 1))
                 => Protobuf!NumberOf(SubSeq(m, p, p + n - 1)) = Num(m, p).value
        BY <3>1, NumberAt
      <4>2. SubSeq(w, 1, n) = SubSeq(m, p, p + n - 1)
        BY <2>3
      <4> HIDE DEF w
      <4>3. QED
        BY <3>1, <4>1, <4>2
    <3>3. ASSUME r.ok, r.next = p + n
          PROVE  Protobuf!IsContent(r.value % 8, SubSeq(w, n + 1, Len(w))) <=> e = l + 1
      <4>1. p + n \in 1 .. Len(m) + 1 /\ l \in (p + n) - 1 .. Len(m) /\ r.value % 8 \in 0 .. 7
        BY <1>1, <1>2, <1>3, <2>1, <3>3
      <4>2. \A v \in 0 .. 7 : Protobuf!IsContent(v, SubSeq(m, p + n, l))
                                <=> ContentEnd(m, p + n, v) = l + 1
        BY <4>1, ContentAt
      <4>3. SubSeq(w, n + 1, Len(w)) = SubSeq(m, p + n, l)
        BY <2>3
      <4> HIDE DEF w, r
      <4>4. QED
        BY <3>3, <4>1, <4>2, <4>3
    <3> HIDE DEF w, r, e
    <3>4. QED
      BY <3>2, <3>3
  <2>5. CASE FieldEnd(m, p) = l + 1
    <3>1. r.ok /\ r.value # 0 /\ e = l + 1
      <4> HIDE DEF r, e
      <4>1. l + 1 # 0
        BY <2>1
      <4>2. QED
        BY <1>5, <2>5, <4>1
    <3>2. PICK n : n = r.next - p
      OBVIOUS
    <3>3. n \in 1 .. d /\ r.next = p + n
      <4>1. r.next \in p + 1 .. Len(m) + 1 /\ e >= r.next
        <5>1. e # 0
          BY <2>1, <3>1
        <5>2. QED
          BY <1>2, <1>4, <3>1, <5>1
      <4> HIDE DEF r, e
      <4>2. QED
        BY <1>1, <2>1, <3>1, <3>2, <4>1
    <3>4. IsTag(n) /\ Protobuf!NumberOf(SubSeq(w, 1, n)) = r.value
      BY <2>4, <3>1, <3>3
    <3>5. \A k \in 1 .. d : IsTag(k) => Protobuf!NumberOf(SubSeq(w, 1, k)) = r.value
      BY <2>4
    <3> HIDE DEF w, r, IsTag, d
    <3>6. Protobuf!TagsOf(w) = {r.value}
      BY <2>1, <2>2, <3>3, <3>4, <3>5
    <3>7. QED
      BY <2>5, <3>6 DEF w, r
  <2>6. CASE FieldEnd(m, p) # l + 1
    <3>1. ~(r.ok /\ r.value # 0 /\ e = l + 1)
      <4> HIDE DEF r, e
      <4>1. SUFFICES ASSUME r.ok, r.value # 0, e = l + 1 PROVE FALSE
        OBVIOUS
      <4>2. e <= Len(m) + 1
        BY <1>1, <2>1, <4>1
      <4>3. QED
        BY <1>5, <2>6, <4>1, <4>2
    <3>2. \A k \in 1 .. d : ~IsTag(k)
      BY <2>4, <3>1
    <3> HIDE DEF w, r, IsTag, d
    <3>3. Protobuf!TagsOf(w) = {}
      BY <2>1, <2>2, <3>2
    <3>4. QED
      BY <2>6, <3>3 DEF w, r
  <2>7. QED
    BY <2>5, <2>6
<1>8. QED
  BY <1>6, <1>7

-------------------------------------------------------------------------------
(* The tables of RemoveField and of the readings.                           *)

\* What RemoveField keeps of the field at a place.
KeptOf(m, number, p) ==
  IF Num(m, p).value \div 8 = number THEN <<>> ELSE SubSeq(m, p, FieldEnd(m, p) - 1)

Copies == [ok : BOOLEAN, output : Texts]

\* The table that RemoveField builds, and the one of the readings.
RemovedFrom(m, number, F) ==
  /\ F[Len(m) + 1] = [ok |-> TRUE, output |-> <<>>]
  /\ \A p \in 1 .. Len(m) :
       F[p] = IF FieldEnd(m, p) = 0 THEN [ok |-> FALSE, output |-> <<>>]
              ELSE [F[FieldEnd(m, p)] EXCEPT !.output = KeptOf(m, number, p) \o @]

ReadFrom(m, T) ==
  /\ T[Len(m) + 1] = {<<>>}
  /\ \A p \in 1 .. Len(m) :
       T[p] = IF FieldEnd(m, p) = 0 THEN {}
              ELSE {<<SubSeq(m, p, FieldEnd(m, p) - 1)>> \o rest : rest \in T[FieldEnd(m, p)]}

\* What is kept of a field is a text, no longer than the field.
LEMMA KeptIs ==
  ASSUME NEW m \in Texts, NEW number, NEW p \in 1 .. Len(m), FieldEnd(m, p) # 0
  PROVE  /\ KeptOf(m, number, p) \in Texts
         /\ SubSeq(m, p, FieldEnd(m, p) - 1) \in Texts
         /\ Len(SubSeq(m, p, FieldEnd(m, p) - 1)) = FieldEnd(m, p) - p
         /\ FieldEnd(m, p) \in p + 1 .. Len(m) + 1
<1>1. FieldEnd(m, p) \in p + 1 .. Len(m) + 1 /\ Len(m) \in Nat
  BY FieldAt, BytesIs
<1>2. /\ p \in 1 .. Len(m) + 1 /\ FieldEnd(m, p) - 1 \in p - 1 .. Len(m)
      /\ (FieldEnd(m, p) - 1) - p + 1 = FieldEnd(m, p) - p
  BY <1>1
<1>3. /\ SubSeq(m, p, FieldEnd(m, p) - 1) \in Texts
      /\ Len(SubSeq(m, p, FieldEnd(m, p) - 1)) = FieldEnd(m, p) - p
  BY <1>2, CutIs
<1>4. QED
  BY <1>1, <1>3, TextsJoin DEF KeptOf

\* RemoveField ends such a table.
LEMMA RemoveIs ==
  ASSUME NEW m \in Texts, NEW number
  PROVE  \E F : RemovedFrom(m, number, F) /\ Protobuf!RemoveField(m, number) = F[1]
<1> DEFINE places == 1 .. Len(m) + 1
           numbers == [first \in places |-> Protobuf!ReadVarint(m, first)]
           ends == [first \in places |-> Protobuf!End(m, numbers, first)]
           Kept(first) == IF numbers[first].value \div 8 = number THEN <<>>
                          ELSE SubSeq(m, first, ends[first] - 1)
           Equation(from) ==
             from = [first \in places |->
               CASE first = Len(m) + 1 -> [ok |-> TRUE, output |-> <<>>]
                 [] first <= Len(m) /\ ends[first] = 0 -> [ok |-> FALSE, output |-> <<>>]
                 [] OTHER -> LET rest == from[ends[first]]
                             IN [rest EXCEPT !.output = Kept(first) \o @]]
           E == CHOOSE from : Equation(from)
           Entry(p, f) == IF p = Len(m) + 1 THEN [ok |-> TRUE, output |-> <<>>]
                          ELSE IF FieldEnd(m, p) = 0 THEN [ok |-> FALSE, output |-> <<>>]
                          ELSE [f[FieldEnd(m, p)] EXCEPT !.output = KeptOf(m, number, p) \o @]
           H == [x \in places \X [places -> Copies] |-> Entry(x[1], x[2])]
           rank == [p \in places |-> Len(m) + 1 - p]
<1>1. Len(m) \in Nat /\ Len(m) + 1 \in Nat
  BY BytesIs
<1>2. \A p \in places : numbers[p] = Num(m, p) /\ ends[p] = FieldEnd(m, p)
  BY EndIs DEF Num
<1>3. \A p \in places : Kept(p) = KeptOf(m, number, p)
  <2> HIDE DEF numbers, ends
  <2>1. QED
    BY <1>2 DEF KeptOf
<1>4. Protobuf!RemoveField(m, number) = E[1]
  BY DEF Protobuf!RemoveField
<1>5. \A f : Equation(f) <=> f = [p \in places |-> Entry(p, f)]
  <2>1. \A p \in places : \A f :
          (CASE p = Len(m) + 1 -> [ok |-> TRUE, output |-> <<>>]
             [] p <= Len(m) /\ ends[p] = 0 -> [ok |-> FALSE, output |-> <<>>]
             [] OTHER -> LET rest == f[ends[p]] IN [rest EXCEPT !.output = Kept(p) \o @])
            = Entry(p, f)
    <3> HIDE DEF numbers, ends, Kept
    <3>1. SUFFICES ASSUME NEW p \in places, NEW f
                   PROVE  (CASE p = Len(m) + 1 -> [ok |-> TRUE, output |-> <<>>]
                             [] p <= Len(m) /\ ends[p] = 0 -> [ok |-> FALSE, output |-> <<>>]
                             [] OTHER -> LET rest == f[ends[p]]
                                         IN [rest EXCEPT !.output = Kept(p) \o @])
                            = Entry(p, f)
      OBVIOUS
    <3>2. ends[p] = FieldEnd(m, p) /\ Kept(p) = KeptOf(m, number, p)
      BY <1>2, <1>3
    <3>3. p # Len(m) + 1 => p <= Len(m)
      BY <1>1
    <3>4. CASE p = Len(m) + 1
      <4>1. ~(p <= Len(m))
        BY <1>1, <3>4
      <4>2. QED
        BY <3>4, <4>1
    <3>5. CASE p # Len(m) + 1 /\ ends[p] = 0
      BY <3>2, <3>3, <3>5
    <3>6. CASE p # Len(m) + 1 /\ ends[p] # 0
      BY <3>2, <3>6
    <3>7. QED
      BY <3>4, <3>5, <3>6
  <2> HIDE DEF numbers, ends, Kept, Entry, places
  <2>2. QED
    BY <2>1
<1>6. \A p \in places : p # Len(m) + 1 => p \in 1 .. Len(m)
  BY <1>1
<1>7. \A p \in places : p # Len(m) + 1 /\ FieldEnd(m, p) # 0
        => /\ FieldEnd(m, p) \in places /\ KeptOf(m, number, p) \in Texts
           /\ rank[FieldEnd(m, p)] < rank[p]
  <2>1. SUFFICES ASSUME NEW p \in places, p # Len(m) + 1, FieldEnd(m, p) # 0
                 PROVE  /\ FieldEnd(m, p) \in places /\ KeptOf(m, number, p) \in Texts
                        /\ rank[FieldEnd(m, p)] < rank[p]
    OBVIOUS
  <2>2. FieldEnd(m, p) \in p + 1 .. Len(m) + 1 /\ KeptOf(m, number, p) \in Texts
    BY <1>6, <2>1, KeptIs
  <2>3. FieldEnd(m, p) \in places
    BY <1>1, <2>2
  <2>4. rank[p] = Len(m) + 1 - p /\ rank[FieldEnd(m, p)] = Len(m) + 1 - FieldEnd(m, p)
    BY <2>3
  <2>5. Len(m) + 1 - FieldEnd(m, p) < Len(m) + 1 - p
    BY <1>1, <2>2
  <2>6. QED
    BY <2>2, <2>3, <2>4, <2>5
<1>8. \A p \in places : \A f \in [places -> Copies] : Entry(p, f) \in Copies
  <2>1. SUFFICES ASSUME NEW p \in places, NEW f \in [places -> Copies] PROVE Entry(p, f) \in Copies
    OBVIOUS
  <2>2. \A output \in Texts, ok \in BOOLEAN : [ok |-> ok, output |-> output] \in Copies
    BY DEF Copies
  <2>3. CASE p = Len(m) + 1 \/ FieldEnd(m, p) = 0
    BY <2>2, <2>3, TextsJoin
  <2>4. CASE p # Len(m) + 1 /\ FieldEnd(m, p) # 0
    <3>1. FieldEnd(m, p) \in places /\ KeptOf(m, number, p) \in Texts
      BY <1>7, <2>4
    <3>2. PICK c : c = f[FieldEnd(m, p)]
      OBVIOUS
    <3>3. c \in Copies
      BY <3>1, <3>2
    <3>4. KeptOf(m, number, p) \o c.output \in Texts
      <4>1. c.output \in Texts
        BY <3>3 DEF Copies
      <4>2. QED
        BY <3>1, <4>1, TextsJoin
    <3>5. Entry(p, f) = [c EXCEPT !.output = KeptOf(m, number, p) \o c.output]
      BY <2>4, <3>2
    <3>6. QED
      BY <3>3, <3>4, <3>5 DEF Copies
  <2>5. QED
    BY <2>3, <2>4
<1>9. H \in [places \X [places -> Copies] -> Copies]
  <2> HIDE DEF Entry, places
  <2>1. QED
    BY <1>8
<1>10. \A p \in places : \A f \in [places -> Copies] : H[<<p, f>>] = Entry(p, f)
  <2> HIDE DEF Entry, places
  <2>1. QED
    OBVIOUS
<1>11. \A p \in places : \A f, g \in [places -> Copies] :
         (\A q \in places : rank[q] < rank[p] => f[q] = g[q]) => H[<<p, f>>] = H[<<p, g>>]
  <2>1. SUFFICES ASSUME NEW p \in places, NEW f \in [places -> Copies],
                        NEW g \in [places -> Copies],
                        \A q \in places : rank[q] < rank[p] => f[q] = g[q]
                 PROVE  Entry(p, f) = Entry(p, g)
    <3> HIDE DEF H, Entry, places, rank
    <3>1. QED
      BY <1>10
  <2> HIDE DEF places, rank
  <2>2. QED
    BY <1>7, <2>1
<1>12. rank \in [places -> 0 .. Len(m) + 1]
  BY <1>1
<1>13. Copies # {}
  <2>1. [ok |-> TRUE, output |-> <<>>] \in Copies
    BY TextsJoin DEF Copies
  <2>2. QED
    BY <2>1
<1>14. \E f \in [places -> Copies] : \A p \in places : f[p] = H[<<p, f>>]
  <2>1. Makes(H, places, Copies, Len(m) + 1, rank)
    <3> HIDE DEF H, rank, places
    <3>1. QED
      BY <1>1, <1>9, <1>11, <1>12, <1>13 DEF Makes
  <2> HIDE DEF H, rank, places
  <2>2. QED
    BY <2>1, TableExists
<1>15. Equation(E)
  <2>1. PICK f \in [places -> Copies] : \A p \in places : f[p] = H[<<p, f>>]
    BY <1>14
  <2>2. \A p \in places : f[p] = Entry(p, f)
    <3> HIDE DEF H, Entry, places
    <3>1. QED
      BY <1>10, <2>1
  <2>3. f = [p \in places |-> Entry(p, f)]
    <3> HIDE DEF Entry, places
    <3>1. QED
      BY <2>2
  <2>4. Equation(f)
    <3> HIDE DEF Entry, places, Equation
    <3>1. QED
      BY <1>5, <2>3
  <2> HIDE DEF Equation
  <2>5. QED
    BY <2>4
<1>16. \A p \in places : E[p] = Entry(p, E)
  <2>1. E = [p \in places |-> Entry(p, E)]
    <3> HIDE DEF Entry, places, Equation, E
    <3>1. QED
      BY <1>5, <1>15
  <2> HIDE DEF Entry, places, E
  <2>2. QED
    BY <2>1
<1>17. RemovedFrom(m, number, E)
  <2> HIDE DEF E
  <2>1. \A p \in 1 .. Len(m) : p \in places /\ p # Len(m) + 1
    BY <1>1
  <2>2. Len(m) + 1 \in places
    BY <1>1
  <2>3. E[Len(m) + 1] = [ok |-> TRUE, output |-> <<>>]
    BY <1>16, <2>2
  <2>4. \A p \in 1 .. Len(m) :
          E[p] = IF FieldEnd(m, p) = 0 THEN [ok |-> FALSE, output |-> <<>>]
                 ELSE [E[FieldEnd(m, p)] EXCEPT !.output = KeptOf(m, number, p) \o @]
    <3> HIDE DEF places
    <3>1. QED
      BY <1>16, <2>1
  <2>5. QED
    BY <2>3, <2>4 DEF RemovedFrom
<1>18. QED
  <2> HIDE DEF E
  <2>1. QED
    BY <1>4, <1>17

\* Readings ends such a table.
LEMMA ReadingsIs ==
  ASSUME NEW m \in Texts
  PROVE  \E T : ReadFrom(m, T) /\ Protobuf!Readings(m) = T[1]
<1> DEFINE places == 1 .. Len(m) + 1
           R == SUBSET Seq(Texts)
           Row(first, from) ==
             UNION {{<<SubSeq(m, first, last)>> \o rest : rest \in from[last + 1]} :
                      last \in {l \in first .. Len(m) :
                                 Protobuf!TagsOf(SubSeq(m, first, l)) # {}}}
           Equation(from) ==
             from = [first \in 1 .. Len(m) + 1 |->
               IF first = Len(m) + 1 THEN {<<>>}
               ELSE UNION {{<<SubSeq(m, first, last)>> \o rest : rest \in from[last + 1]} :
                             last \in {l \in first .. Len(m) :
                                        Protobuf!TagsOf(SubSeq(m, first, l)) # {}}}]
           E == CHOOSE from : Equation(from)
           Entry(p, f) == IF p = Len(m) + 1 THEN {<<>>}
                          ELSE IF FieldEnd(m, p) = 0 THEN {}
                          ELSE {<<SubSeq(m, p, FieldEnd(m, p) - 1)>> \o rest :
                                  rest \in f[FieldEnd(m, p)]}
           H == [x \in places \X [places -> R] |-> Entry(x[1], x[2])]
           rank == [p \in places |-> Len(m) + 1 - p]
<1>1. Len(m) \in Nat /\ Len(m) + 1 \in Nat
  BY BytesIs
<1>2. \A p \in places : p # Len(m) + 1 => p \in 1 .. Len(m)
  BY <1>1
<1>3. Protobuf!Readings(m) = E[1]
  BY DEF Protobuf!Readings
<1>4. ASSUME NEW p \in 1 .. Len(m), NEW f PROVE Row(p, f) = Entry(p, f)
  <2> DEFINE L == {l \in p .. Len(m) : Protobuf!TagsOf(SubSeq(m, p, l)) # {}}
             A(l) == {<<SubSeq(m, p, l)>> \o rest : rest \in f[l + 1]}
             e == FieldEnd(m, p)
  <2>1. /\ e = 0 \/ e \in p + 1 .. Len(m) + 1
        /\ \A l \in p .. Len(m) : Protobuf!TagsOf(SubSeq(m, p, l)) # {} <=> e = l + 1
    <3>1. /\ e = 0 \/ e \in p + 1 .. Len(m) + 1
          /\ \A l \in p .. Len(m) : Protobuf!TagsOf(SubSeq(m, p, l))
                                      = IF e = l + 1 THEN {Num(m, p).value} ELSE {}
      BY FieldAt
    <3> HIDE DEF e
    <3>2. QED
      BY <3>1
  <2>2. Row(p, f) = UNION {A(l) : l \in L}
    OBVIOUS
  <2>3. p # Len(m) + 1
    BY <1>1
  <2>4. CASE e = 0
    <3>1. L = {}
      <4>1. \A l \in p .. Len(m) : 0 # l + 1
        BY <1>1
      <4> HIDE DEF e
      <4>2. QED
        BY <2>1, <2>4, <4>1
    <3>2. Entry(p, f) = {}
      BY <2>3, <2>4
    <3> HIDE DEF L, Row, A, Entry
    <3>3. QED
      BY <2>2, <3>1, <3>2
  <2>5. CASE e # 0
    <3>1. e - 1 \in p .. Len(m) /\ (e - 1) + 1 = e
      <4> HIDE DEF e
      <4>1. QED
        BY <1>1, <2>1, <2>5
    <3>2. L = {e - 1}
      <4>1. \A l \in p .. Len(m) : e = l + 1 <=> l = e - 1
        <5> HIDE DEF e
        <5>1. QED
          BY <1>1, <3>1
      <4> HIDE DEF e
      <4>2. QED
        BY <2>1, <3>1, <4>1
    <3>3. A(e - 1) = {<<SubSeq(m, p, e - 1)>> \o rest : rest \in f[e]}
      <4> HIDE DEF e
      <4>1. QED
        BY <3>1
    <3>4. Entry(p, f) = {<<SubSeq(m, p, e - 1)>> \o rest : rest \in f[e]}
      BY <2>3, <2>5
    <3> HIDE DEF L, Row, A, Entry
    <3>5. UNION {A(l) : l \in L} = A(e - 1)
      BY <3>2
    <3>6. QED
      BY <2>2, <3>3, <3>4, <3>5
  <2>6. QED
    BY <2>4, <2>5
<1>5. \A f : Equation(f) <=> f = [p \in places |-> Entry(p, f)]
  <2>1. \A p \in places : \A f :
          (IF p = Len(m) + 1 THEN {<<>>} ELSE Row(p, f)) = Entry(p, f)
    <3>1. SUFFICES ASSUME NEW p \in places, NEW f
                   PROVE  (IF p = Len(m) + 1 THEN {<<>>} ELSE Row(p, f)) = Entry(p, f)
      OBVIOUS
    <3>2. CASE p = Len(m) + 1
      BY <3>2
    <3>3. CASE p # Len(m) + 1
      <4>1. Row(p, f) = Entry(p, f)
        <5>1. p \in 1 .. Len(m)
          BY <1>2, <3>3
        <5> HIDE DEF Row, Entry
        <5>2. QED
          BY <1>4, <5>1
      <4> HIDE DEF Row, Entry
      <4>2. QED
        BY <3>3, <4>1
    <3>4. QED
      BY <3>2, <3>3
  <2>2. \A f : Equation(f)
          <=> f = [p \in places |-> IF p = Len(m) + 1 THEN {<<>>} ELSE Row(p, f)]
    OBVIOUS
  <2> HIDE DEF Row, Entry, places, Equation
  <2>3. QED
    BY <2>1, <2>2
<1>6. \A p \in places : p # Len(m) + 1 /\ FieldEnd(m, p) # 0
        => /\ FieldEnd(m, p) \in places /\ SubSeq(m, p, FieldEnd(m, p) - 1) \in Texts
           /\ rank[FieldEnd(m, p)] < rank[p]
  <2>1. SUFFICES ASSUME NEW p \in places, p # Len(m) + 1, FieldEnd(m, p) # 0
                 PROVE  /\ FieldEnd(m, p) \in places
                        /\ SubSeq(m, p, FieldEnd(m, p) - 1) \in Texts
                        /\ rank[FieldEnd(m, p)] < rank[p]
    OBVIOUS
  <2>2. /\ FieldEnd(m, p) \in p + 1 .. Len(m) + 1
        /\ SubSeq(m, p, FieldEnd(m, p) - 1) \in Texts
    BY <1>2, <2>1, KeptIs
  <2>3. FieldEnd(m, p) \in places
    BY <1>1, <2>2
  <2>4. rank[p] = Len(m) + 1 - p /\ rank[FieldEnd(m, p)] = Len(m) + 1 - FieldEnd(m, p)
    BY <2>3
  <2>5. Len(m) + 1 - FieldEnd(m, p) < Len(m) + 1 - p
    BY <1>1, <2>2
  <2>6. QED
    BY <2>2, <2>3, <2>4, <2>5
<1>7. \A p \in places : \A f \in [places -> R] : Entry(p, f) \in R
  <2>1. SUFFICES ASSUME NEW p \in places, NEW f \in [places -> R] PROVE Entry(p, f) \in R
    OBVIOUS
  <2>2. CASE p = Len(m) + 1
    <3>1. <<>> \in Seq(Texts)
      BY EmptySeq
    <3>2. QED
      BY <2>2, <3>1
  <2>3. CASE p # Len(m) + 1 /\ FieldEnd(m, p) = 0
    BY <2>3
  <2>4. CASE p # Len(m) + 1 /\ FieldEnd(m, p) # 0
    <3> DEFINE w == SubSeq(m, p, FieldEnd(m, p) - 1)
    <3>1. FieldEnd(m, p) \in places /\ w \in Texts
      BY <1>6, <2>4
    <3>2. f[FieldEnd(m, p)] \subseteq Seq(Texts)
      BY <3>1
    <3>3. Entry(p, f) = {<<w>> \o rest : rest \in f[FieldEnd(m, p)]}
      BY <2>4
    <3> HIDE DEF w, Entry
    <3>4. \A rest \in Seq(Texts) : <<w>> \o rest \in Seq(Texts)
      BY <3>1
    <3>5. QED
      BY <3>2, <3>3, <3>4
  <2>5. QED
    BY <2>2, <2>3, <2>4
<1>8. H \in [places \X [places -> R] -> R]
  <2> HIDE DEF Entry, places, R
  <2>1. QED
    BY <1>7
<1>9. \A p \in places : \A f \in [places -> R] : H[<<p, f>>] = Entry(p, f)
  <2> HIDE DEF Entry, places, R
  <2>1. QED
    OBVIOUS
<1>10. \A p \in places : \A f, g \in [places -> R] :
         (\A q \in places : rank[q] < rank[p] => f[q] = g[q]) => H[<<p, f>>] = H[<<p, g>>]
  <2>1. SUFFICES ASSUME NEW p \in places, NEW f \in [places -> R], NEW g \in [places -> R],
                        \A q \in places : rank[q] < rank[p] => f[q] = g[q]
                 PROVE  Entry(p, f) = Entry(p, g)
    <3> HIDE DEF H, Entry, places, rank, R
    <3>1. QED
      BY <1>9
  <2> HIDE DEF places, rank, R
  <2>2. QED
    BY <1>6, <2>1
<1>11. rank \in [places -> 0 .. Len(m) + 1]
  BY <1>1
<1>12. R # {}
  OBVIOUS
<1>13. \E f \in [places -> R] : \A p \in places : f[p] = H[<<p, f>>]
  <2>1. Makes(H, places, R, Len(m) + 1, rank)
    <3> HIDE DEF H, rank, places, R
    <3>1. QED
      BY <1>1, <1>8, <1>10, <1>11, <1>12 DEF Makes
  <2> HIDE DEF H, rank, places, R
  <2>2. QED
    BY <2>1, TableExists
<1>14. Equation(E)
  <2>1. PICK f \in [places -> R] : \A p \in places : f[p] = H[<<p, f>>]
    BY <1>13
  <2>2. \A p \in places : f[p] = Entry(p, f)
    <3> HIDE DEF H, Entry, places, R
    <3>1. QED
      BY <1>9, <2>1
  <2>3. f = [p \in places |-> Entry(p, f)]
    <3> HIDE DEF Entry, places, R
    <3>1. QED
      BY <2>2
  <2>4. Equation(f)
    <3> HIDE DEF Entry, places, Equation
    <3>1. QED
      BY <1>5, <2>3
  <2> HIDE DEF Equation
  <2>5. QED
    BY <2>4
<1>15. \A p \in places : E[p] = Entry(p, E)
  <2>1. E = [p \in places |-> Entry(p, E)]
    <3> HIDE DEF Entry, places, Equation, E
    <3>1. QED
      BY <1>5, <1>14
  <2> HIDE DEF Entry, places, E
  <2>2. QED
    BY <2>1
<1>16. ReadFrom(m, E)
  <2> HIDE DEF E
  <2>1. \A p \in 1 .. Len(m) : p \in places /\ p # Len(m) + 1
    BY <1>1
  <2>2. Len(m) + 1 \in places
    BY <1>1
  <2>3. E[Len(m) + 1] = {<<>>}
    BY <1>15, <2>2
  <2>4. \A p \in 1 .. Len(m) :
          E[p] = IF FieldEnd(m, p) = 0 THEN {}
                 ELSE {<<SubSeq(m, p, FieldEnd(m, p) - 1)>> \o rest : rest \in E[FieldEnd(m, p)]}
    <3> HIDE DEF places
    <3>1. QED
      BY <1>15, <2>1
  <2>5. QED
    BY <2>3, <2>4 DEF ReadFrom
<1>17. QED
  <2> HIDE DEF E
  <2>1. QED
    BY <1>3, <1>16

\* A text from a place on, cut in two.
LEMMA CutInTwo ==
  ASSUME NEW m \in Texts, NEW p \in 1 .. Len(m) + 1, NEW e \in p .. Len(m) + 1
  PROVE  SubSeq(m, p, e - 1) \o SubSeq(m, e, Len(m)) = SubSeq(m, p, Len(m))
<1> DEFINE a == SubSeq(m, p, e - 1)
           b == SubSeq(m, e, Len(m))
           w == SubSeq(m, p, Len(m))
<1>1. Len(m) \in Nat
  BY BytesIs
<1>2. a \in Texts /\ Len(a) = e - p /\ \A n \in 1 .. e - p : a[n] = m[p + n - 1]
  <2>1. e - 1 \in p - 1 .. Len(m) /\ (e - 1) - p + 1 = e - p
    BY <1>1
  <2>2. QED
    BY <2>1, CutIs
<1>3. /\ b \in Texts /\ Len(b) = Len(m) + 1 - e
      /\ \A n \in 1 .. Len(m) + 1 - e : b[n] = m[e + n - 1]
  <2>1. /\ e \in 1 .. Len(m) + 1 /\ Len(m) \in e - 1 .. Len(m)
        /\ Len(m) - e + 1 = Len(m) + 1 - e
    BY <1>1
  <2>2. QED
    BY <2>1, CutIs
<1>4. /\ w \in Texts /\ Len(w) = Len(m) + 1 - p
      /\ \A n \in 1 .. Len(m) + 1 - p : w[n] = m[p + n - 1]
  <2>1. Len(m) \in p - 1 .. Len(m) /\ Len(m) - p + 1 = Len(m) + 1 - p
    BY <1>1
  <2>2. QED
    BY <2>1, CutIs
<1> HIDE DEF a, b, w
<1>5. /\ a \o b \in Texts /\ Len(a \o b) = Len(a) + Len(b)
      /\ \A n \in 1 .. Len(a) + Len(b) :
           (a \o b)[n] = IF n <= Len(a) THEN a[n] ELSE b[n - Len(a)]
  BY <1>2, <1>3, ConcatProperties DEF Texts
<1>6. Len(a \o b) = Len(w)
  BY <1>1, <1>2, <1>3, <1>4, <1>5
<1>7. ASSUME NEW n \in 1 .. Len(w) PROVE (a \o b)[n] = w[n]
  <2>1. n \in 1 .. Len(m) + 1 - p /\ n \in 1 .. Len(a) + Len(b)
    BY <1>4, <1>5, <1>6, <1>7
  <2>2. w[n] = m[p + n - 1]
    BY <1>4, <2>1
  <2>3. CASE n <= e - p
    <3>1. n \in 1 .. e - p
      BY <1>1, <2>1, <2>3
    <3>2. (a \o b)[n] = a[n]
      BY <1>2, <1>5, <2>1, <2>3
    <3>3. QED
      BY <1>2, <2>2, <3>1, <3>2
  <2>4. CASE ~(n <= e - p)
    <3>1. /\ n - (e - p) \in 1 .. Len(m) + 1 - e /\ e + (n - (e - p)) - 1 = p + n - 1
      BY <1>1, <2>1, <2>4
    <3>2. (a \o b)[n] = b[n - (e - p)]
      BY <1>2, <1>5, <2>1, <2>4
    <3>3. b[n - (e - p)] = m[p + n - 1]
      BY <1>3, <3>1
    <3>4. QED
      BY <2>2, <3>2, <3>3
  <2>5. QED
    BY <2>3, <2>4
<1>8. a \o b = w
  <2> DEFINE u == a \o b
  <2>1. u \in Texts /\ Len(u) = Len(w) /\ \A n \in 1 .. Len(w) : u[n] = w[n]
    BY <1>5, <1>6, <1>7
  <2> HIDE DEF u
  <2>2. u = w
    BY <1>4, <2>1, SeqEqual DEF Texts
  <2>3. QED
    BY <2>2 DEF u
<1>9. QED
  BY <1>8 DEF a, b, w

\* From a place on, what RemoveField says and what the readings say.
Agree(m, number, c, readings, p) ==
  /\ c \in Copies /\ readings \subseteq Seq(Texts)
  /\ c.ok <=> readings # {}
  /\ \A fields \in readings : c.output = Protobuf!Without(fields, number)
  /\ c.ok => /\ Len(c.output) <= Len(m) + 1 - p
             /\ Len(c.output) = Len(m) + 1 - p => c.output = SubSeq(m, p, Len(m))

\* One field more.
LEMMA AgreeMore ==
  ASSUME NEW m \in Texts, NEW number, NEW p \in 1 .. Len(m), FieldEnd(m, p) # 0,
         NEW c, NEW readings, Agree(m, number, c, readings, FieldEnd(m, p))
  PROVE  Agree(m, number, [c EXCEPT !.output = KeptOf(m, number, p) \o @],
               {<<SubSeq(m, p, FieldEnd(m, p) - 1)>> \o rest : rest \in readings}, p)
<1> DEFINE e == FieldEnd(m, p)
           w == SubSeq(m, p, e - 1)
           k == KeptOf(m, number, p)
           d == [c EXCEPT !.output = k \o @]
           more == {<<w>> \o rest : rest \in readings}
<1>1. k \in Texts /\ w \in Texts /\ Len(w) = e - p /\ e \in p + 1 .. Len(m) + 1
  BY KeptIs
<1>2. Len(m) \in Nat
  BY BytesIs
<1>3. k = IF Num(m, p).value \div 8 = number THEN <<>> ELSE w
  BY DEF KeptOf
<1>4. Protobuf!TagsOf(w) = {Num(m, p).value}
  <2>1. e - 1 \in p .. Len(m) /\ e = (e - 1) + 1
    <3> HIDE DEF e
    <3>1. QED
      BY <1>1, <1>2
  <2>2. \A l \in p .. Len(m) : Protobuf!TagsOf(SubSeq(m, p, l))
                                 = IF e = l + 1 THEN {Num(m, p).value} ELSE {}
    BY FieldAt
  <2>3. Protobuf!TagsOf(SubSeq(m, p, e - 1)) = {Num(m, p).value}
    <3> HIDE DEF e
    <3>1. QED
      BY <2>1, <2>2
  <2>4. QED
    BY <2>3
<1>5. /\ c \in Copies /\ readings \subseteq Seq(Texts)
      /\ c.ok <=> readings # {}
      /\ \A fields \in readings : c.output = Protobuf!Without(fields, number)
      /\ c.ok => /\ Len(c.output) <= Len(m) + 1 - e
                 /\ Len(c.output) = Len(m) + 1 - e => c.output = SubSeq(m, e, Len(m))
  BY DEF Agree
<1>6. w \o SubSeq(m, e, Len(m)) = SubSeq(m, p, Len(m))
  <2>1. p \in 1 .. Len(m) + 1 /\ e \in p .. Len(m) + 1
    <3> HIDE DEF e
    <3>1. QED
      BY <1>1, <1>2
  <2>2. QED
    BY <2>1, CutInTwo
<1>7. w \in OtherThan(number) <=> Num(m, p).value \div 8 # number
  <2> HIDE DEF w
  <2>1. QED
    BY <1>1, <1>4 DEF OtherThan
<1> HIDE DEF e, w, k
<1>8. /\ c.ok \in BOOLEAN /\ c.output \in Texts /\ d.ok = c.ok /\ d.output = k \o c.output
      /\ d \in Copies
  <2>1. c.ok \in BOOLEAN /\ c.output \in Texts
    BY <1>5 DEF Copies
  <2>2. k \o c.output \in Texts
    BY <1>1, <2>1, TextsJoin
  <2>3. QED
    BY <1>5, <2>1, <2>2 DEF Copies
<1>9. more \subseteq Seq(Texts) /\ (c.ok <=> more # {})
  <2>1. \A rest \in Seq(Texts) : <<w>> \o rest \in Seq(Texts)
    BY <1>1
  <2>2. QED
    BY <1>5, <2>1
<1>10. ASSUME NEW fields \in more PROVE d.output = Protobuf!Without(fields, number)
  <2>1. PICK rest \in readings : fields = <<w>> \o rest
    OBVIOUS
  <2>2. rest \in Seq(Texts) /\ c.output = Protobuf!Without(rest, number)
    BY <1>5
  <2>3. Protobuf!Without(<<w>> \o rest, number)
          = IF w \in OtherThan(number) THEN w \o Protobuf!Without(rest, number)
            ELSE Protobuf!Without(rest, number)
    BY <1>1, <2>2, WithoutMore
  <2>4. CASE Num(m, p).value \div 8 # number
    BY <1>3, <1>7, <1>8, <2>1, <2>2, <2>3, <2>4
  <2>5. CASE Num(m, p).value \div 8 = number
    <3>1. <<>> \o c.output = c.output
      BY <1>8, TextsJoin
    <3>2. QED
      BY <1>3, <1>7, <1>8, <2>1, <2>2, <2>3, <2>5, <3>1
  <2>6. QED
    BY <2>4, <2>5
<1>11. ASSUME c.ok
       PROVE  /\ Len(d.output) <= Len(m) + 1 - p
              /\ Len(d.output) = Len(m) + 1 - p => d.output = SubSeq(m, p, Len(m))
  <2>1. Len(c.output) \in Nat /\ Len(w) \in Nat
    BY <1>1, <1>8, BytesIs
  <2>2. CASE k = <<>>
    <3>1. d.output = c.output
      BY <1>8, <2>2, TextsJoin
    <3>2. Len(d.output) < Len(m) + 1 - p
      BY <1>1, <1>2, <1>5, <1>11, <2>1, <3>1
    <3>3. Len(d.output) \in Nat
      BY <2>1, <3>1
    <3>4. QED
      BY <1>2, <3>2, <3>3
  <2>3. CASE k = w
    <3>1. Len(d.output) = Len(w) + Len(c.output)
      BY <1>1, <1>8, <2>3, ConcatProperties DEF Texts
    <3>2. Len(d.output) <= Len(m) + 1 - p
      BY <1>1, <1>2, <1>5, <1>11, <2>1, <3>1
    <3>3. ASSUME Len(d.output) = Len(m) + 1 - p PROVE d.output = SubSeq(m, p, Len(m))
      <4>1. Len(c.output) = Len(m) + 1 - e
        BY <1>1, <1>2, <2>1, <3>1, <3>3
      <4>2. c.output = SubSeq(m, e, Len(m))
        BY <1>5, <1>11, <4>1
      <4>3. QED
        BY <1>6, <1>8, <2>3, <4>2
    <3>4. QED
      BY <3>2, <3>3
  <2>4. QED
    BY <1>3, <2>2, <2>3
<1>12. Agree(m, number, d, more, p)
  <2> HIDE DEF d, more
  <2>1. QED
    BY <1>8, <1>9, <1>10, <1>11 DEF Agree
<1>13. QED
  BY <1>12 DEF e, w, k

\* RemoveField against the readings of a message.
LEMMA RemoveAgrees ==
  ASSUME NEW m \in Texts, NEW number
  PROVE  Agree(m, number, Protobuf!RemoveField(m, number), Protobuf!Readings(m), 1)
<1>1. PICK F : RemovedFrom(m, number, F) /\ Protobuf!RemoveField(m, number) = F[1]
  BY RemoveIs
<1>2. PICK T : ReadFrom(m, T) /\ Protobuf!Readings(m) = T[1]
  BY ReadingsIs
<1>3. Len(m) \in Nat
  BY BytesIs
<1> DEFINE Good(p) == Agree(m, number, F[p], T[p], p)
           G == {k \in Nat : \A p \in 1 .. Len(m) + 1 : Len(m) + 1 - p <= k => Good(p)}
<1>4. Good(Len(m) + 1)
  <2>1. F[Len(m) + 1] = [ok |-> TRUE, output |-> <<>>] /\ T[Len(m) + 1] = {<<>>}
    BY <1>1, <1>2 DEF RemovedFrom, ReadFrom
  <2>2. [ok |-> TRUE, output |-> <<>>] \in Copies
    BY TextsJoin DEF Copies
  <2>3. {<<>>} \subseteq Seq(Texts)
    BY EmptySeq
  <2>4. Protobuf!Without(<<>>, number) = <<>>
    BY WithoutMore
  <2>5. SubSeq(m, Len(m) + 1, Len(m)) = <<>>
    <3>1. Len(m) + 1 \in 1 .. Len(m) + 1 /\ Len(m) \in (Len(m) + 1) - 1 .. Len(m)
      BY <1>3
    <3>2. /\ SubSeq(m, Len(m) + 1, Len(m)) \in Texts
          /\ Len(SubSeq(m, Len(m) + 1, Len(m))) = Len(m) - (Len(m) + 1) + 1
      BY <3>1, CutIs
    <3>3. Len(m) - (Len(m) + 1) + 1 = 0
      BY <1>3
    <3>4. QED
      BY <3>2, <3>3, EmptySeq DEF Texts
  <2>6. Len(<<>>) = 0 /\ Len(m) + 1 - (Len(m) + 1) = 0
    BY <1>3
  <2>7. QED
    BY <2>1, <2>2, <2>3, <2>4, <2>5, <2>6 DEF Agree
<1>5. ASSUME NEW p \in 1 .. Len(m), FieldEnd(m, p) # 0 => Good(FieldEnd(m, p)) PROVE Good(p)
  <2>1. CASE FieldEnd(m, p) = 0
    <3>1. F[p] = [ok |-> FALSE, output |-> <<>>] /\ T[p] = {}
      BY <1>1, <1>2, <2>1 DEF RemovedFrom, ReadFrom
    <3>2. [ok |-> FALSE, output |-> <<>>] \in Copies
      BY TextsJoin DEF Copies
    <3>3. QED
      BY <3>1, <3>2 DEF Agree
  <2>2. CASE FieldEnd(m, p) # 0
    <3>1. /\ F[p] = [F[FieldEnd(m, p)] EXCEPT !.output = KeptOf(m, number, p) \o @]
          /\ T[p] = {<<SubSeq(m, p, FieldEnd(m, p) - 1)>> \o rest : rest \in T[FieldEnd(m, p)]}
      BY <1>1, <1>2, <2>2 DEF RemovedFrom, ReadFrom
    <3>2. Agree(m, number, F[FieldEnd(m, p)], T[FieldEnd(m, p)], FieldEnd(m, p))
      BY <1>5, <2>2
    <3>3. ASSUME NEW c, NEW readings, Agree(m, number, c, readings, FieldEnd(m, p))
          PROVE  Agree(m, number, [c EXCEPT !.output = KeptOf(m, number, p) \o @],
                       {<<SubSeq(m, p, FieldEnd(m, p) - 1)>> \o rest : rest \in readings}, p)
      BY <2>2, <3>3, AgreeMore
    <3>4. QED
      BY <3>1, <3>2, <3>3
  <2>3. QED
    BY <2>1, <2>2
<1>6. 0 \in G
  <2>1. \A p \in 1 .. Len(m) + 1 : Len(m) + 1 - p <= 0 => p = Len(m) + 1
    BY <1>3
  <2> HIDE DEF Good
  <2>2. QED
    BY <1>4, <2>1
<1>7. ASSUME NEW k \in Nat, k \in G PROVE k + 1 \in G
  <2>1. ASSUME NEW p \in 1 .. Len(m) + 1, Len(m) + 1 - p <= k + 1 PROVE Good(p)
    <3>1. CASE p = Len(m) + 1
      BY <1>4, <3>1
    <3>2. CASE p # Len(m) + 1
      <4>1. p \in 1 .. Len(m)
        BY <1>3, <3>2
      <4>2. ASSUME FieldEnd(m, p) # 0 PROVE Good(FieldEnd(m, p))
        <5>1. FieldEnd(m, p) \in p + 1 .. Len(m) + 1
          BY <4>1, <4>2, FieldAt
        <5>2. PICK e : e = FieldEnd(m, p)
          OBVIOUS
        <5>3. e \in 1 .. Len(m) + 1 /\ Len(m) + 1 - e <= k
          BY <1>3, <2>1, <5>1, <5>2
        <5> HIDE DEF Good
        <5>4. QED
          BY <1>7, <5>2, <5>3
      <4> HIDE DEF Good
      <4>3. QED
        BY <1>5, <4>1, <4>2
    <3>3. QED
      BY <3>1, <3>2
  <2> HIDE DEF Good
  <2>2. QED
    BY <2>1
<1>8. \A k \in Nat : k \in G
  <2> HIDE DEF G
  <2>1. QED
    BY <1>6, <1>7, NatSetInduction
<1>9. 1 \in 1 .. Len(m) + 1 /\ Len(m) + 1 - 1 <= Len(m)
  BY <1>3
<1>10. Good(1)
  <2> HIDE DEF Good
  <2>1. QED
    BY <1>3, <1>8, <1>9
<1>11. QED
  BY <1>1, <1>2, <1>10

-------------------------------------------------------------------------------
(* A gRPC request.                                                          *)

\* The bytes of a gzip are no message.
LEMMA GzipUnread ==
  ASSUME NEW number
  PROVE  GzipHeader \in Texts /\ ~Protobuf!RemoveField(GzipHeader, number).ok
<1> DEFINE m == GzipHeader
<1>1. m \in Texts /\ Len(m) = 1 /\ m[1] = 31
  <2>1. 31 \in Protobuf!Bytes
    BY DEF Protobuf!Bytes
  <2>2. QED
    BY <2>1 DEF GzipHeader, Texts
<1> HIDE DEF m
<1>2. 1 \in 1 .. Len(m) + 1 /\ 1 \in 1 .. Len(m) /\ 1 \in 1 .. Len(m)
  BY <1>1
<1>3. Stop(m, 1) = 1
  <2>1. \A q \in 1 .. Len(m) : Stop(m, 1) = q <=> m[q] < 128 /\ \A i \in 1 .. q - 1 : m[i] >= 128
    BY <1>1, <1>2, StopIs
  <2>2. m[1] < 128 /\ \A i \in 1 .. 1 - 1 : m[i] >= 128
    BY <1>1
  <2>3. QED
    BY <1>2, <2>1, <2>2
<1>4. Num(m, 1).ok /\ Num(m, 1).next = 2 /\ Num(m, 1).value = 31
  <2>1. ~(Stop(m, 1) = 0 \/ Stop(m, 1) - 1 + 1 > 10) /\ Stop(m, 1) - 1 + 1 = 1
    BY <1>3
  <2>2. Num(m, 1) = [ok |-> TRUE, value |-> ValueOf(m, 1, 1), next |-> Stop(m, 1) + 1]
    BY <2>1, ReadIs DEF Num
  <2>3. Digit(m, 1, 1, 0) = 31 /\ \A n \in 1 .. 9 : Digit(m, 1, 1, n) = 0
    <3>1. 31 % 128 = 31 /\ 1 + 0 = 1
      OBVIOUS
    <3>2. \A n \in 1 .. 9 : ~(n < 1)
      OBVIOUS
    <3>3. QED
      BY <1>1, <3>1, <3>2 DEF Digit
  <2>4. ~\E n \in 4 .. 9 : Digit(m, 1, 1, n) # 0
    BY <2>3
  <2>5. ValueOf(m, 1, 1) = 31
    BY <2>3, <2>4 DEF ValueOf
  <2>6. QED
    BY <1>3, <2>2, <2>5
<1>5. FieldEnd(m, 1) = 0
  <2>1. 31 % 8 = 7
    OBVIOUS
  <2>2. ContentEnd(m, 2, 7) = 0
    BY DEF ContentEnd
  <2>3. QED
    BY <1>4, <2>1, <2>2 DEF FieldEnd
<1>6. PICK F : RemovedFrom(m, number, F) /\ Protobuf!RemoveField(m, number) = F[1]
  BY <1>1, RemoveIs
<1>7. F[1] = [ok |-> FALSE, output |-> <<>>]
  BY <1>2, <1>5, <1>6 DEF RemovedFrom
<1>8. QED
  BY <1>1, <1>6, <1>7 DEF m

\* A message without the field, or as it is when it cannot be read.
LEMMA CleanedIs ==
  ASSUME NEW m \in Texts, NEW number, NEW new,
         new = IF Protobuf!RemoveField(m, number).ok
               THEN Protobuf!RemoveField(m, number).output ELSE m
  PROVE  Cleaned(m, new, number)
<1>1. PICK c : c = Protobuf!RemoveField(m, number)
  OBVIOUS
<1>2. PICK readings : readings = Protobuf!Readings(m)
  OBVIOUS
<1>3. /\ c.ok <=> readings # {}
      /\ \A fields \in readings : c.output = Protobuf!Without(fields, number)
  BY <1>1, <1>2, RemoveAgrees DEF Agree
<1>4. new = IF c.ok THEN c.output ELSE m
  BY <1>1
<1>5. CASE readings = {}
  BY <1>2, <1>3, <1>4, <1>5 DEF Cleaned
<1>6. CASE readings # {}
  <2>1. \A fields \in Protobuf!Readings(m) : new = Protobuf!Without(fields, number)
    BY <1>2, <1>3, <1>4, <1>6
  <2>2. QED
    BY <1>2, <1>6, <2>1 DEF Cleaned
<1>7. QED
  BY <1>5, <1>6

\* A message loses nothing when what is left of it is as long.
LEMMA RemovedShorter ==
  ASSUME NEW m \in Texts, NEW number, Protobuf!RemoveField(m, number).ok,
         ~(Len(Protobuf!RemoveField(m, number).output) < Len(m))
  PROVE  Protobuf!RemoveField(m, number).output = m
<1>1. PICK c : c = Protobuf!RemoveField(m, number)
  OBVIOUS
<1>2. /\ c \in Copies /\ Len(c.output) <= Len(m) + 1 - 1
      /\ Len(c.output) = Len(m) + 1 - 1 => c.output = SubSeq(m, 1, Len(m))
  BY <1>1, RemoveAgrees DEF Agree
<1>3. Len(m) \in Nat /\ Len(c.output) \in Nat
  BY <1>2, BytesIs DEF Copies
<1>4. Len(c.output) = Len(m) + 1 - 1
  BY <1>1, <1>2, <1>3
<1>5. SubSeq(m, 1, Len(m)) = m
  <2>1. 1 \in 1 .. Len(m) + 1 /\ Len(m) \in 1 - 1 .. Len(m) /\ Len(m) - 1 + 1 = Len(m)
    BY <1>3
  <2>2. PICK w : w = SubSeq(m, 1, Len(m))
    OBVIOUS
  <2>3. w \in Texts /\ Len(w) = Len(m) /\ \A n \in 1 .. Len(m) : w[n] = m[1 + n - 1]
    BY <2>1, <2>2, CutIs
  <2>4. \A n \in 1 .. Len(m) : w[n] = m[n]
    <3>1. \A n \in 1 .. Len(m) : 1 + n - 1 = n
      OBVIOUS
    <3>2. QED
      BY <2>3, <3>1
  <2>5. w = m
    BY <2>3, <2>4, SeqEqual DEF Texts
  <2>6. QED
    BY <2>2, <2>5
<1>6. QED
  BY <1>1, <1>2, <1>4, <1>5

\* What normalizePlayViewUniteRequest makes of a frame.
LEMMA NormalizedIs ==
  ASSUME NEW r \in Frames
  PROVE  /\ Normalized(r) \in Frames
         /\ Normalized(r).device = r.device /\ Normalized(r).deviceMessage = r.deviceMessage
         /\ IF Readable(r) /\ WithinLimit(r)
            THEN /\ Readable(Normalized(r))
                 /\ Cleaned(r.message, Normalized(r).message, AdExtraField)
            ELSE Normalized(r) = r
<1>1. r.message \in Texts
  BY DEF Frames, Texts
<1>2. PICK c : c = Protobuf!RemoveField(r.message, AdExtraField)
  OBVIOUS
<1>3. c \in Copies
  BY <1>1, <1>2, RemoveAgrees DEF Agree
<1> DEFINE cut == {k \in {Protobuf!RemoveField(m, AdExtraField) : m \in Payload(r)} :
                     k.ok /\ Len(k.output) < Len(r.message)}
<1>4. Normalized(r) = IF cut = {} THEN r
                      ELSE [r EXCEPT !.flag = 0, !.zipped = FALSE, !.encoding = "",
                                     !.message = (CHOOSE k \in cut : TRUE).output]
  BY DEF Normalized
<1>5. CASE ~(Readable(r) /\ WithinLimit(r))
  <2>1. Payload(r) = {} \/ Payload(r) = {GzipHeader}
    <3>1. r.fits \in BOOLEAN /\ r.zipped \in BOOLEAN
      BY DEF Frames
    <3>2. CASE ~r.fits \/ r.flag \notin {0, 1}
      BY <3>2 DEF Payload
    <3>3. CASE r.fits /\ r.flag = 0
      <4>1. r.zipped
        BY <1>5, <3>1, <3>3 DEF Readable, WithinLimit
      <4>2. QED
        BY <3>3, <4>1 DEF Payload
    <3>4. CASE r.fits /\ r.flag = 1
      <4>1. ~(r.encoding = "gzip" /\ r.zipped /\ WithinLimit(r))
        BY <1>5, <3>4 DEF Readable
      <4>2. QED
        BY <3>4, <4>1 DEF Payload
    <3>5. QED
      BY <3>2, <3>3, <3>4
  <2>2. cut = {}
    <3>1. ~Protobuf!RemoveField(GzipHeader, AdExtraField).ok
      BY GzipUnread
    <3>2. QED
      BY <2>1, <3>1
  <2>3. Normalized(r) = r
    BY <1>4, <2>2
  <2>4. QED
    BY <1>5, <2>3
<1>6. CASE Readable(r) /\ WithinLimit(r)
  <2>1. Payload(r) = {r.message}
    <3>1. CASE r.fits /\ r.flag = 0 /\ ~r.zipped
      BY <3>1 DEF Payload
    <3>2. CASE r.fits /\ r.flag = 1 /\ r.zipped /\ r.encoding = "gzip"
      BY <1>6, <3>2 DEF Payload
    <3>3. QED
      BY <1>6, <3>1, <3>2 DEF Readable
  <2>2. cut = {k \in {c} : k.ok /\ Len(k.output) < Len(r.message)}
    BY <1>2, <2>1
  <2>3. CASE c.ok /\ Len(c.output) < Len(r.message)
    <3>1. cut = {c}
      BY <2>2, <2>3
    <3>2. cut # {} /\ (CHOOSE k \in cut : TRUE) = c
      BY <3>1
    <3> HIDE DEF cut
    <3>3. PICK n : n = [r EXCEPT !.flag = 0, !.zipped = FALSE, !.encoding = "",
                                 !.message = c.output]
      OBVIOUS
    <3>4. Normalized(r) = n
      BY <1>4, <3>2, <3>3
    <3>5. /\ n \in Frames /\ n.flag = 0 /\ n.zipped = FALSE /\ n.fits = r.fits
          /\ n.message = c.output /\ n.device = r.device /\ n.deviceMessage = r.deviceMessage
      <4>1. c.output \in Seq(Protobuf!Bytes) /\ 0 \in Protobuf!Bytes
        BY <1>3 DEF Copies, Texts, Protobuf!Bytes
      <4>2. n = [flag |-> 0, fits |-> r.fits, zipped |-> FALSE, encoding |-> "",
                 message |-> c.output, device |-> r.device, deviceMessage |-> r.deviceMessage]
        BY <3>3 DEF Frames
      <4>3. /\ r.fits \in BOOLEAN /\ r.device \in {"", "base64", "other"}
            /\ r.deviceMessage \in Seq(Protobuf!Bytes)
        BY DEF Frames
      <4>4. n \in Frames
        BY <4>1, <4>2, <4>3 DEF Frames
      <4>5. QED
        BY <4>2, <4>4
    <3>6. Readable(n)
      BY <1>6, <3>5 DEF Readable
    <3>7. Cleaned(r.message, n.message, AdExtraField)
      BY <1>1, <1>2, <2>3, <3>5, CleanedIs
    <3>8. QED
      BY <1>6, <3>4, <3>5, <3>6, <3>7
  <2>4. CASE ~(c.ok /\ Len(c.output) < Len(r.message))
    <3>1. cut = {}
      BY <2>2, <2>4
    <3>2. Normalized(r) = r
      BY <1>4, <3>1
    <3>3. r.message = IF c.ok THEN c.output ELSE r.message
      BY <1>1, <1>2, <2>4, RemovedShorter
    <3>4. Cleaned(r.message, r.message, AdExtraField)
      BY <1>1, <1>2, <3>3, CleanedIs
    <3>5. QED
      BY <1>6, <3>2, <3>4
  <2>5. QED
    BY <2>3, <2>4
<1>7. QED
  BY <1>5, <1>6

\* What normalizeGRPCMetadata makes of the device metadata.
LEMMA DeviceNormalizedIs ==
  ASSUME NEW r \in Frames
  PROVE  /\ \E text \in Texts : DeviceNormalized(r) = [r EXCEPT !.deviceMessage = text]
         /\ IF r.device = "base64"
            THEN Cleaned(r.deviceMessage, DeviceNormalized(r).deviceMessage, DeviceField)
            ELSE DeviceNormalized(r).deviceMessage = r.deviceMessage
<1>1. r.deviceMessage \in Texts
  BY DEF Frames, Texts
<1>2. PICK c : c = Protobuf!RemoveField(r.deviceMessage, DeviceField)
  OBVIOUS
<1>3. c \in Copies
  BY <1>1, <1>2, RemoveAgrees DEF Agree
<1>4. DeviceNormalized(r) = IF r.device = "base64" /\ c.ok
                            THEN [r EXCEPT !.deviceMessage = c.output] ELSE r
  BY <1>2 DEF DeviceNormalized
<1>5. PICK text : text = IF r.device = "base64" /\ c.ok THEN c.output ELSE r.deviceMessage
  OBVIOUS
<1>6. text \in Texts
  BY <1>1, <1>3, <1>5 DEF Copies
<1>7. r = [r EXCEPT !.deviceMessage = r.deviceMessage] /\ "deviceMessage" \in DOMAIN r
  BY DEF Frames
<1>8. DeviceNormalized(r) = [r EXCEPT !.deviceMessage = text]
  BY <1>4, <1>5, <1>7
<1>9. DeviceNormalized(r).deviceMessage = text
  BY <1>7, <1>8
<1>10. CASE r.device = "base64"
  <2>1. text = IF c.ok THEN c.output ELSE r.deviceMessage
    BY <1>5, <1>10
  <2>2. Cleaned(r.deviceMessage, text, DeviceField)
    BY <1>1, <1>2, <2>1, CleanedIs
  <2>3. QED
    BY <1>6, <1>8, <1>9, <1>10, <2>2
<1>11. CASE r.device # "base64"
  <2>1. text = r.deviceMessage
    BY <1>5, <1>11
  <2>2. QED
    BY <1>6, <1>8, <1>9, <1>11, <2>1
<1>12. QED
  BY <1>10, <1>11

\* Forward takes the two fields out and nothing else.
LEMMA FieldsGo ==
  ASSUME request \in Requests, Forward
  PROVE  FieldsRemoved'
<1>1. PICK r : r = request
  OBVIOUS
<1>2. PICK n : n = Normalized(r)
  OBVIOUS
<1>3. PICK s : s = DeviceNormalized(n)
  OBVIOUS
<1>4. request' = r /\ sent' = s
  BY <1>1, <1>2, <1>3 DEF Forward
<1>5. r \in Frames
  BY <1>1, RequestsAssumption
<1>6. /\ n \in Frames /\ n.device = r.device /\ n.deviceMessage = r.deviceMessage
      /\ IF Readable(r) /\ WithinLimit(r)
         THEN Readable(n) /\ Cleaned(r.message, n.message, AdExtraField) ELSE n = r
  BY <1>2, <1>5, NormalizedIs
<1>7. PICK text \in Texts : s = [n EXCEPT !.deviceMessage = text]
  BY <1>3, <1>6, DeviceNormalizedIs
<1>8. IF n.device = "base64" THEN Cleaned(n.deviceMessage, s.deviceMessage, DeviceField)
      ELSE s.deviceMessage = n.deviceMessage
  BY <1>3, <1>6, DeviceNormalizedIs
<1>9. /\ s.flag = n.flag /\ s.fits = n.fits /\ s.zipped = n.zipped /\ s.encoding = n.encoding
      /\ s.message = n.message /\ s.device = n.device
  BY <1>6, <1>7 DEF Frames
<1>10. [s EXCEPT !.deviceMessage = n.deviceMessage] = n
  BY <1>6, <1>7 DEF Frames
<1>11. Readable(s) <=> Readable(n)
  BY <1>9 DEF Readable
<1>12. /\ IF Readable(r) /\ WithinLimit(r)
          THEN Readable(s) /\ Cleaned(r.message, s.message, AdExtraField)
          ELSE [s EXCEPT !.deviceMessage = r.deviceMessage] = r
       /\ IF s.device = "base64" THEN Cleaned(r.deviceMessage, s.deviceMessage, DeviceField)
          ELSE s.deviceMessage = r.deviceMessage
  BY <1>6, <1>8, <1>9, <1>10, <1>11
<1>13. QED
  BY <1>4, <1>12 DEF FieldsRemoved, Readable, WithinLimit, Cleaned

-------------------------------------------------------------------------------
(* Every request.                                                           *)

\* Each route's part of the state is what the route's own actions have made of an
\* input that may come, or is untouched.
RewritingInv ==
  /\ route = "media" /\ arrived = "whole" => body \in Bodies
  /\ answer # NoAnswer => Served
  /\ answer = NoAnswer => ~trimmed.trimmed
  /\ route = "playurl request" => query \in Queries
  /\ SignatureCovers
  /\ route = "playurl answer" => document \in Documents
  /\ ReferencesResolve
  /\ SummaryStable
  /\ route = "playurl_grpc" => request \in Requests
  /\ FieldsRemoved

\* No answer yet has no status.
LEMMA NoAnswerYet == NoAnswer.status = 0
  BY DEF NoAnswer

\* Every reachable state satisfies the inductive invariant.
LEMMA RewritingInvariance == RewritingSpec => []RewritingInv
<1>1. RewritingInit => RewritingInv
  <2> SUFFICES ASSUME RewritingInit PROVE RewritingInv
    OBVIOUS
  <2>1. /\ (route = "media" /\ arrived = "whole" => body \in Bodies)
        /\ answer = NoAnswer
        /\ ~trimmed.trimmed
    <3>1. /\ (route = "media" /\ arrived = "whole" => body \in Bodies) /\ answer = NoAnswer
          /\ trimmed = NothingTrimmed(<<>>, FALSE, FALSE)
      BY DEF RewritingInit, PlaylistInit, NoPlaylist
    <3>2. NothingTrimmed(<<>>, FALSE, FALSE).trimmed = FALSE
      BY DEF NothingTrimmed
    <3>3. QED
      BY <3>1, <3>2
  <2>2. (route = "playurl request" => query \in Queries) /\ asked = NotAsked
    BY DEF RewritingInit, QualityInit, NoQuality
  <2>3. (route = "playurl answer" => document \in Documents) /\ played = NotPlayed
    BY DEF RewritingInit, PlayurlInit, NoPlayurl
  <2>4. ~played.answered
    BY <2>3 DEF NotPlayed
  <2>5. ReferencesResolve /\ SummaryStable /\ SignatureCovers
    BY <2>2, <2>4, Zenon DEF ReferencesResolve, SummaryStable, SignatureCovers
  <2>6. (route = "playurl_grpc" => request \in Requests) /\ sent = NotSent
    BY DEF RewritingInit, GrpcInit, NoGrpc
  <2>7. FieldsRemoved
    BY <2>6 DEF FieldsRemoved
  <2>8. QED
    BY <2>1, <2>2, <2>3, <2>5, <2>6, <2>7 DEF RewritingInv
<1>2. RewritingInv /\ [RewritingNext]_rewriting => RewritingInv'
  <2> SUFFICES ASSUME RewritingInv, [RewritingNext]_rewriting PROVE RewritingInv'
    OBVIOUS
  <2>1. ASSUME UNCHANGED <<playlist, route>>
        PROVE  /\ route' = "media" /\ arrived' = "whole" => body' \in Bodies
               /\ answer' # NoAnswer => Served'
               /\ answer' = NoAnswer => ~trimmed'.trimmed
    BY <2>1 DEF RewritingInv, playlist, Served
  <2>2. ASSUME UNCHANGED <<quality, route>>
        PROVE  (route' = "playurl request" => query' \in Queries) /\ SignatureCovers'
    BY <2>2 DEF RewritingInv, quality, SignatureCovers
  <2>3. ASSUME UNCHANGED <<playurl, route>>
        PROVE  /\ route' = "playurl answer" => document' \in Documents
               /\ ReferencesResolve' /\ SummaryStable'
    BY <2>3, Zenon DEF RewritingInv, playurl, ReferencesResolve, SummaryStable
  <2>4. ASSUME UNCHANGED <<grpc, route>>
        PROVE  (route' = "playurl_grpc" => request' \in Requests) /\ FieldsRemoved'
    <3>1. request' = request /\ sent' = sent /\ FieldsRemoved
      BY <2>4 DEF RewritingInv, grpc
    <3>2. FieldsRemoved'
      BY <3>1 DEF FieldsRemoved, Readable, WithinLimit, Cleaned
    <3>3. QED
      BY <2>4, <3>1, <3>2 DEF RewritingInv
  <2>5. CASE ServePlaylist
    <3>1. CASE RefusePlaylist
      <4>1. /\ answer = NoAnswer /\ UNCHANGED <<arrived, body, published, trimmed>>
            /\ answer'.status = 502 /\ answer'.lines = <<>>
            /\ arrived # "whole" \/ ~published
        BY <3>1 DEF RefusePlaylist, Refusal
      <4>2. ~trimmed.trimmed
        BY <4>1 DEF RewritingInv
      <4>3. Served'
        BY <4>1, <4>2, Zenon DEF Served
      <4>4. answer' # NoAnswer
        BY <4>1, NoAnswerYet
      <4>5. route' = "media" /\ arrived' = "whole" => body' \in Bodies
        BY <2>5, <4>1 DEF ServePlaylist, RewritingInv
      <4>6. QED
        BY <2>2, <2>3, <2>4, <2>5, <4>3, <4>4, <4>5 DEF ServePlaylist, RewritingInv
    <3>2. CASE Serve
      <4>1. body \in Bodies
        BY <2>5, <3>2 DEF ServePlaylist, Serve, RewritingInv
      <4>2. body' \in Bodies /\ Served'
        BY <3>2, <4>1 DEF Serve, Served
      <4>3. answer' # NoAnswer
        <5>1. answer'.status \in {200, 502}
          BY <3>2 DEF Serve, Refusal
        <5>2. QED
          BY <5>1, NoAnswerYet
      <4>4. QED
        BY <2>2, <2>3, <2>4, <2>5, <4>2, <4>3 DEF ServePlaylist, RewritingInv
    <3>3. QED
      BY <2>5, <3>1, <3>2 DEF ServePlaylist, PlaylistNext
  <2>6. CASE AskUpstream
    <3>1. query \in Queries /\ query' = query /\ QualityNext
      BY <2>6 DEF AskUpstream, RewritingInv, QualityNext, AskVideo, AskLive, AskOther, Ask
    <3>2. SignatureCovers'
      BY <3>1, QualityKept
    <3>3. QED
      BY <2>1, <2>3, <2>4, <2>6, <3>1, <3>2 DEF AskUpstream, RewritingInv
  <2>7. CASE AnswerPlayurl
    <3>1. document \in Documents /\ document' = document /\ PlayurlNext
      BY <2>7 DEF AnswerPlayurl, RewritingInv, PlayurlNext, PassOnUnread, ReadDocument
    <3>2. ReferencesResolve' /\ SummaryStable'
      BY <3>1, ReferencesKept, SummaryKept
    <3>3. QED
      BY <2>1, <2>2, <2>4, <2>7, <3>1, <3>2 DEF AnswerPlayurl, RewritingInv
  <2>8. CASE ForwardGrpc
    <3>1. request \in Requests /\ request' = request /\ Forward
      BY <2>8 DEF ForwardGrpc, RewritingInv, Forward
    <3>2. FieldsRemoved'
      BY <3>1, FieldsGo
    <3>3. QED
      BY <2>1, <2>2, <2>3, <2>8, <3>1, <3>2 DEF ForwardGrpc, RewritingInv
  <2>9. CASE UNCHANGED rewriting
    BY <2>1, <2>2, <2>3, <2>4, <2>9 DEF rewriting, RewritingInv
  <2>10. QED
    BY <2>5, <2>6, <2>7, <2>8, <2>9 DEF RewritingNext
<1>3. QED
  BY <1>1, <1>2, PTL DEF RewritingSpec

\* Whatever playlist upstream sends, handleMediaTargets answers with addresses of the
\* proxy alone; and it refuses exactly an answer that is partial or that it cannot read
\* whole, any answer when PUBLIC_URL is not set, and a list in which a foreign host is
\* left after trimLivePlaylist.
THEOREM PlayerStaysInside == RewritingSpec => []NothingPastProxy
<1>1. RewritingInv => NothingPastProxy
  BY ServedStaysInside DEF RewritingInv, NothingPastProxy
<1>2. QED
  BY <1>1, RewritingInvariance, PTL

\* Whatever playlist upstream sends: when trimLivePlaylist has dropped its first
\* segments, EXTM3U is on top, what is said of the whole list is still ahead of the
\* segments, and no START offset is left.
THEOREM HeaderStays == RewritingSpec => []HeaderKept
<1>1. RewritingInv => HeaderKept
  <2>1. SUFFICES ASSUME RewritingInv PROVE HeaderKept
    OBVIOUS
  <2>2. CASE trimmed.trimmed
    <3>1. Served
      <4>1. answer # NoAnswer
        BY <2>1, <2>2 DEF RewritingInv
      <4>2. QED
        BY <2>1, <4>1 DEF RewritingInv
    <3>2. body \in Seq(Line) /\ trimmed = Trim(body)
      BY <2>2, <3>1, ServedIsCut
    <3>3. QED
      BY <3>2, HeaderHolds
  <2>3. CASE ~trimmed.trimmed
    BY <2>3 DEF HeaderKept
  <2>4. QED
    BY <2>2, <2>3
<1>2. QED
  BY <1>1, RewritingInvariance, PTL

\* Whatever playlist upstream sends and however many segments trimLivePlaylist keeps:
\* the player sees the last segments of the list, each with the number, the
\* discontinuity period, the key, the map and the marks that upstream gave it.
THEOREM WindowStays == RewritingSpec => []WindowKept
<1>1. RewritingInv => WindowKept
  <2>1. SUFFICES ASSUME RewritingInv PROVE WindowKept
    OBVIOUS
  <2>2. CASE answer.status = 200
    <3>1. answer # NoAnswer
      BY <2>2, NoAnswerYet
    <3>2. Served
      BY <2>1, <3>1 DEF RewritingInv
    <3>3. body \in Seq(Line) /\ trimmed = Trim(body)
      BY <2>2, <3>2, ServedIsCut
    <3>4. QED
      BY <3>3, WindowHolds
  <2>3. CASE answer.status # 200
    BY <2>3 DEF WindowKept
  <2>4. QED
    BY <2>2, <2>3
<1>2. QED
  BY <1>1, RewritingInvariance, PTL

\* Whatever document upstream sends and in whatever order walkJSON visits it, every
\* link of rewritePlayurlResponse leads to the address that stood in its place.
THEOREM LinksLead == RewritingSpec => []ReferencesResolve
  BY RewritingInvariance, PTL DEF RewritingInv

\* A document that says each thing once has one summary, whatever the order of Go's
\* map iteration.
THEOREM SummariesAgree == RewritingSpec => []SummaryStable
  BY RewritingInvariance, PTL DEF RewritingInv

\* Whatever a client asks, highestQualityTarget sends it on unchanged or under one
\* signature over all of the rest.
THEOREM SignaturesCover == RewritingSpec => []SignatureCovers
  BY RewritingInvariance, PTL DEF RewritingInv

\* Whatever bytes a client sends: a message that the format lets be read, and that
\* does not unpack to more than the limit, loses the ad context, and the device metadata
\* its field, wherever they stand, and nothing else; what cannot be read or is longer
\* goes on as it is.
THEOREM FieldsGone == RewritingSpec => []FieldsRemoved
  BY RewritingInvariance, PTL DEF RewritingInv
===============================================================================
