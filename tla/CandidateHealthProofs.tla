------------------------- MODULE CandidateHealthProofs ------------------------
(***************************************************************************)
(* For every set of candidates and every setting of the limits within       *)
(* TableAssumption: the health table is bounded, a penalty is bounded, is   *)
(* not forgotten while it runs and does not shrink with a further failure;  *)
(* a ranked list has every candidate of the group in an order that is never *)
(* clearly wrong, and the one that was asked for in front where nothing is  *)
(* against it.                                                              *)
(***************************************************************************)
EXTENDS CandidateHealth, FiniteSetTheorems, FunctionTheorems, TLAPS

\* An entry that calls up to a time can have made: no stamp is ahead of that
\* time, and a penalty ends no later than the longest one for its count, from
\* the stamp of the failure.
GoodEntry(h, now) ==
  /\ h \in Health
  /\ h.last <= now
  /\ h.consecutive = 0 => h.until = 0
  /\ h.consecutive # 0 => /\ h.until # 0
                          /\ h.until <= h.last + Penalty(h.consecutive, 403)

IInv == /\ TypeOK
        /\ \A c \in Candidates : GoodEntry(table[c], clock)
        /\ \A w \in Workers : call[w] # Idle => call[w].now <= clock
        /\ TableBounded

-------------------------------------------------------------------------------
\* The penalty for a count: positive, at most FailureMax, and never more for the
\* count before it, even when that failure was a 403 and this one is not.
LEMMA PenaltyGrows ==
  ASSUME NEW n \in 1 .. MaxConsecutive, NEW f \in FailureStatus
  PROVE  /\ Penalty(n, f) \in 1 .. FailureMax
         /\ Penalty(n, f) <= Penalty(n, 403)
         /\ \A m \in 1 .. MaxConsecutive :
              n = Smaller(m + 1, MaxConsecutive) => Penalty(m, 403) <= Penalty(n, f)
<1> USE TableAssumption
<1>1. \A k \in 1 .. MaxConsecutive :
        \/ k = 1 /\ Backoff(k) = FailureBase
        \/ k = 2 /\ Backoff(k) = 2 * FailureBase
        \/ k = 3 /\ Backoff(k) = 4 * FailureBase
        \/ k = 4 /\ Backoff(k) = 8 * FailureBase
        \/ k >= 5 /\ Backoff(k) = 16 * FailureBase
  <2> SUFFICES ASSUME NEW k \in 1 .. MaxConsecutive
               PROVE  \/ k = 1 /\ Backoff(k) = FailureBase
                      \/ k = 2 /\ Backoff(k) = 2 * FailureBase
                      \/ k = 3 /\ Backoff(k) = 4 * FailureBase
                      \/ k = 4 /\ Backoff(k) = 8 * FailureBase
                      \/ k >= 5 /\ Backoff(k) = 16 * FailureBase
    OBVIOUS
  <2>1. CASE k = 1
    BY <2>1 DEF Backoff, Smaller
  <2>2. CASE k = 2
    BY <2>2 DEF Backoff, Smaller
  <2>3. CASE k = 3
    BY <2>3 DEF Backoff, Smaller
  <2>4. CASE k = 4
    BY <2>4 DEF Backoff, Smaller
  <2>5. CASE k >= 5
    <3>1. Smaller(k, 5) = 5
      BY <2>5 DEF Smaller
    <3>2. QED
      BY <2>5, <3>1 DEF Backoff
  <2>6. QED
    BY <2>1, <2>2, <2>3, <2>4, <2>5
<1>2. \A k \in 1 .. MaxConsecutive :
        /\ Penalty(k, 403)
             = IF FailureMax <= 2 * Backoff(k) THEN FailureMax ELSE 2 * Backoff(k)
        /\ Penalty(k, 0)
             = IF FailureMax <= Backoff(k) THEN FailureMax ELSE Backoff(k)
  BY DEF Penalty, Smaller
<1> HIDE DEF Penalty
<1>3. /\ Penalty(n, 403) \in 1 .. FailureMax
      /\ Penalty(n, 0) \in 1 .. FailureMax
      /\ Penalty(n, 0) <= Penalty(n, 403)
  <2>1. Backoff(n) \in Nat \ {0}
    BY <1>1
  <2>2. QED
    BY <1>2, <2>1
<1>4. ASSUME NEW m \in 1 .. MaxConsecutive, n = Smaller(m + 1, MaxConsecutive)
      PROVE  Penalty(m, 403) <= Penalty(n, 0)
  <2>1. (n = m + 1) \/ (n = m /\ n >= 5)
    BY <1>4 DEF Smaller
  <2>2. Backoff(n) \in Nat /\ Backoff(m) \in Nat
    BY <1>1
  <2>3. 2 * Backoff(m) <= Backoff(n) \/ FailureMax <= Backoff(n)
    BY <1>1, <2>1
  <2>4. QED
    BY <1>2, <2>2, <2>3
<1>5. \A m \in 1 .. MaxConsecutive :
        n = Smaller(m + 1, MaxConsecutive) => Penalty(m, 403) <= Penalty(n, 403)
  <2> SUFFICES ASSUME NEW m \in 1 .. MaxConsecutive, n = Smaller(m + 1, MaxConsecutive)
               PROVE  Penalty(m, 403) <= Penalty(n, 403)
    OBVIOUS
  <2>1. Backoff(n) \in Nat /\ Backoff(m) \in Nat
    BY <1>1
  <2>2. QED
    BY <1>2, <1>3, <1>4, <2>1
<1>6. CASE f = 403
  BY <1>3, <1>5, <1>6
<1>7. CASE f = 0
  BY <1>3, <1>4, <1>7
<1>8. QED
  BY <1>6, <1>7 DEF FailureStatus

\* What a prune may leave of a table: each entry or nothing, and a reason for
\* each entry that went.
LEMMA PruneReasons ==
  ASSUME NEW t \in [Candidates -> Health], NEW now \in Nat, NEW left \in PrunedHealth(t, now)
  PROVE  /\ left \in [Candidates -> Health]
         /\ \A c \in Candidates : left[c] \in {t[c], Unobserved}
         /\ Cardinality(Tracked(left)) <= MaxHealth
         /\ \A c \in Candidates :
              left[c] # t[c] => \/ t[c].last + HealthTTL < now
                                \/ /\ c \notin Tracked(left)
                                   /\ Cardinality(Tracked(left)) = MaxHealth
<1> USE TableAssumption
<1> DEFINE fresh == {c \in Tracked(t) : now <= t[c].last + HealthTTL}
<1>1. PICK kept \in Youngest(fresh, LastSeen(t), MaxHealth) :
        left = [c \in Candidates |-> IF c \in kept THEN t[c] ELSE Unobserved]
  BY DEF PrunedHealth
<1> HIDE DEF fresh
<1>2. /\ kept \subseteq fresh
      /\ Cardinality(kept) <= MaxHealth
      /\ kept # fresh => Cardinality(kept) = MaxHealth
  <2>1. CASE Cardinality(fresh) <= MaxHealth
    BY <2>1, <1>1 DEF Youngest
  <2>2. CASE ~(Cardinality(fresh) <= MaxHealth)
    BY <2>2, <1>1 DEF Youngest
  <2>3. QED
    BY <2>1, <2>2
<1> USE DEF fresh
<1>3. Unobserved \in Health
  BY DEF Unobserved, Health
<1>4. Tracked(left) = kept
  BY <1>1, <1>2 DEF Tracked
<1>5. \A c \in Candidates : left[c] # t[c] => c \notin kept /\ c \in Tracked(t)
  BY <1>1 DEF Tracked
<1>6. \A c \in Tracked(t) \ fresh : t[c].last + HealthTTL < now
  BY DEF Tracked, Health
<1>7. QED
  BY <1>1, <1>2, <1>3, <1>4, <1>5, <1>6

LEMMA EmptyEntryIsGood == \A now \in Nat : GoodEntry(Unobserved, now)
  BY TableAssumption DEF GoodEntry, Unobserved, Health

\* A recorded success or failure makes a good entry of a good one.
LEMMA RecordsAreGood ==
  ASSUME NEW h, NEW time \in Nat, NEW now \in Nat, GoodEntry(h, time), now <= time
  PROVE  /\ \A latency \in Latencies : GoodEntry(AfterSuccess(h, latency, now), time)
         /\ \A status \in FailureStatus :
              /\ GoodEntry(AfterFailure(h, status, now), time)
              /\ AfterFailure(h, status, now).until # 0
              /\ h.last <= now => h.until <= AfterFailure(h, status, now).until
<1> USE TableAssumption
<1>1. ASSUME NEW latency \in Latencies PROVE GoodEntry(AfterSuccess(h, latency, now), time)
  <2>1. Ewma(h.ewma, latency) \in Nat
    BY DEF Ewma, GoodEntry, Health
  <2>2. QED
    BY <2>1 DEF GoodEntry, AfterSuccess, Health
<1>2. ASSUME NEW status \in FailureStatus
      PROVE  /\ GoodEntry(AfterFailure(h, status, now), time)
             /\ AfterFailure(h, status, now).until # 0
             /\ h.last <= now => h.until <= AfterFailure(h, status, now).until
  <2> DEFINE n == Smaller(h.consecutive + 1, MaxConsecutive)
             after == AfterFailure(h, status, now)
  <2>1. n \in 1 .. MaxConsecutive /\ h.consecutive \in 0 .. MaxConsecutive
    BY DEF GoodEntry, Health, Smaller
  <2>2. /\ after \in Health
        /\ after.consecutive = n /\ after.last = now
        /\ after.until = now + Penalty(n, status)
    <3>1. Penalty(n, status) \in 1 .. FailureMax
      BY <2>1, PenaltyGrows
    <3> HIDE DEF n
    <3>2. /\ h.reliable \in BOOLEAN /\ h.ewma \in Nat
          /\ now + Penalty(n, status) \in Nat
      BY <3>1 DEF GoodEntry, Health
    <3>3. after = [reliable |-> h.reliable, consecutive |-> n, ewma |-> h.ewma,
                   last |-> now, until |-> now + Penalty(n, status)]
      BY DEF AfterFailure, n
    <3> HIDE DEF after
    <3>4. QED
      BY <2>1, <3>2, <3>3 DEF Health
  <2> HIDE DEF n, after
  <2>3. Penalty(n, status) \in 1 .. FailureMax /\ Penalty(n, status) <= Penalty(n, 403)
        /\ Penalty(n, 403) \in 1 .. FailureMax
    BY <2>1, PenaltyGrows DEF FailureStatus
  <2>4. GoodEntry(after, time) /\ after.until # 0
    BY <2>1, <2>2, <2>3 DEF GoodEntry
  <2>5. ASSUME h.last <= now PROVE h.until <= after.until
    <3>1. CASE h.consecutive = 0
      BY <2>2, <2>3, <3>1 DEF GoodEntry
    <3>2. CASE h.consecutive # 0
      <4>1. h.consecutive \in 1 .. MaxConsecutive
        BY <2>1, <3>2
      <4>2. Penalty(h.consecutive, 403) <= Penalty(n, status)
        BY <2>1, <4>1, PenaltyGrows DEF n
      <4>3. Penalty(h.consecutive, 403) \in Nat
        BY <4>1, PenaltyGrows DEF FailureStatus
      <4>4. QED
        BY <2>2, <2>3, <2>5, <3>2, <4>2, <4>3 DEF GoodEntry, Health
    <3>3. QED
      BY <3>1, <3>2
  <2>6. QED
    BY <2>4, <2>5 DEF after
<1>3. QED
  BY <1>1, <1>2

-------------------------------------------------------------------------------
\* Every reachable state satisfies the inductive invariant.
LEMMA Invariance == Spec => []IInv
<1> USE TableAssumption, ConstantsAssumption
<1>1. Init => IInv
  <2> SUFFICES ASSUME Init PROVE IInv
    OBVIOUS
  <2>1. Tracked(table) = {}
    BY DEF Init, Tracked
  <2>2. TableBounded
    BY <2>1, FS_EmptySet DEF TableBounded
  <2>3. TypeOK
    BY DEF Init, TypeOK, Calls, Health, Unobserved
  <2>4. \A c \in Candidates : GoodEntry(table[c], clock)
    BY EmptyEntryIsGood DEF Init
  <2>5. QED
    BY <2>2, <2>3, <2>4 DEF IInv, Init
<1>2. IInv /\ [Next]_vars => IInv'
  <2> SUFFICES ASSUME IInv, [Next]_vars PROVE IInv'
    OBVIOUS
  <2>1. CASE Tick
    <3>1. clock \in Nat /\ clock' = clock + 1 /\ UNCHANGED <<table, call, calls>>
      BY <2>1 DEF Tick, IInv, TypeOK
    <3>2. \A c \in Candidates : GoodEntry(table[c], clock + 1)
      BY <3>1 DEF IInv, GoodEntry, Health
    <3>3. \A w \in Workers : call[w] # Idle => call[w].now <= clock + 1
      BY <3>1 DEF IInv, TypeOK, Calls
    <3>4. QED
      BY <3>1, <3>2, <3>3 DEF IInv, TypeOK, TableBounded
  <2>2. CASE UNCHANGED vars
    BY <2>2 DEF vars, IInv, TypeOK, TableBounded
  <2>3. ASSUME NEW w \in Workers, NEW c \in Calls, Begin(w, c), c.now = clock
        PROVE  IInv'
    BY <2>3 DEF Begin, IInv, TypeOK, TableBounded
  <2>4. ASSUME NEW w \in Workers, BeginSuccess(w) PROVE IInv'
    BY <2>4, <2>3 DEF BeginSuccess, Calls, IInv, TypeOK
  <2>5. ASSUME NEW w \in Workers, BeginFailure(w) PROVE IInv'
    BY <2>5, <2>3 DEF BeginFailure, Calls, IInv, TypeOK
  <2>6. ASSUME NEW w \in Workers, BeginRank(w) PROVE IInv'
    BY <2>6, <2>3 DEF BeginRank, Calls, IInv, TypeOK
  <2>7. ASSUME NEW w \in Workers, NEW recorded, Commit(w, recorded), call[w] # Idle,
               recorded \in [Candidates -> Health],
               \A c \in Candidates : GoodEntry(recorded[c], clock)
        PROVE  IInv'
    <3>1. call[w].now \in Nat
      BY <2>7 DEF IInv, TypeOK, Calls
    <3>2. table' \in PrunedHealth(recorded, call[w].now)
      BY <2>7 DEF Commit
    <3>3. /\ table' \in [Candidates -> Health]
          /\ \A c \in Candidates : table'[c] \in {recorded[c], Unobserved}
          /\ TableBounded'
      BY <2>7, <3>1, <3>2, PruneReasons DEF TableBounded
    <3>4. \A c \in Candidates : GoodEntry(table'[c], clock)
      BY <2>7, <3>3, EmptyEntryIsGood DEF IInv, TypeOK
    <3>5. QED
      BY <2>7, <3>3, <3>4 DEF Commit, IInv, TypeOK, Calls, Idle
  <2>8. ASSUME NEW w \in Workers, RecordSuccess(w) PROVE IInv'
    <3> DEFINE c == call[w]
               recorded == [table EXCEPT ![c.key] = AfterSuccess(@, c.latency, c.now)]
    <3>1. /\ c # Idle /\ c.key \in Candidates /\ c.latency \in Latencies
          /\ c.now \in Nat /\ c.now <= clock
      BY <2>8 DEF RecordSuccess, IInv, TypeOK, Calls, Idle
    <3>2. GoodEntry(AfterSuccess(table[c.key], c.latency, c.now), clock)
      BY <3>1, RecordsAreGood DEF IInv, TypeOK
    <3>3. /\ recorded \in [Candidates -> Health]
          /\ \A d \in Candidates : GoodEntry(recorded[d], clock)
      BY <3>1, <3>2 DEF IInv, TypeOK, GoodEntry
    <3>4. Commit(w, recorded)
      BY <2>8 DEF RecordSuccess
    <3>5. QED
      BY <2>7, <3>1, <3>3, <3>4
  <2>9. ASSUME NEW w \in Workers, RecordFailure(w) PROVE IInv'
    <3> DEFINE c == call[w]
               recorded == [table EXCEPT ![c.key] = AfterFailure(@, c.status, c.now)]
    <3>1. /\ c # Idle /\ c.key \in Candidates /\ c.status \in FailureStatus
          /\ c.now \in Nat /\ c.now <= clock
      BY <2>9 DEF RecordFailure, IInv, TypeOK, Calls, Idle
    <3>2. GoodEntry(AfterFailure(table[c.key], c.status, c.now), clock)
      BY <3>1, RecordsAreGood DEF IInv, TypeOK
    <3>3. /\ recorded \in [Candidates -> Health]
          /\ \A d \in Candidates : GoodEntry(recorded[d], clock)
      BY <3>1, <3>2 DEF IInv, TypeOK, GoodEntry
    <3>4. Commit(w, recorded)
      BY <2>9 DEF RecordFailure
    <3>5. QED
      BY <2>7, <3>1, <3>3, <3>4
  <2>10. ASSUME NEW w \in Workers, RankPrune(w) PROVE IInv'
    BY <2>10, <2>7 DEF RankPrune, IInv, TypeOK, Idle
  <2>11. QED
    BY <2>1, <2>2, <2>4, <2>5, <2>6, <2>8, <2>9, <2>10 DEF Next
<1>3. QED
  BY <1>1, <1>2, PTL DEF Spec

\* The type invariant: in particular Consecutive never passes its limit.
THEOREM TypeCorrect == Spec => []TypeOK
  BY Invariance, PTL DEF IInv

\* The health table never exceeds its limit.
THEOREM NeverAboveLimit == Spec => []TableBounded
  BY Invariance, PTL DEF IInv

\* A candidate is penalized only after a failure, and never for longer than
\* candidateFailureMax from now.
THEOREM PenaltiesBounded == Spec => []PenaltyBounded
<1>1. IInv => PenaltyBounded
  <2> SUFFICES ASSUME IInv, NEW c \in Candidates
               PROVE  /\ table[c].until <= clock + FailureMax
                      /\ table[c].consecutive = 0 <=> table[c].until = 0
    BY DEF PenaltyBounded
  <2>1. GoodEntry(table[c], clock) /\ clock \in Nat
    BY DEF IInv, TypeOK
  <2>2. CASE table[c].consecutive = 0
    BY <2>1, <2>2, TableAssumption DEF GoodEntry
  <2>3. CASE table[c].consecutive # 0
    <3>1. table[c].consecutive \in 1 .. MaxConsecutive /\ table[c].last \in Nat
      BY <2>1, <2>3, TableAssumption DEF GoodEntry, Health
    <3>2. Penalty(table[c].consecutive, 403) \in 1 .. FailureMax
      BY <3>1, PenaltyGrows DEF FailureStatus
    <3>3. table[c].until \in Nat
      BY <2>1 DEF GoodEntry, Health
    <3>4. QED
      BY <2>1, <2>3, <3>1, <3>2, <3>3, TableAssumption DEF GoodEntry
  <2>4. QED
    BY <2>2, <2>3
<1>2. QED
  BY <1>1, Invariance, PTL

\* One more failure, seen no earlier, never lets the candidate back sooner.
THEOREM BackoffMonotone == Spec => BackoffNeverShrinks
<1>1. IInv /\ [Next]_vars =>
        [\A w \in Workers :
           LET key == call[w].key
           IN RecordFailure(w) /\ table[key].last <= call[w].now /\ key \in Tracked(table)'
              => table[key].until <= table'[key].until]_vars
  <2> SUFFICES ASSUME IInv, NEW w \in Workers, RecordFailure(w),
                      table[call[w].key].last <= call[w].now,
                      call[w].key \in Tracked(table')
               PROVE  table[call[w].key].until <= table'[call[w].key].until
    BY DEF Tracked
  <2> DEFINE c == call[w]
             recorded == [table EXCEPT ![c.key] = AfterFailure(@, c.status, c.now)]
  <2>1. /\ c.key \in Candidates /\ c.status \in FailureStatus
        /\ c.now \in Nat /\ c.now <= clock /\ clock \in Nat
        /\ table \in [Candidates -> Health]
    BY DEF RecordFailure, IInv, TypeOK, Calls, Idle
  <2>2. /\ GoodEntry(AfterFailure(table[c.key], c.status, c.now), clock)
        /\ table[c.key].until <= AfterFailure(table[c.key], c.status, c.now).until
    BY <2>1, RecordsAreGood DEF IInv
  <2>3. recorded \in [Candidates -> Health]
        /\ recorded[c.key] = AfterFailure(table[c.key], c.status, c.now)
    BY <2>1, <2>2 DEF GoodEntry
  <2>4. table' \in PrunedHealth(recorded, c.now)
    BY DEF RecordFailure, Commit
  <2> HIDE DEF recorded
  <2>5. table'[c.key] \in {recorded[c.key], Unobserved}
    BY <2>1, <2>3, <2>4, PruneReasons
  <2>6. QED
    BY <2>2, <2>3, <2>5 DEF Tracked
<1>2. QED
  BY <1>1, Invariance, PTL DEF Spec, BackoffNeverShrinks

\* A running penalty is forgotten only for an answer of the candidate, or to
\* make room in a full table.
THEOREM PenaltiesRemembered == Spec => PenaltyRemembered
<1> DEFINE Reason(c) ==
      \/ \E w \in Workers : call[w].op = "success" /\ call[w].key = c
      \/ c \notin Tracked(table') /\ Cardinality(Tracked(table')) = MaxHealth
<1>1. IInv /\ [Next]_vars =>
        [\A c \in Candidates :
           clock < table[c].until /\ table'[c].until = 0
           => \/ \E w \in Workers : call[w].op = "success" /\ call[w].key = c
              \/ c \notin Tracked(table)' /\ Cardinality(Tracked(table)') = MaxHealth]_vars
  <2> SUFFICES ASSUME IInv, Next, NEW c \in Candidates,
                      clock < table[c].until, table'[c].until = 0
               PROVE  Reason(c)
    BY DEF Tracked
  <2>1. /\ clock \in Nat /\ table \in [Candidates -> Health]
        /\ GoodEntry(table[c], clock)
    BY DEF IInv, TypeOK
  <2>2. ASSUME UNCHANGED table PROVE FALSE
    BY <2>1, <2>2
  <2>3. ASSUME NEW w \in Workers, NEW recorded \in [Candidates -> Health],
               call[w] # Idle, Commit(w, recorded), recorded[c].until # 0,
               \/ recorded[c] = table[c]
               \/ recorded[c].last = call[w].now
        PROVE  Reason(c)
    <3>1. call[w].now \in Nat /\ call[w].now <= clock
      BY <2>3 DEF IInv, TypeOK, Calls
    <3>2. table' \in PrunedHealth(recorded, call[w].now)
      BY <2>3 DEF Commit
    <3>3. \/ recorded[c].last + HealthTTL < call[w].now
          \/ c \notin Tracked(table') /\ Cardinality(Tracked(table')) = MaxHealth
      BY <2>3, <3>1, <3>2, PruneReasons
    <3>4. ASSUME recorded[c].last + HealthTTL < call[w].now PROVE FALSE
      <4>1. CASE recorded[c].last = call[w].now
        BY <3>1, <3>4, <4>1, TableAssumption
      <4>2. CASE recorded[c] = table[c]
        <5>1. table[c].consecutive # 0
          BY <2>1 DEF GoodEntry
        <5>2. /\ table[c].consecutive \in 1 .. MaxConsecutive
              /\ table[c].last \in Nat /\ table[c].until \in Nat
          BY <2>1, <5>1, TableAssumption DEF Health
        <5>3. Penalty(table[c].consecutive, 403) \in 1 .. FailureMax
          BY <5>2, PenaltyGrows DEF FailureStatus
        <5>4. table[c].until <= table[c].last + HealthTTL
          BY <2>1, <5>1, <5>2, <5>3, TableAssumption DEF GoodEntry
        <5>5. QED
          BY <2>1, <3>1, <3>4, <4>2, <5>2, <5>4, TableAssumption
      <4>3. QED
        BY <2>3, <4>1, <4>2
    <3>5. QED
      BY <3>3, <3>4
  <2>4. ASSUME NEW w \in Workers, RecordSuccess(w) PROVE Reason(c)
    <3> DEFINE k == call[w]
               recorded == [table EXCEPT ![k.key] = AfterSuccess(@, k.latency, k.now)]
    <3>1. CASE k.key = c
      BY <2>4, <3>1 DEF RecordSuccess
    <3>2. CASE k.key # c
      <4>1. /\ k # Idle /\ k.key \in Candidates /\ k.latency \in Latencies
            /\ k.now \in Nat /\ k.now <= clock
        BY <2>4 DEF RecordSuccess, IInv, TypeOK, Calls, Idle
      <4>2. AfterSuccess(table[k.key], k.latency, k.now) \in Health
        BY <2>1, <4>1, RecordsAreGood DEF IInv, GoodEntry
      <4>3. recorded \in [Candidates -> Health] /\ recorded[c] = table[c]
        BY <2>1, <3>2, <4>2
      <4>4. Commit(w, recorded)
        BY <2>4 DEF RecordSuccess
      <4>5. recorded[c].until # 0
        BY <2>1, <4>3
      <4> HIDE DEF recorded
      <4>6. QED
        BY <2>3, <4>1, <4>3, <4>4, <4>5
    <3>3. QED
      BY <3>1, <3>2
  <2>5. ASSUME NEW w \in Workers, RecordFailure(w) PROVE Reason(c)
    <3> DEFINE k == call[w]
               recorded == [table EXCEPT ![k.key] = AfterFailure(@, k.status, k.now)]
    <3>1. /\ k # Idle /\ k.key \in Candidates /\ k.status \in FailureStatus
          /\ k.now \in Nat /\ k.now <= clock
      BY <2>5 DEF RecordFailure, IInv, TypeOK, Calls, Idle
    <3>2. /\ AfterFailure(table[k.key], k.status, k.now) \in Health
          /\ AfterFailure(table[k.key], k.status, k.now).until # 0
      BY <2>1, <3>1, RecordsAreGood DEF IInv, GoodEntry
    <3>3. recorded \in [Candidates -> Health]
      BY <2>1, <3>2
    <3>4. recorded[c].until # 0 /\ (recorded[c] = table[c] \/ recorded[c].last = k.now)
      BY <2>1, <3>1, <3>2 DEF AfterFailure
    <3>5. Commit(w, recorded)
      BY <2>5 DEF RecordFailure
    <3>6. QED
      BY <2>3, <3>1, <3>3, <3>4, <3>5
  <2>6. ASSUME NEW w \in Workers, RankPrune(w) PROVE Reason(c)
    BY <2>1, <2>3, <2>6 DEF RankPrune, Idle
  <2>7. QED
    BY <2>2, <2>4, <2>5, <2>6
    DEF Next, Tick, BeginSuccess, BeginFailure, BeginRank, Begin
<1>2. QED
  BY <1>1, Invariance, PTL DEF Spec, PenaltyRemembered

-------------------------------------------------------------------------------
\* What the ranking reads of a table is what a table holds.
Readable(t) == \A c \in Candidates : t[c].reliable \in BOOLEAN /\ t[c].ewma \in Nat

\* below gives, for each of n places, the places before it in a strict total order,
\* and rank their number.
Ranks(n, below, rank) ==
  /\ below \in [1 .. n -> SUBSET (1 .. n)]
  /\ \A i \in 1 .. n : i \notin below[i] /\ rank[i] = Cardinality(below[i])
  /\ \A i, j \in 1 .. n : i # j => i \in below[j] \/ j \in below[i]
  /\ \A i, j, k \in 1 .. n : i \in below[j] /\ j \in below[k] => i \in below[k]

\* place gives, for each turn, the place with that rank.
Turns(n, rank, place) ==
  place \in [1 .. n -> 1 .. n] /\ \A p \in 1 .. n : rank[place[p]] = p - 1

\* Such ranks give every place one turn, in the order they come from.
LEMMA SortingPlaces ==
  ASSUME NEW n \in Nat, NEW below, NEW rank, Ranks(n, below, rank)
  PROVE  /\ \A p \in 1 .. n : \E i \in 1 .. n : rank[i] = p - 1
         /\ \A place : Turns(n, rank, place)
              => /\ place \in Bijection(1 .. n, 1 .. n)
                 /\ \A p, q \in 1 .. n : p < q => place[p] \in below[place[q]]
<1> USE DEF Ranks
<1> DEFINE P == 1 .. n
<1>1. IsFiniteSet(P) /\ Cardinality(P) = n
  BY FS_Interval
<1>2. \A i \in P : /\ IsFiniteSet(below[i]) /\ rank[i] = Cardinality(below[i])
                   /\ rank[i] \in Nat
  <2> SUFFICES ASSUME NEW i \in P
               PROVE  /\ IsFiniteSet(below[i]) /\ rank[i] = Cardinality(below[i])
                      /\ rank[i] \in Nat
    OBVIOUS
  <2>1. IsFiniteSet(below[i])
    BY <1>1, FS_Subset
  <2>2. QED
    BY <2>1, FS_CardinalityType
<1>3. \A i \in P : rank[i] < n
  <2> SUFFICES ASSUME NEW i \in P PROVE rank[i] < n
    OBVIOUS
  <2>1. below[i] \subseteq P \ {i}
    OBVIOUS
  <2>2. IsFiniteSet(P \ {i}) /\ Cardinality(P \ {i}) = n - 1
    BY <1>1, FS_RemoveElement
  <2>3. Cardinality(below[i]) <= n - 1
    BY <2>1, <2>2, FS_Subset
  <2>4. rank[i] \in Nat /\ rank[i] <= n - 1
    BY <1>2, <2>3
  <2>5. QED
    BY <2>4
<1>4. \A i, j \in P : i \in below[j] => rank[i] < rank[j]
  <2> SUFFICES ASSUME NEW i \in P, NEW j \in P, i \in below[j] PROVE rank[i] < rank[j]
    OBVIOUS
  <2>1. below[i] \cup {i} \subseteq below[j] /\ i \notin below[i]
    OBVIOUS
  <2>2. Cardinality(below[i] \cup {i}) = Cardinality(below[i]) + 1
    BY <1>2, <2>1, FS_AddElement
  <2>3. Cardinality(below[i] \cup {i}) <= Cardinality(below[j])
    BY <1>2, <2>1, FS_Subset
  <2>4. QED
    BY <1>2, <2>2, <2>3
<1>5. \A i, j \in P : rank[i] = rank[j] => i = j
  <2> SUFFICES ASSUME NEW i \in P, NEW j \in P, i # j PROVE rank[i] # rank[j]
    OBVIOUS
  <2>1. rank[i] < rank[j] \/ rank[j] < rank[i]
    BY <1>4
  <2>2. QED
    BY <1>2, <2>1
<1>6. \A p \in P : \E i \in P : rank[i] = p - 1
  <2> DEFINE f == [i \in P |-> rank[i]]
             T == 0 .. n - 1
  <2>1. f \in [P -> T]
    BY <1>2, <1>3
  <2>2. f \in Injection(P, T)
    BY <1>5, <2>1, Fun_IsInj
  <2>3. IsFiniteSet(T) /\ Cardinality(T) = n
    BY FS_Interval, 0 \in Int, n - 1 \in Int
  <2> HIDE DEF f
  <2>4. f \in Surjection(P, T)
    BY <1>1, <2>2, <2>3, FS_Injection
  <2>5. \A p \in P : p - 1 \in T
    OBVIOUS
  <2>6. \A p \in P : \E i \in P : f[i] = p - 1
    BY <2>4, <2>5 DEF Surjection
  <2>7. QED
    BY <2>6 DEF f
<1>7. ASSUME NEW place, Turns(n, rank, place)
      PROVE  /\ place \in Bijection(P, P)
             /\ \A p, q \in P : p < q => place[p] \in below[place[q]]
  <2> USE <1>7 DEF Turns
  <2>1. ASSUME NEW p \in P, NEW q \in P, place[p] = place[q] PROVE p = q
    <3>1. rank[place[p]] = p - 1 /\ rank[place[q]] = q - 1
      BY <1>7
    <3>2. p \in Int /\ q \in Int
      OBVIOUS
    <3>3. QED
      BY <2>1, <3>1, <3>2
  <2>2. place \in Injection(P, P)
    BY <2>1, Fun_IsInj
  <2>3. place \in Bijection(P, P)
    BY <1>1, <2>2, FS_Injection DEF Bijection
  <2>4. ASSUME NEW p \in P, NEW q \in P, p < q
        PROVE  place[p] \in below[place[q]]
    <3>1. place[p] \in P /\ place[q] \in P
      OBVIOUS
    <3>2. place[p] # place[q] /\ ~ rank[place[q]] < rank[place[p]]
      BY <1>7, <2>4
    <3>3. QED
      BY <1>4, <3>1, <3>2
  <2>5. QED
    BY <2>3, <2>4
<1>8. QED
  BY <1>6, <1>7

\* The comparison that sort.SliceStable is given is a strict total order of the
\* places of a list, whatever the table holds: the sorted list is unique, and
\* no combination of penalties, reliability and latency can go in a circle.
THEOREM RankingIsAnOrder ==
  ASSUME NEW t, Readable(t), NEW now \in Nat, NEW urls \in Seq(Candidates)
  PROVE  /\ \A i \in 1 .. Len(urls) : ~Less(t, now, urls, i, i)
         /\ \A i, j \in 1 .. Len(urls) :
              i # j => Less(t, now, urls, i, j) \/ Less(t, now, urls, j, i)
         /\ \A i, j, k \in 1 .. Len(urls) :
              Less(t, now, urls, i, j) /\ Less(t, now, urls, j, k) => Less(t, now, urls, i, k)
<1>1. \A i \in 1 .. Len(urls) : /\ Risk[urls[i]] \in 0 .. 2
                                /\ t[urls[i]].reliable \in BOOLEAN
                                /\ t[urls[i]].ewma \in Nat
  BY TableAssumption DEF Readable
<1>2. QED
  BY <1>1, SMTT(60) DEF Less, Penalized

\* The order in which mediaGroupCandidates appends is one as well.
LEMMA AppendingIsAnOrder ==
  ASSUME NEW urls \in Seq(Candidates), NEW preferred \in 1 .. Len(urls)
  PROVE  /\ \A i \in 1 .. Len(urls) : ~Appended(urls, preferred, i, i)
         /\ \A i, j \in 1 .. Len(urls) :
              i # j => Appended(urls, preferred, i, j) \/ Appended(urls, preferred, j, i)
         /\ \A i, j, k \in 1 .. Len(urls) :
              Appended(urls, preferred, i, j) /\ Appended(urls, preferred, j, k)
              => Appended(urls, preferred, i, k)
  BY DEF Appended, LikelyCOS

\* How often a URL is in a list.
Occurrences(urls, c) == Cardinality({p \in DOMAIN urls : urls[p] = c})

\* A sorted list is the list itself with its places in another order.
LEMMA MovedList ==
  ASSUME NEW urls \in Seq(Candidates),
         NEW place \in Bijection(1 .. Len(urls), 1 .. Len(urls)),
         NEW list, list = [p \in 1 .. Len(urls) |-> urls[place[p]]]
  PROVE  /\ list \in Seq(Candidates) /\ Len(list) = Len(urls)
         /\ \A c : Occurrences(list, c) = Occurrences(urls, c)
<1> DEFINE P == 1 .. Len(urls)
<1>1. /\ place \in [P -> P]
      /\ \A p, q \in P : place[p] = place[q] => p = q
      /\ \A i \in P : \E p \in P : place[p] = i
  <2>1. place \in [P -> P] /\ IsInjective(place)
    BY DEF Bijection, Injection
  <2>2. \A i \in P : \E p \in P : place[p] = i
    BY DEF Bijection, Surjection
  <2>3. QED
    BY <2>1, <2>2 DEF IsInjective
<1>2. list \in [P -> Candidates] /\ Len(urls) \in Nat
  BY <1>1
<1>3. list \in Seq(Candidates) /\ Len(list) = Len(urls)
  BY <1>2
<1>4. ASSUME NEW c PROVE Occurrences(list, c) = Occurrences(urls, c)
  <2> DEFINE A == {p \in P : list[p] = c}
             B == {p \in P : urls[p] = c}
             f == [p \in A |-> place[p]]
  <2>1. DOMAIN list = P /\ DOMAIN urls = P
    BY <1>2
  <2>2. IsFiniteSet(P)
    BY <1>2, FS_Interval
  <2>3. IsFiniteSet(A)
    BY <2>2, FS_Subset
  <2>4. \A p \in P : list[p] = urls[place[p]]
    OBVIOUS
  <2>5. f \in [A -> B]
    BY <1>1, <2>4
  <2>6. \A p, q \in A : f[p] = f[q] => p = q
    BY <1>1
  <2>7. \A i \in B : \E p \in A : f[p] = i
    BY <1>1, <2>4
  <2> HIDE DEF A, B, f
  <2>8. f \in Bijection(A, B)
    BY <2>5, <2>6, <2>7, Fun_IsBij
  <2>9. ExistsBijection(A, B)
    BY <2>8 DEF ExistsBijection
  <2>10. Cardinality(A) = Cardinality(B)
    BY <2>3, <2>9, FS_Bijection
  <2>11. QED
    BY <2>1, <2>10 DEF A, B, Occurrences
<1>5. QED
  BY <1>3, <1>4

\* What mediaGroupCandidates makes of a group.
LEMMA MediaOrderSorts ==
  ASSUME NEW urls \in Seq(Candidates), NEW preferred \in 1 .. Len(urls)
  PROVE  \E place \in Bijection(1 .. Len(urls), 1 .. Len(urls)) :
           /\ MediaOrder(urls, preferred) = [p \in 1 .. Len(urls) |-> urls[place[p]]]
           /\ \A p, q \in 1 .. Len(urls) :
                p < q => Appended(urls, preferred, place[p], place[q])
<1> DEFINE P == 1 .. Len(urls)
           rank == [i \in P |-> Cardinality({j \in P : Appended(urls, preferred, j, i)})]
           below == [i \in P |-> {j \in P : Appended(urls, preferred, j, i)}]
<1>1. \A i, j \in P : j \in below[i] <=> Appended(urls, preferred, j, i)
  OBVIOUS
<1>2. below \in [P -> SUBSET P] /\ \A i \in P : rank[i] = Cardinality(below[i])
  OBVIOUS
<1>3. MediaOrder(urls, preferred)
        = [p \in P |-> urls[CHOOSE i \in P : rank[i] = p - 1]]
  BY DEF MediaOrder, Sorted
<1> HIDE DEF rank, below
<1>4. /\ \A i \in P : i \notin below[i]
      /\ \A i, j \in P : i # j => i \in below[j] \/ j \in below[i]
      /\ \A i, j, k \in P : i \in below[j] /\ j \in below[k] => i \in below[k]
  BY <1>1, AppendingIsAnOrder
<1> DEFINE place == [p \in P |-> CHOOSE i \in P : rank[i] = p - 1]
<1>5. Len(urls) \in Nat /\ Ranks(Len(urls), below, rank)
  BY <1>2, <1>4 DEF Ranks
<1>6. MediaOrder(urls, preferred) = [p \in P |-> urls[place[p]]]
  BY <1>3
<1>7. \A p \in P : place[p] \in P /\ rank[place[p]] = p - 1
  <2>1. \A p \in P : \E i \in P : rank[i] = p - 1
    BY <1>5, SortingPlaces
  <2>2. QED
    BY <2>1
<1>8. Turns(Len(urls), rank, place)
  BY <1>7 DEF Turns
<1> HIDE DEF place
<1>9. /\ place \in Bijection(P, P)
      /\ \A p, q \in P : p < q => place[p] \in below[place[q]]
  BY <1>5, <1>8, SortingPlaces
<1>10. QED
  BY <1>1, <1>6, <1>7, <1>9

\* What rankMediaCandidates makes of a list.
LEMMA RankSorts ==
  ASSUME NEW t, Readable(t), NEW now \in Nat, NEW urls \in Seq(Candidates)
  PROVE  \E place \in Bijection(1 .. Len(urls), 1 .. Len(urls)) :
           /\ Rank(t, now, urls) = [p \in 1 .. Len(urls) |-> urls[place[p]]]
           /\ \A p, q \in 1 .. Len(urls) :
                p < q => Less(t, now, urls, place[p], place[q])
<1> DEFINE P == 1 .. Len(urls)
           rank == [i \in P |-> Cardinality({j \in P : Less(t, now, urls, j, i)})]
           below == [i \in P |-> {j \in P : Less(t, now, urls, j, i)}]
<1>1. \A i, j \in P : j \in below[i] <=> Less(t, now, urls, j, i)
  OBVIOUS
<1>2. below \in [P -> SUBSET P] /\ \A i \in P : rank[i] = Cardinality(below[i])
  OBVIOUS
<1>3. Rank(t, now, urls) = [p \in P |-> urls[CHOOSE i \in P : rank[i] = p - 1]]
  BY DEF Rank, Sorted
<1> HIDE DEF rank, below
<1>4. /\ \A i \in P : i \notin below[i]
      /\ \A i, j \in P : i # j => i \in below[j] \/ j \in below[i]
      /\ \A i, j, k \in P : i \in below[j] /\ j \in below[k] => i \in below[k]
  BY <1>1, RankingIsAnOrder
<1> DEFINE place == [p \in P |-> CHOOSE i \in P : rank[i] = p - 1]
<1>5. Len(urls) \in Nat /\ Ranks(Len(urls), below, rank)
  BY <1>2, <1>4 DEF Ranks
<1>6. Rank(t, now, urls) = [p \in P |-> urls[place[p]]]
  BY <1>3
<1>7. \A p \in P : place[p] \in P /\ rank[place[p]] = p - 1
  <2>1. \A p \in P : \E i \in P : rank[i] = p - 1
    BY <1>5, SortingPlaces
  <2>2. QED
    BY <2>1
<1>8. Turns(Len(urls), rank, place)
  BY <1>7 DEF Turns
<1> HIDE DEF place
<1>9. /\ place \in Bijection(P, P)
      /\ \A p, q \in P : p < q => place[p] \in below[place[q]]
  BY <1>5, <1>8, SortingPlaces
<1>10. QED
  BY <1>1, <1>6, <1>7, <1>9

\* The list of a request, ranked: every URL of the group has a place in it, none
\* goes before one of a lower risk.
LEMMA RankedGroup ==
  ASSUME NEW t, Readable(t), NEW now \in Nat, NEW urls \in Seq(Candidates),
         NEW preferred \in 1 .. Len(urls)
  PROVE  LET ranked == Rank(t, now, MediaOrder(urls, preferred))
         IN /\ ranked \in Seq(Candidates) /\ Len(ranked) = Len(urls)
            /\ \A i \in 1 .. Len(urls) : \E p \in 1 .. Len(urls) : ranked[p] = urls[i]
            /\ \A p, q \in 1 .. Len(urls) : p < q => Risk[ranked[p]] <= Risk[ranked[q]]
<1> DEFINE P == 1 .. Len(urls)
           list == MediaOrder(urls, preferred)
           ranked == Rank(t, now, list)
<1>1. PICK place \in Bijection(P, P) : list = [p \in P |-> urls[place[p]]]
  BY MediaOrderSorts
<1> HIDE DEF list
<1>2. list \in Seq(Candidates) /\ Len(list) = Len(urls)
  BY <1>1, MovedList
<1>3. PICK turn \in Bijection(P, P) :
        /\ ranked = [p \in P |-> list[turn[p]]]
        /\ \A p, q \in P : p < q => Less(t, now, list, turn[p], turn[q])
  BY <1>2, RankSorts
<1> HIDE DEF ranked
<1>4. ranked \in Seq(Candidates) /\ Len(ranked) = Len(urls)
  BY <1>2, <1>3, MovedList
<1>5. \A i \in P : \E p \in P : ranked[p] = urls[i]
  <2> SUFFICES ASSUME NEW i \in P PROVE \E p \in P : ranked[p] = urls[i]
    OBVIOUS
  <2>1. PICK k \in P : place[k] = i
    BY DEF Bijection, Surjection
  <2>2. PICK p \in P : turn[p] = k
    BY DEF Bijection, Surjection
  <2>3. ranked[p] = list[k] /\ list[k] = urls[i]
    BY <1>1, <1>3, <2>1, <2>2
  <2>4. QED
    BY <2>3
<1>6. ASSUME NEW p \in P, NEW q \in P, p < q PROVE Risk[ranked[p]] <= Risk[ranked[q]]
  <2>1. turn[p] \in P /\ turn[q] \in P
    BY DEF Bijection, Injection
  <2>2. Risk[list[turn[p]]] \in 0 .. 2 /\ Risk[list[turn[q]]] \in 0 .. 2
    BY <1>2, <2>1, TableAssumption
  <2>3. Less(t, now, list, turn[p], turn[q])
    BY <1>3, <1>6
  <2>4. QED
    BY <1>3, <2>2, <2>3 DEF Less
<1>7. QED
  BY <1>4, <1>5, <1>6 DEF ranked, list

-------------------------------------------------------------------------------
\* Whatever the table has come to hold, the list for any index that is asked for
\* has every candidate of the group, as often as it was registered, and none
\* behind one that is clearly worse.
THEOREM RankingAvoidsWorse == Spec => []RankAvoidsWorse
<1>1. IInv => RankAvoidsWorse
  <2> SUFFICES ASSUME IInv, NEW preferred \in 1 .. Len(Urls)
               PROVE  LET ranked == Rank(table, clock, Lists[preferred])
                      IN /\ \A c \in Candidates :
                              Cardinality({p \in DOMAIN ranked : ranked[p] = c})
                                = Cardinality({p \in DOMAIN Urls : Urls[p] = c})
                         /\ \A p, q \in DOMAIN ranked :
                              p < q => ~Worse(ranked[p], ranked[q])
    BY DEF RankAvoidsWorse, Lists
  <2> DEFINE P == 1 .. Len(Urls)
             list == Lists[preferred]
             ranked == Rank(table, clock, list)
  <2>1. Readable(table) /\ clock \in Nat /\ Urls \in Seq(Candidates)
    BY ConstantsAssumption DEF IInv, TypeOK, Readable, Health
  <2>2. PICK place \in Bijection(P, P) : list = [p \in P |-> Urls[place[p]]]
    BY <2>1, MediaOrderSorts DEF Lists
  <2> HIDE DEF list
  <2>3. /\ list \in Seq(Candidates) /\ Len(list) = Len(Urls)
        /\ \A c : Occurrences(list, c) = Occurrences(Urls, c)
    BY <2>1, <2>2, MovedList
  <2>4. PICK turn \in Bijection(P, P) :
          /\ ranked = [p \in P |-> list[turn[p]]]
          /\ \A p, q \in P : p < q => Less(table, clock, list, turn[p], turn[q])
    BY <2>1, <2>3, RankSorts
  <2> HIDE DEF ranked
  <2>5. /\ DOMAIN ranked = P
        /\ \A c : Occurrences(ranked, c) = Occurrences(list, c)
    BY <2>3, <2>4, MovedList
  <2>6. ASSUME NEW p \in P, NEW q \in P, p < q PROVE ~Worse(ranked[p], ranked[q])
    <3>1. turn[p] \in P /\ turn[q] \in P
      BY DEF Bijection, Injection
    <3>2. Risk[list[turn[p]]] \in 0 .. 2 /\ Risk[list[turn[q]]] \in 0 .. 2
      BY <2>3, <3>1, TableAssumption
    <3>3. Less(table, clock, list, turn[p], turn[q])
      BY <2>4, <2>6
    <3>4. QED
      BY <2>4, <3>2, <3>3 DEF Less, Worse, Penalized
  <2>7. QED
    BY <2>3, <2>5, <2>6 DEF ranked, list, Occurrences
<1>2. QED
  BY <1>1, Invariance, PTL

\* The candidate the player asked for is tried first, unless the table holds
\* something against it or something for another of its kind.
THEOREM AskedForIsFirst == Spec => []PreferredHonoured
<1>1. IInv => PreferredHonoured
  <2> SUFFICES ASSUME IInv, NEW preferred \in 1 .. Len(Urls),
                      \A c \in {Urls[p] : p \in DOMAIN Urls} \ {Urls[preferred]} :
                        /\ ~Worse(Urls[preferred], c)
                        /\ table[c].reliable =>
                             /\ table[Urls[preferred]].reliable
                             /\ table[Urls[preferred]].ewma <= table[c].ewma
               PROVE  Rank(table, clock, Lists[preferred])[1] = Urls[preferred]
    BY DEF PreferredHonoured
  <2> DEFINE P == 1 .. Len(Urls)
             asked == Urls[preferred]
             list == Lists[preferred]
             ranked == Rank(table, clock, list)
  <2>1. Readable(table) /\ clock \in Nat /\ Urls \in Seq(Candidates)
    BY ConstantsAssumption DEF IInv, TypeOK, Readable, Health
  <2>2. PICK place \in Bijection(P, P) :
          /\ list = [p \in P |-> Urls[place[p]]]
          /\ \A p, q \in P : p < q => Appended(Urls, preferred, place[p], place[q])
    BY <2>1, MediaOrderSorts DEF Lists
  <2> HIDE DEF list
  <2>3. list \in Seq(Candidates) /\ Len(list) = Len(Urls)
    BY <2>1, <2>2, MovedList
  <2>4. PICK turn \in Bijection(P, P) :
          /\ ranked = [p \in P |-> list[turn[p]]]
          /\ \A p, q \in P : p < q => Less(table, clock, list, turn[p], turn[q])
    BY <2>1, <2>3, RankSorts
  <2> HIDE DEF ranked
  <2>5. /\ \A p \in P : place[p] \in P /\ turn[p] \in P
        /\ \A i \in P : (\E p \in P : place[p] = i) /\ (\E p \in P : turn[p] = i)
    BY DEF Bijection, Injection, Surjection
  <2>6. PICK m \in P : place[m] = preferred
    BY <2>5
  <2>7. PICK q \in P : turn[q] = m
    BY <2>5
  <2> DEFINE i == turn[1]
             c == Urls[place[i]]
  <2>8. /\ 1 \in P /\ i \in P /\ place[i] \in P
        /\ c \in Candidates /\ asked \in Candidates
        /\ ranked[1] = c /\ list[i] = c /\ list[m] = asked
    <3>1. 1 \in P
      BY ConstantsAssumption
    <3>2. i \in P /\ place[i] \in P
      BY <2>5, <3>1
    <3>3. QED
      BY <2>1, <2>2, <2>4, <2>6, <3>1, <3>2
  <2>9. SUFFICES ASSUME c # asked PROVE FALSE
    BY <2>8 DEF ranked, list
  <2>10. Less(table, clock, list, i, m)
    <3>1. q # 1
      BY <2>6, <2>7, <2>9
    <3>2. 1 < q
      BY <3>1
    <3>3. QED
      BY <2>4, <2>7, <2>8, <3>2
  <2>11. /\ ~Worse(asked, c)
         /\ table[c].reliable => table[asked].reliable /\ table[asked].ewma <= table[c].ewma
    <3>1. c \in {Urls[p] : p \in DOMAIN Urls} \ {asked}
      BY <2>1, <2>8, <2>9
    <3>2. QED
      BY <3>1
  <2> HIDE DEF i, c, asked
  <2>12. /\ Risk[c] \in 0 .. 2 /\ Risk[asked] \in 0 .. 2
         /\ table[c].ewma \in Nat /\ table[asked].ewma \in Nat
         /\ table[c].reliable \in BOOLEAN /\ table[asked].reliable \in BOOLEAN
    BY <2>1, <2>8, TableAssumption DEF Readable
  <2>13. Risk[c] = Risk[asked] /\ i < m
    BY <2>8, <2>10, <2>11, <2>12 DEF Less, Worse, Penalized
  <2>14. Appended(Urls, preferred, place[i], preferred)
    BY <2>2, <2>6, <2>8, <2>13
  <2>15. place[i] # preferred
    BY <2>9 DEF c, asked
  <2>16. QED
    BY <2>8, <2>13, <2>14, <2>15 DEF Appended, LikelyCOS, c, asked
<1>2. QED
  BY <1>1, Invariance, PTL
===============================================================================
