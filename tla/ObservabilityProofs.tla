-------------------------- MODULE ObservabilityProofs -------------------------
(***************************************************************************)
(* For every number of hosts, goroutines and requests, every size of the    *)
(* ring, of a bucket's table, of the page and of the list of recent errors, *)
(* and every delay between a stamp and its section that is shorter than the *)
(* ring.                                                                   *)
(*                                                                         *)
(* Of the table of errors (ErrorDedup): it is bounded, every failure is     *)
(* accounted for once, and the lines of a key keep their distance.  Of the  *)
(* metrics (Observability): the limits of what is kept, windows that count  *)
(* what was recorded in their seconds, and a page whose figures agree with  *)
(* one another, with the recent errors and with the log.                   *)
(*                                                                         *)
(* Counters are sums over buckets, hosts and results, so the module first   *)
(* proves what a sum over a finite set is: SumFunctionOnSet is a fold that   *)
(* picks any member, and induction over the subsets of a finite set, by the *)
(* well-foundedness of their inclusion, shows that the choice is immaterial. *)
(***************************************************************************)
EXTENDS Observability, FiniteSetTheorems, TLAPS

\* What the entry of a key counts, if it has one.
Held(k) == IF k \in known THEN suppressed[k] ELSE 0

\* No stamp is ahead of the clock.
StampsPast == \A w \in Workers : call[w] # Idle => call[w].now <= clock

\* The entry of a key bears the stamp of its last line.
LastIsWritten == \A k \in Keys : last[k] = written[k]

IInv == /\ TypeOK
        /\ StampsPast
        /\ LastIsWritten
        /\ FailuresAccounted

-------------------------------------------------------------------------------
\* A call that is not idle is the call of one key.
LEMMA EmittingCall ==
  ASSUME TypeOK, NEW w \in Workers, NEW k, Emitting(w, k)
  PROVE  /\ call[w] \in [op : {"emit"}, key : Keys, now : Nat]
         /\ k \in Keys
         /\ call[w].key = k
         /\ call[w].now \in Nat
         /\ call[w] # Idle
<1>1. call[w] \in [op : {"emit"}, key : Keys, now : Nat]
  BY DEF TypeOK, Calls, Emitting
<1>2. QED
  BY <1>1 DEF Emitting

\* The goroutines about to log a key are finitely many.
LEMMA FlightFinite ==
  ASSUME NEW k
  PROVE  IsFiniteSet(InFlight(k)) /\ Cardinality(InFlight(k)) \in Nat
<1>1. InFlight(k) \in SUBSET Workers
  BY DEF InFlight
<1>2. IsFiniteSet(InFlight(k))
  BY <1>1, FS_Subset, ConstantsAssumption
<1>3. QED
  BY <1>2, FS_CardinalityType

\* When a call ends, its key has one goroutine less in flight, and no other key
\* has.
LEMMA FlightEnds ==
  ASSUME TypeOK, NEW w \in Workers, NEW k, Emitting(w, k),
         call' = [call EXCEPT ![w] = Idle]
  PROVE  /\ Cardinality(InFlight(k))' = Cardinality(InFlight(k)) - 1
         /\ \A j \in Keys \ {k} : InFlight(j)' = InFlight(j)
<1>1. call \in [Workers -> Calls]
  BY DEF TypeOK
<1>2. InFlight(k)' = InFlight(k) \ {w}
  BY <1>1 DEF InFlight, Emitting
<1>3. w \in InFlight(k)
  BY DEF InFlight
<1>4. Cardinality(InFlight(k) \ {w}) = Cardinality(InFlight(k)) - 1
  BY <1>3, FlightFinite, FS_RemoveElement
<1>5. \A j \in Keys \ {k} : InFlight(j)' = InFlight(j)
  BY <1>1 DEF InFlight, Emitting
<1>6. QED
  BY <1>2, <1>4, <1>5

\* What a new key leaves of the table: the key is in, one other may be out with
\* its count, and the limit holds.
LEMMA EnterKeepsLimit ==
  ASSUME TypeOK, NEW k \in Keys \ known, Enter(k)
  PROVE  /\ known' \in SUBSET Keys
         /\ Cardinality(known') <= MaxKeys
         /\ k \in known'
         /\ dropped' \in [Keys -> Nat]
         /\ dropped'[k] = dropped[k]
         /\ \A j \in Keys \ {k} : /\ j \in known' => j \in known
                                  /\ dropped'[j] + (IF j \in known' THEN suppressed[j] ELSE 0)
                                       = dropped[j] + Held(j)
<1> USE DEF Held
<1>1. /\ known \in SUBSET Keys
      /\ Cardinality(known) <= MaxKeys
      /\ suppressed \in [Keys -> Nat]
      /\ dropped \in [Keys -> Nat]
      /\ MaxKeys \in Nat \ {0}
  BY ConstantsAssumption DEF TypeOK
<1>2. IsFiniteSet(known) /\ Cardinality(known) \in Nat
  BY <1>1, ConstantsAssumption, FS_Subset, FS_CardinalityType
<1>3. CASE Cardinality(known) >= MaxKeys
  <2>1. PICK old \in known : /\ known' = (known \ {old}) \cup {k}
                             /\ dropped' = [dropped EXCEPT ![old] = @ + suppressed[old]]
    BY <1>3 DEF Enter, Oldest
  <2>2. IsFiniteSet(known \ {old}) /\ Cardinality(known \ {old}) = Cardinality(known) - 1
    BY <1>2, FS_RemoveElement
  <2>3. Cardinality((known \ {old}) \cup {k}) = Cardinality(known)
    <3>1. k \notin known \ {old}
      OBVIOUS
    <3>2. Cardinality((known \ {old}) \cup {k}) = Cardinality(known \ {old}) + 1
      BY <2>2, <3>1, FS_AddElement
    <3>3. QED
      BY <1>2, <2>2, <3>2
  <2>4. QED
    BY <1>1, <2>1, <2>3
<1>4. CASE ~(Cardinality(known) >= MaxKeys)
  <2>1. known' = known \cup {k} /\ dropped' = dropped
    BY <1>4 DEF Enter
  <2>2. Cardinality(known \cup {k}) = Cardinality(known) + 1
    BY <1>2, FS_AddElement
  <2>3. QED
    BY <1>1, <1>2, <1>4, <2>1, <2>2
<1>5. QED
  BY <1>3, <1>4

-------------------------------------------------------------------------------
\* A failure that is begun is one more in flight.
LEMMA BeginKeeps ==
  ASSUME IInv, NEW w \in Workers, Begin(w)
  PROVE  IInv'
<1>1. PICK k \in Keys :
        /\ call' = [call EXCEPT ![w] = [op |-> "emit", key |-> k, now |-> clock]]
        /\ failures' = [failures EXCEPT ![k] = @ + 1]
  BY DEF Begin
<1>2. /\ UNCHANGED <<clock, known, last, suppressed, accounted, dropped, written>>
      /\ call[w] = Idle
  BY DEF Begin, table
<1>3. TypeOK
  BY DEF IInv
<1> DEFINE started == [op |-> "emit", key |-> k, now |-> clock]
<1>4. started \in Calls /\ started # Idle /\ started.key = k /\ started.now = clock
  BY <1>3 DEF TypeOK, Calls, Idle
<1>5. call'[w] = started /\ \A v \in Workers \ {w} : call'[v] = call[v]
  BY <1>1, <1>3 DEF TypeOK
<1>6. TypeOK'
  <2>1. call' \in [Workers -> Calls]
    BY <1>1, <1>3, <1>4 DEF TypeOK
  <2>2. failures' \in [Keys -> Nat]
    BY <1>1, <1>3 DEF TypeOK
  <2>3. QED
    BY <1>2, <1>3, <2>1, <2>2 DEF TypeOK
<1>7. StampsPast'
  BY <1>2, <1>3, <1>4, <1>5 DEF IInv, StampsPast, TypeOK
<1>8. LastIsWritten'
  BY <1>2 DEF IInv, LastIsWritten
<1>9. FailuresAccounted'
  <2> SUFFICES ASSUME NEW j \in Keys
               PROVE  failures'[j] = accounted[j] + dropped[j] + Held(j) + Cardinality(InFlight(j))'
    BY <1>2 DEF FailuresAccounted, Held
  <2>1. failures[j] = accounted[j] + dropped[j] + Held(j) + Cardinality(InFlight(j))
    BY DEF IInv, FailuresAccounted, Held
  <2>2. /\ accounted[j] \in Nat
        /\ dropped[j] \in Nat
        /\ Held(j) \in Nat
        /\ failures[j] \in Nat
    BY <1>3 DEF TypeOK, Held
  <2>3. CASE j = k
    <3>1. InFlight(k)' = InFlight(k) \cup {w}
      BY <1>2, <1>4, <1>5 DEF InFlight, Emitting
    <3>2. w \notin InFlight(k)
      BY <1>2 DEF InFlight, Emitting
    <3>3. Cardinality(InFlight(k) \cup {w}) = Cardinality(InFlight(k)) + 1
      BY <3>2, FlightFinite, FS_AddElement
    <3>4. failures'[k] = failures[k] + 1
      BY <1>1, <1>3 DEF TypeOK
    <3>5. Cardinality(InFlight(k)) \in Nat
      BY FlightFinite
    <3>6. QED
      BY <2>1, <2>2, <2>3, <3>1, <3>3, <3>4, <3>5
  <2>4. CASE j # k
    <3>1. InFlight(j)' = InFlight(j)
      BY <1>2, <1>4, <1>5, <2>4 DEF InFlight, Emitting
    <3>2. failures'[j] = failures[j]
      BY <1>1, <1>3, <2>4 DEF TypeOK
    <3>3. QED
      BY <2>1, <3>1, <3>2
  <2>5. QED
    BY <2>3, <2>4
<1>10. QED
  BY <1>6, <1>7, <1>8, <1>9 DEF IInv

\* A new key: one line for one failure, and the count of the key that makes room
\* goes to dropped.
LEMMA EmitNewKeeps ==
  ASSUME IInv, NEW w \in Workers, NEW k \in Keys, EmitNew(w, k)
  PROVE  IInv'
<1>1. /\ Emitting(w, k)
      /\ k \in Keys \ known
      /\ Enter(k)
      /\ last' = [last EXCEPT ![k] = call[w].now]
      /\ suppressed' = [suppressed EXCEPT ![k] = 0]
      /\ accounted' = [accounted EXCEPT ![k] = @ + 1 + 0]
      /\ written' = [written EXCEPT ![k] = call[w].now]
      /\ call' = [call EXCEPT ![w] = Idle]
      /\ UNCHANGED <<clock, failures>>
  BY DEF EmitNew, WriteLine
<1>2. TypeOK
  BY DEF IInv
<1>3. /\ call[w].now \in 0 .. clock
      /\ call[w] # Idle
  BY <1>1, <1>2, EmittingCall DEF IInv, StampsPast, TypeOK
<1>4. /\ known' \in SUBSET Keys
      /\ Cardinality(known') <= MaxKeys
      /\ k \in known'
      /\ dropped' \in [Keys -> Nat]
      /\ dropped'[k] = dropped[k]
      /\ \A j \in Keys \ {k} : /\ j \in known' => j \in known
                               /\ dropped'[j] + (IF j \in known' THEN suppressed[j] ELSE 0)
                                    = dropped[j] + Held(j)
  BY <1>1, <1>2, EnterKeepsLimit
<1>5. TypeOK'
  <2>1. call' \in [Workers -> Calls]
    BY <1>1, <1>2 DEF TypeOK, Calls
  <2>2. last' \in [Keys -> 0 .. clock] /\ written' \in [Keys -> 0 .. clock]
    BY <1>1, <1>2, <1>3 DEF TypeOK
  <2>3. suppressed' \in [Keys -> Nat] /\ accounted' \in [Keys -> Nat]
    BY <1>1, <1>2 DEF TypeOK
  <2>4. QED
    BY <1>1, <1>2, <1>4, <2>1, <2>2, <2>3 DEF TypeOK
<1>6. StampsPast'
  BY <1>1, <1>2 DEF IInv, StampsPast, TypeOK
<1>7. LastIsWritten'
  BY <1>1, <1>2 DEF IInv, LastIsWritten, TypeOK
<1>8. FailuresAccounted'
  <2> SUFFICES ASSUME NEW j \in Keys
               PROVE  failures[j] = accounted'[j] + dropped'[j]
                                    + (IF j \in known' THEN suppressed'[j] ELSE 0)
                                    + Cardinality(InFlight(j))'
    BY <1>1 DEF FailuresAccounted
  <2>1. failures[j] = accounted[j] + dropped[j] + Held(j) + Cardinality(InFlight(j))
    BY DEF IInv, FailuresAccounted, Held
  <2>2. /\ accounted[j] \in Nat
        /\ dropped[j] \in Nat
        /\ dropped'[j] \in Nat
        /\ suppressed[j] \in Nat
        /\ Held(j) \in Nat
        /\ Cardinality(InFlight(j)) \in Nat
    BY <1>2, <1>4, FlightFinite DEF TypeOK, Held
  <2>3. CASE j = k
    <3>1. accounted'[k] = accounted[k] + 1 /\ suppressed'[k] = 0
      BY <1>1, <1>2 DEF TypeOK
    <3>2. Cardinality(InFlight(k))' = Cardinality(InFlight(k)) - 1
      BY <1>1, <1>2, FlightEnds
    <3>3. Held(k) = 0
      BY <1>1 DEF Held
    <3>4. QED
      BY <1>4, <2>1, <2>2, <2>3, <3>1, <3>2, <3>3
  <2>4. CASE j # k
    <3>1. accounted'[j] = accounted[j] /\ suppressed'[j] = suppressed[j]
      BY <1>1, <1>2, <2>4 DEF TypeOK
    <3>2. InFlight(j)' = InFlight(j)
      BY <1>1, <1>2, <2>4, FlightEnds
    <3>3. dropped'[j] + (IF j \in known' THEN suppressed[j] ELSE 0) = dropped[j] + Held(j)
      BY <1>4, <2>4
    <3>4. QED
      BY <2>1, <2>2, <3>1, <3>2, <3>3
  <2>5. QED
    BY <2>3, <2>4
<1>9. QED
  BY <1>5, <1>6, <1>7, <1>8 DEF IInv

\* A line for a known key stands for the failure and for the repeats that the
\* entry has counted.
LEMMA EmitAgainKeeps ==
  ASSUME IInv, NEW w \in Workers, NEW k \in Keys, EmitAgain(w, k)
  PROVE  IInv'
<1>1. /\ Emitting(w, k)
      /\ k \in known
      /\ last' = [last EXCEPT ![k] = call[w].now]
      /\ suppressed' = [suppressed EXCEPT ![k] = 0]
      /\ accounted' = [accounted EXCEPT ![k] = @ + 1 + suppressed[k]]
      /\ written' = [written EXCEPT ![k] = call[w].now]
      /\ call' = [call EXCEPT ![w] = Idle]
      /\ UNCHANGED <<clock, known, failures, dropped>>
  BY DEF EmitAgain, WriteLine
<1>2. TypeOK
  BY DEF IInv
<1>3. /\ call[w].now \in 0 .. clock
      /\ call[w] # Idle
  BY <1>1, <1>2, EmittingCall DEF IInv, StampsPast, TypeOK
<1>4. TypeOK'
  <2>1. call' \in [Workers -> Calls]
    BY <1>1, <1>2 DEF TypeOK, Calls
  <2>2. last' \in [Keys -> 0 .. clock] /\ written' \in [Keys -> 0 .. clock]
    BY <1>1, <1>2, <1>3 DEF TypeOK
  <2>3. suppressed' \in [Keys -> Nat] /\ accounted' \in [Keys -> Nat]
    BY <1>1, <1>2 DEF TypeOK
  <2>4. QED
    BY <1>1, <1>2, <2>1, <2>2, <2>3 DEF TypeOK
<1>5. StampsPast'
  BY <1>1, <1>2 DEF IInv, StampsPast, TypeOK
<1>6. LastIsWritten'
  BY <1>1, <1>2 DEF IInv, LastIsWritten, TypeOK
<1>7. FailuresAccounted'
  <2> SUFFICES ASSUME NEW j \in Keys
               PROVE  failures[j] = accounted'[j] + dropped[j]
                                    + (IF j \in known THEN suppressed'[j] ELSE 0)
                                    + Cardinality(InFlight(j))'
    BY <1>1 DEF FailuresAccounted
  <2>1. failures[j] = accounted[j] + dropped[j] + Held(j) + Cardinality(InFlight(j))
    BY DEF IInv, FailuresAccounted, Held
  <2>2. /\ accounted[j] \in Nat
        /\ dropped[j] \in Nat
        /\ suppressed[j] \in Nat
        /\ Cardinality(InFlight(j)) \in Nat
    BY <1>2, FlightFinite DEF TypeOK
  <2>3. CASE j = k
    <3>1. accounted'[k] = accounted[k] + 1 + suppressed[k] /\ suppressed'[k] = 0
      BY <1>1, <1>2 DEF TypeOK
    <3>2. Cardinality(InFlight(k))' = Cardinality(InFlight(k)) - 1
      BY <1>1, <1>2, FlightEnds
    <3>3. Held(k) = suppressed[k]
      BY <1>1 DEF Held
    <3>4. QED
      BY <1>1, <2>1, <2>2, <2>3, <3>1, <3>2, <3>3
  <2>4. CASE j # k
    <3>1. accounted'[j] = accounted[j] /\ suppressed'[j] = suppressed[j]
      BY <1>1, <1>2, <2>4 DEF TypeOK
    <3>2. InFlight(j)' = InFlight(j)
      BY <1>1, <1>2, <2>4, FlightEnds
    <3>3. QED
      BY <2>1, <3>1, <3>2 DEF Held
  <2>5. QED
    BY <2>3, <2>4
<1>8. QED
  BY <1>4, <1>5, <1>6, <1>7 DEF IInv

\* A suppressed failure is one that the entry counts.
LEMMA SuppressKeeps ==
  ASSUME IInv, NEW w \in Workers, NEW k \in Keys, Suppress(w, k)
  PROVE  IInv'
<1>1. /\ Emitting(w, k)
      /\ k \in known
      /\ suppressed' = [suppressed EXCEPT ![k] = @ + 1]
      /\ call' = [call EXCEPT ![w] = Idle]
      /\ UNCHANGED <<clock, known, last, failures, accounted, dropped, written>>
  BY DEF Suppress, history
<1>2. TypeOK
  BY DEF IInv
<1>3. TypeOK'
  <2>1. call' \in [Workers -> Calls]
    BY <1>1, <1>2 DEF TypeOK, Calls
  <2>2. suppressed' \in [Keys -> Nat]
    BY <1>1, <1>2 DEF TypeOK
  <2>3. QED
    BY <1>1, <1>2, <2>1, <2>2 DEF TypeOK
<1>4. StampsPast'
  BY <1>1, <1>2 DEF IInv, StampsPast, TypeOK
<1>5. LastIsWritten'
  BY <1>1 DEF IInv, LastIsWritten
<1>6. FailuresAccounted'
  <2> SUFFICES ASSUME NEW j \in Keys
               PROVE  failures[j] = accounted[j] + dropped[j]
                                    + (IF j \in known THEN suppressed'[j] ELSE 0)
                                    + Cardinality(InFlight(j))'
    BY <1>1 DEF FailuresAccounted
  <2>1. failures[j] = accounted[j] + dropped[j] + Held(j) + Cardinality(InFlight(j))
    BY DEF IInv, FailuresAccounted, Held
  <2>2. /\ accounted[j] \in Nat
        /\ dropped[j] \in Nat
        /\ suppressed[j] \in Nat
        /\ Cardinality(InFlight(j)) \in Nat
    BY <1>2, FlightFinite DEF TypeOK
  <2>3. CASE j = k
    <3>1. suppressed'[k] = suppressed[k] + 1
      BY <1>1, <1>2 DEF TypeOK
    <3>2. Cardinality(InFlight(k))' = Cardinality(InFlight(k)) - 1
      BY <1>1, <1>2, FlightEnds
    <3>3. Held(k) = suppressed[k]
      BY <1>1 DEF Held
    <3>4. QED
      BY <1>1, <2>1, <2>2, <2>3, <3>1, <3>2, <3>3
  <2>4. CASE j # k
    <3>1. suppressed'[j] = suppressed[j]
      BY <1>1, <1>2, <2>4 DEF TypeOK
    <3>2. InFlight(j)' = InFlight(j)
      BY <1>1, <1>2, <2>4, FlightEnds
    <3>3. QED
      BY <2>1, <3>1, <3>2 DEF Held
  <2>5. QED
    BY <2>3, <2>4
<1>7. QED
  BY <1>3, <1>4, <1>5, <1>6 DEF IInv

\* Time alone changes nothing but the clock.
LEMMA TickKeeps ==
  ASSUME IInv, Tick
  PROVE  IInv'
<1>1. /\ clock' = clock + 1
      /\ UNCHANGED <<known, last, suppressed, call, failures, accounted, dropped, written>>
  BY DEF Tick, table, history
<1>2. TypeOK
  BY DEF IInv
<1>3. 0 .. clock \subseteq 0 .. clock'
  BY <1>1, <1>2 DEF TypeOK
<1>4. TypeOK'
  BY <1>1, <1>2, <1>3 DEF TypeOK
<1>5. StampsPast'
  BY <1>1, <1>2, EmittingCall DEF IInv, StampsPast, TypeOK, Calls
<1>6. LastIsWritten'
  BY <1>1 DEF IInv, LastIsWritten
<1>7. FailuresAccounted'
  BY <1>1 DEF IInv, FailuresAccounted, InFlight, Emitting
<1>8. QED
  BY <1>4, <1>5, <1>6, <1>7 DEF IInv

\* The invariant of the table of errors holds initially.
LEMMA InitiallyIInv == Init => IInv
<1> SUFFICES ASSUME Init
             PROVE  IInv
  OBVIOUS
<1>1. TypeOK
  BY FS_EmptySet, ConstantsAssumption DEF Init, TypeOK, Calls
<1>2. StampsPast /\ LastIsWritten
  BY DEF Init, StampsPast, LastIsWritten
<1>3. FailuresAccounted
  <2> SUFFICES ASSUME NEW k \in Keys
               PROVE  failures[k] = accounted[k] + dropped[k]
                                    + (IF k \in known THEN suppressed[k] ELSE 0)
                                    + Cardinality(InFlight(k))
    BY DEF FailuresAccounted
  <2>1. InFlight(k) = {}
    BY DEF Init, InFlight, Emitting
  <2>2. Cardinality(InFlight(k)) = 0
    BY <2>1, FS_EmptySet
  <2>3. QED
    BY <2>2 DEF Init
<1>4. QED
  BY <1>1, <1>2, <1>3 DEF IInv

\* Every step of shouldEmitFailure and of its callers keeps the invariant.
LEMMA StepKeepsIInv == IInv /\ [Next]_vars => IInv'
<1> SUFFICES ASSUME IInv, [Next]_vars
             PROVE  IInv'
  OBVIOUS
<1>1. CASE \E w \in Workers : Begin(w)
  BY <1>1, BeginKeeps
<1>2. CASE \E w \in Workers, k \in Keys : EmitNew(w, k)
  BY <1>2, EmitNewKeeps
<1>3. CASE \E w \in Workers, k \in Keys : EmitAgain(w, k)
  BY <1>3, EmitAgainKeeps
<1>4. CASE \E w \in Workers, k \in Keys : Suppress(w, k)
  BY <1>4, SuppressKeeps
<1>5. CASE Tick
  BY <1>5, TickKeeps
<1>6. CASE UNCHANGED vars
  BY <1>6 DEF IInv, TypeOK, StampsPast, LastIsWritten, FailuresAccounted, InFlight, Emitting,
              vars, table, history
<1>7. QED
  BY <1>1, <1>2, <1>3, <1>4, <1>5, <1>6 DEF Next

-------------------------------------------------------------------------------
\* The invariant of shouldEmitFailure's table and of the calls around it.
THEOREM Invariance == Spec => []IInv
<1>1. QED
  BY InitiallyIInv, StepKeepsIInv, PTL DEF Spec

\* The table of recent errors has its types and stays within maxDedupKeys.
THEOREM TypeCorrect == Spec => []TypeOK
<1>1. IInv => TypeOK
  BY DEF IInv
<1>2. QED
  BY <1>1, Invariance, PTL

\* Every failure is accounted for, and none twice.
THEOREM AllAccounted == Spec => []FailuresAccounted
<1>1. IInv => FailuresAccounted
  BY DEF IInv
<1>2. QED
  BY <1>1, Invariance, PTL

\* While an entry lives, only a line that is due is written for its key.
LEMMA StepLeavesGap ==
  ASSUME IInv, Next, NEW k \in known, Interval > 0, accounted'[k] > accounted[k]
  PROVE  written'[k] >= written[k] + Interval
<1>1. TypeOK /\ k \in Keys /\ Interval \in Nat
  BY ConstantsAssumption DEF IInv, TypeOK
<1>2. accounted'[k] # accounted[k]
  BY <1>1 DEF TypeOK
<1>3. CASE \E w \in Workers : Begin(w)
  BY <1>2, <1>3 DEF Begin
<1>4. CASE \E w \in Workers, j \in Keys : EmitNew(w, j)
  <2>1. PICK w \in Workers, j \in Keys : EmitNew(w, j)
    BY <1>4
  <2>2. j # k /\ accounted' = [accounted EXCEPT ![j] = @ + 1 + 0]
    BY <2>1 DEF EmitNew, WriteLine
  <2>3. QED
    BY <1>1, <1>2, <2>2 DEF TypeOK
<1>5. CASE \E w \in Workers, j \in Keys : EmitAgain(w, j)
  <2>1. PICK w \in Workers, j \in Keys : EmitAgain(w, j)
    BY <1>5
  <2>2. /\ Due(j, call[w].now)
        /\ accounted' = [accounted EXCEPT ![j] = @ + 1 + suppressed[j]]
        /\ written' = [written EXCEPT ![j] = call[w].now]
    BY <2>1 DEF EmitAgain, WriteLine
  <2>3. j = k
    BY <1>1, <1>2, <2>2 DEF TypeOK
  <2>4. written'[k] = call[w].now
    BY <1>1, <2>2, <2>3 DEF TypeOK
  <2>5. call[w].now >= last[k] + Interval
    BY <1>1, <2>2, <2>3 DEF Due
  <2>6. last[k] = written[k]
    BY <1>1 DEF IInv, LastIsWritten
  <2>7. QED
    BY <2>4, <2>5, <2>6
<1>6. CASE \E w \in Workers, j \in Keys : Suppress(w, j)
  BY <1>2, <1>6 DEF Suppress, history
<1>7. CASE Tick
  BY <1>2, <1>7 DEF Tick, history
<1>8. QED
  BY <1>3, <1>4, <1>5, <1>6, <1>7 DEF Next

\* Two lines of one key are the interval apart.
THEOREM DistanceKept == Spec => LinesApart
<1> DEFINE Gap == \A k \in known : Interval > 0 /\ accounted'[k] > accounted[k]
                                   => written'[k] >= written[k] + Interval
<1>1. IInv /\ [Next]_vars => [Gap]_vars
  BY StepLeavesGap
<1>2. QED
  BY <1>1, Invariance, PTL DEF Spec, LinesApart

-------------------------------------------------------------------------------
\* Sums over a finite set.

\* Induction over the subsets of a finite set.
LEMMA SubsetInduction ==
  ASSUME NEW S, IsFiniteSet(S),
         NEW G, {} \in G,
         \A T \in SUBSET S : T # {} /\ (\A x \in T : T \ {x} \in G) => T \in G
  PROVE  \A T \in SUBSET S : T \in G
<1> DEFINE Bad == {T \in SUBSET S : T \notin G}
<1>1. SUFFICES ASSUME Bad # {} PROVE FALSE
  OBVIOUS
<1>2. IsWellFoundedOn(StrictSubsetOrdering(S), SUBSET S)
  BY FS_StrictSubsetOrderingWellFounded, FS_FiniteSubsetsOfFinite
<1>3. PICK T \in Bad : \A U \in Bad : ~(<<U, T>> \in StrictSubsetOrdering(S))
  <2> HIDE DEF Bad
  <2>1. Bad \subseteq SUBSET S
    BY DEF Bad
  <2>2. QED
    BY <1>1, <1>2, <2>1, WFMin
<1>4. \A x \in T : T \ {x} \in G
  <2>1. TAKE x \in T
  <2>2. <<T \ {x}, T>> \in StrictSubsetOrdering(S)
    BY DEF StrictSubsetOrdering
  <2>3. QED
    BY <1>3, <2>2
<1>5. QED
  BY <1>4

\* A set of numbers has a least one.
LEMMA LeastNatural ==
  ASSUME NEW S \in SUBSET Nat, S # {}
  PROVE  \E x \in S : \A y \in S : x <= y
<1>1. PICK x \in S : \A y \in S : ~(<<y, x>> \in OpToRel(<, Nat))
  BY WFMin, NatLessThanWellFounded, Zenon
<1>2. \A y \in S : y < x => <<y, x>> \in OpToRel(<, Nat)
  BY DEF OpToRel
<1>3. \A y \in S : ~(y < x)
  BY <1>1, <1>2, Zenon
<1>4. QED
  BY <1>3

\* Induction over the natural numbers, for a set of them.
LEMMA NatSetInduction ==
  ASSUME NEW G, 0 \in G, \A n \in Nat : n \in G => n + 1 \in G
  PROVE  \A n \in Nat : n \in G
<1> DEFINE Bad == {n \in Nat : n \notin G}
<1>1. SUFFICES ASSUME Bad # {} PROVE FALSE
  OBVIOUS
<1>2. PICK n \in Bad : \A m \in Bad : n <= m
  <2>1. Bad \in SUBSET Nat
    OBVIOUS
  <2> HIDE DEF Bad
  <2>2. QED
    BY <1>1, <2>1, LeastNatural
<1>3. n # 0 /\ n - 1 \in Nat /\ n - 1 \notin Bad
  BY <1>2
<1>4. QED
  BY <1>2, <1>3

\* The equation that the table of partial sums of f solves, on the subsets in D.
Adds(g, f, D) ==
  g = [s \in D |-> IF s = {} THEN 0
                   ELSE f[CHOOSE x \in s : TRUE] + g[s \ {CHOOSE x \in s : TRUE}]]

PartialSums(g, f, S) == Adds(g, f, SUBSET S)

\* The table of partial sums exists, by induction over the size of the subsets.
LEMMA TableOfSums ==
  ASSUME NEW S, IsFiniteSet(S), NEW f
  PROVE  \E g : Adds(g, f, SUBSET S)
<1> DEFINE Small(n) == {s \in SUBSET S : Cardinality(s) <= n}
           Sizes == {n \in Nat : \E g : Adds(g, f, Small(n))}
<1>1. \A s \in SUBSET S : IsFiniteSet(s) /\ Cardinality(s) \in Nat /\ Cardinality(s) <= Cardinality(S)
  BY FS_Subset, FS_CardinalityType
<1>2. 0 \in Sizes
  <2>1. Small(0) = {{}}
    BY <1>1, FS_EmptySet
  <2>2. Adds([s \in {{}} |-> 0], f, {{}})
    BY DEF Adds
  <2>3. QED
    BY <2>1, <2>2
<1>3. ASSUME NEW n \in Nat, n \in Sizes
      PROVE  n + 1 \in Sizes
  <2>1. PICK g : Adds(g, f, Small(n))
    BY <1>3
  <2> DEFINE h == [s \in Small(n + 1) |-> IF s = {} THEN 0
                     ELSE f[CHOOSE x \in s : TRUE] + g[s \ {CHOOSE x \in s : TRUE}]]
  <2>2. ASSUME NEW s \in Small(n + 1), s # {}
        PROVE  s \ {CHOOSE x \in s : TRUE} \in Small(n)
    <3>1. (CHOOSE x \in s : TRUE) \in s
      BY <2>2
    <3>2. Cardinality(s \ {CHOOSE x \in s : TRUE}) = Cardinality(s) - 1
      BY <1>1, <3>1, FS_RemoveElement
    <3>3. QED
      BY <1>1, <3>2
  <2>3. \A s \in Small(n) : s \in Small(n + 1)
    BY <1>1
  <2>4. \A s \in Small(n) : h[s] = g[s]
    BY <2>1, <2>3 DEF Adds
  <2>5. h = [s \in Small(n + 1) |-> IF s = {} THEN 0
                     ELSE f[CHOOSE x \in s : TRUE] + h[s \ {CHOOSE x \in s : TRUE}]]
    <3> HIDE DEF Small
    <3>1. \A s \in Small(n + 1) :
            s # {} => h[s \ {CHOOSE x \in s : TRUE}] = g[s \ {CHOOSE x \in s : TRUE}]
      <4> HIDE DEF h
      <4>1. QED
        BY <2>2, <2>4
    <3>2. \A s \in Small(n + 1) :
            (IF s = {} THEN 0 ELSE f[CHOOSE x \in s : TRUE] + g[s \ {CHOOSE x \in s : TRUE}])
            = (IF s = {} THEN 0 ELSE f[CHOOSE x \in s : TRUE] + h[s \ {CHOOSE x \in s : TRUE}])
      <4> HIDE DEF h
      <4>1. QED
        BY <3>1
    <3>3. QED
      BY <3>2, Zenon
  <2>6. Adds(h, f, Small(n + 1))
    <3> HIDE DEF h
    <3>1. QED
      BY <2>5 DEF Adds
  <2>7. \E k : Adds(k, f, Small(n + 1))
    <3> HIDE DEF h, Small
    <3>1. QED
      BY <2>6
  <2>8. QED
    <3> HIDE DEF Small
    <3>1. QED
      BY <2>7
<1>4. Cardinality(S) \in Sizes
  <2> HIDE DEF Sizes
  <2>1. QED
    BY <1>1, <1>2, <1>3, NatSetInduction
<1>5. Small(Cardinality(S)) = SUBSET S
  BY <1>1
<1>6. QED
  BY <1>4, <1>5

\* A sum is the last entry of a table of partial sums.
LEMMA SumTable ==
  ASSUME NEW S, IsFiniteSet(S), NEW f
  PROVE  \E g : PartialSums(g, f, S) /\ SumFunctionOnSet(f, S) = g[S]
<1> DEFINE g == CHOOSE g : PartialSums(g, f, S)
<1>1. PartialSums(g, f, S)
  BY TableOfSums DEF PartialSums
<1>2. SumFunctionOnSet(f, S) = g[S]
  BY DEF SumFunctionOnSet, FoldFunctionOnSet, MapThenFoldSet, PartialSums, Adds
<1>3. QED
  BY <1>1, <1>2

Alike(e, f, T) == \A x \in T : e[x] = f[x]

\* Two tables of partial sums agree where both have an entry.
LEMMA TablesAgree ==
  ASSUME NEW S, IsFiniteSet(S), NEW T \in SUBSET S, NEW f, NEW e,
         Alike(e, f, T), NEW g, PartialSums(g, f, S), NEW h, PartialSums(h, e, T)
  PROVE  g[T] = h[T]
<1> DEFINE Same == {s \in SUBSET T : g[s] = h[s]}
<1>1. {} \in Same
  BY DEF PartialSums, Adds
<1>2. ASSUME NEW s \in SUBSET T, s # {}, \A x \in s : s \ {x} \in Same
      PROVE  s \in Same
  <2>1. PICK c : c = CHOOSE x \in s : TRUE
    OBVIOUS
  <2>2. c \in s
    BY <1>2, <2>1
  <2>3. s \in SUBSET S /\ s \ {c} \in SUBSET S /\ s \ {c} \in SUBSET T
    OBVIOUS
  <2>4. g[s] = f[c] + g[s \ {c}] /\ h[s] = e[c] + h[s \ {c}]
    BY <1>2, <2>1, <2>3 DEF PartialSums, Adds
  <2>5. QED
    BY <1>2, <2>2, <2>4 DEF Alike
<1>3. IsFiniteSet(T)
  BY FS_Subset
<1>4. QED
  <2> HIDE DEF Same
  <2>1. \A s \in SUBSET T : s \in Same
    BY <1>1, <1>2, <1>3, SubsetInduction
  <2>2. QED
    BY <2>1 DEF Same

\* A sum without terms.
LEMMA SumEmpty ==
  ASSUME NEW f
  PROVE  SumFunctionOnSet(f, {}) = 0
<1>1. PICK g : PartialSums(g, f, {}) /\ SumFunctionOnSet(f, {}) = g[{}]
  BY SumTable, FS_EmptySet
<1>2. QED
  BY <1>1 DEF PartialSums, Adds

\* A sum depends on nothing but the terms.
LEMMA SumSame ==
  ASSUME NEW S, IsFiniteSet(S), NEW f, NEW e, \A x \in S : f[x] = e[x]
  PROVE  SumFunctionOnSet(f, S) = SumFunctionOnSet(e, S)
<1>1. PICK g : PartialSums(g, f, S) /\ SumFunctionOnSet(f, S) = g[S]
  BY SumTable
<1>2. PICK h : PartialSums(h, e, S) /\ SumFunctionOnSet(e, S) = h[S]
  BY SumTable
<1>3. g[S] = h[S]
  <2>1. S \in SUBSET S /\ Alike(e, f, S)
    BY DEF Alike
  <2>2. PartialSums(g, f, S) /\ PartialSums(h, e, S)
    BY <1>1, <1>2
  <2>3. QED
    BY <2>1, <2>2, TablesAgree
<1>4. QED
  BY <1>1, <1>2, <1>3

\* A sum over a finite set is the term of any member and the sum of the others.
LEMMA SumSplits ==
  ASSUME NEW S, IsFiniteSet(S), NEW f, \A x \in S : f[x] \in Nat
  PROVE  /\ SumFunctionOnSet(f, S) \in Nat
         /\ \A x \in S : SumFunctionOnSet(f, S) = f[x] + SumFunctionOnSet(f, S \ {x})
<1>1. PICK g : PartialSums(g, f, S) /\ SumFunctionOnSet(f, S) = g[S]
  BY SumTable
<1> DEFINE Natural == {s \in SUBSET S : g[s] \in Nat}
           Good == {s \in SUBSET S : \A x \in s : g[s] = f[x] + g[s \ {x}]}
<1>2. ASSUME NEW s \in SUBSET S, s # {}
      PROVE  \E c \in s : g[s] = f[c] + g[s \ {c}]
  BY <1>1, <1>2 DEF PartialSums, Adds
<1>3. \A s \in SUBSET S : g[s] \in Nat
  <2>1. {} \in Natural
    BY <1>1 DEF PartialSums, Adds
  <2>2. ASSUME NEW s \in SUBSET S, s # {}, \A x \in s : s \ {x} \in Natural
        PROVE  s \in Natural
    <3>1. PICK c \in s : g[s] = f[c] + g[s \ {c}]
      BY <1>2, <2>2
    <3>2. f[c] \in Nat /\ g[s \ {c}] \in Nat
      BY <2>2
    <3>3. QED
      BY <3>1, <3>2
  <2> HIDE DEF Natural
  <2>3. \A s \in SUBSET S : s \in Natural
    BY <2>1, <2>2, SubsetInduction
  <2>4. QED
    BY <2>3 DEF Natural
<1>4. \A s \in SUBSET S : \A x \in s : g[s] = f[x] + g[s \ {x}]
  <2>1. {} \in Good
    OBVIOUS
  <2>2. ASSUME NEW s \in SUBSET S, s # {}, \A x \in s : s \ {x} \in Good
        PROVE  s \in Good
    <3>1. PICK c \in s : g[s] = f[c] + g[s \ {c}]
      BY <1>2, <2>2
    <3>2. ASSUME NEW x \in s, x # c
          PROVE  g[s] = f[x] + g[s \ {x}]
      <4>1. (s \ {c}) \ {x} = (s \ {x}) \ {c}
        OBVIOUS
      <4>2. g[s \ {c}] = f[x] + g[(s \ {c}) \ {x}]
        BY <2>2, <3>2
      <4>3. g[s \ {x}] = f[c] + g[(s \ {x}) \ {c}]
        BY <2>2, <3>2
      <4>4. g[(s \ {x}) \ {c}] \in Nat /\ f[x] \in Nat /\ f[c] \in Nat
        BY <1>3
      <4>5. QED
        BY <3>1, <4>1, <4>2, <4>3, <4>4
    <3>3. QED
      BY <3>1, <3>2
  <2> HIDE DEF Good
  <2>3. \A s \in SUBSET S : s \in Good
    BY <2>1, <2>2, SubsetInduction
  <2>4. QED
    BY <2>3 DEF Good
<1>5. ASSUME NEW x \in S
      PROVE  SumFunctionOnSet(f, S \ {x}) = g[S \ {x}]
  <2>1. IsFiniteSet(S \ {x})
    BY FS_RemoveElement
  <2>2. PICK h : PartialSums(h, f, S \ {x}) /\ SumFunctionOnSet(f, S \ {x}) = h[S \ {x}]
    BY <2>1, SumTable
  <2>3. S \ {x} \in SUBSET S /\ S \ {x} \in SUBSET (S \ {x}) /\ Alike(f, f, S \ {x})
    BY DEF Alike
  <2>4. PartialSums(g, f, S) /\ PartialSums(h, f, S \ {x})
    BY <1>1, <2>2
  <2>5. g[S \ {x}] = h[S \ {x}]
    BY <2>3, <2>4, TablesAgree
  <2>6. QED
    BY <2>2, <2>3, <2>5
<1>6. QED
  BY <1>1, <1>3, <1>4, <1>5

\* A sum is at most another when each of its terms that counts has a term of the
\* other's, no smaller and its own.
Matched(f, S, g, T, p) ==
  /\ \A x \in S : f[x] > 0 => p[x] \in T /\ f[x] <= g[p[x]]
  /\ \A x, y \in S : f[x] > 0 /\ f[y] > 0 /\ p[x] = p[y] => x = y

Counts(f, S) == \A x \in S : f[x] \in Nat

\* A sum whose terms are matched is at most the other.
LEMMA SumMatched ==
  ASSUME NEW S, IsFiniteSet(S), NEW T, IsFiniteSet(T), NEW f, Counts(f, S),
         NEW g, Counts(g, T), NEW p, Matched(f, S, g, T, p)
  PROVE  SumFunctionOnSet(f, S) <= SumFunctionOnSet(g, T)
<1> DEFINE Maps(s, t) == \A x \in s : f[x] > 0 => p[x] \in t
           Good == {s \in SUBSET S : \A t \in SUBSET T :
                      Maps(s, t) => SumFunctionOnSet(f, s) <= SumFunctionOnSet(g, t)}
<1>1. \A s \in SUBSET S :
        /\ SumFunctionOnSet(f, s) \in Nat
        /\ \A x \in s : SumFunctionOnSet(f, s) = f[x] + SumFunctionOnSet(f, s \ {x})
  BY FS_Subset, SumSplits DEF Counts
<1>2. \A t \in SUBSET T :
        /\ SumFunctionOnSet(g, t) \in Nat
        /\ \A x \in t : SumFunctionOnSet(g, t) = g[x] + SumFunctionOnSet(g, t \ {x})
  BY FS_Subset, SumSplits DEF Counts
<1>3. {} \in Good
  BY <1>2, SumEmpty
<1>4. ASSUME NEW s \in SUBSET S, s # {}, \A x \in s : s \ {x} \in Good
      PROVE  s \in Good
  <2>1. SUFFICES ASSUME NEW t \in SUBSET T, Maps(s, t)
                 PROVE  SumFunctionOnSet(f, s) <= SumFunctionOnSet(g, t)
    OBVIOUS
  <2>2. PICK x : x \in s
    BY <1>4
  <2>3. SumFunctionOnSet(f, s) = f[x] + SumFunctionOnSet(f, s \ {x})
    BY <1>1, <2>2
  <2>4. s \ {x} \in Good /\ f[x] \in Nat /\ SumFunctionOnSet(f, s \ {x}) \in Nat
    <3>1. s \ {x} \in SUBSET S /\ x \in S
      BY <2>2
    <3>2. QED
      BY <1>1, <1>4, <2>2, <3>1 DEF Counts
  <2>5. CASE f[x] = 0
    <3>1. Maps(s \ {x}, t)
      BY <2>1
    <3>2. SumFunctionOnSet(f, s \ {x}) <= SumFunctionOnSet(g, t)
      BY <2>4, <3>1
    <3>3. QED
      BY <2>3, <2>4, <2>5, <3>2
  <2>6. CASE f[x] > 0
    <3>1. p[x] \in t /\ f[x] <= g[p[x]] /\ g[p[x]] \in Nat
      BY <2>1, <2>2, <2>6 DEF Matched, Counts
    <3>2. Maps(s \ {x}, t \ {p[x]})
      BY <2>1, <2>2, <2>6 DEF Matched
    <3>3. t \ {p[x]} \in SUBSET T
      OBVIOUS
    <3>4. SumFunctionOnSet(f, s \ {x}) <= SumFunctionOnSet(g, t \ {p[x]})
      BY <2>4, <3>2, <3>3
    <3>5. SumFunctionOnSet(g, t) = g[p[x]] + SumFunctionOnSet(g, t \ {p[x]})
      BY <1>2, <3>1
    <3>6. SumFunctionOnSet(g, t \ {p[x]}) \in Nat
      BY <1>2, <3>3
    <3>7. QED
      BY <2>3, <2>4, <3>1, <3>4, <3>5, <3>6
  <2>7. QED
    BY <2>4, <2>5, <2>6
<1>5. S \in Good
  <2> HIDE DEF Good
  <2>1. \A s \in SUBSET S : s \in Good
    BY <1>3, <1>4, SubsetInduction
  <2>2. QED
    BY <2>1
<1>6. Maps(S, T)
  BY DEF Matched
<1>7. QED
  BY <1>5, <1>6

\* The sum over two sets that do not overlap.
LEMMA SumUnion ==
  ASSUME NEW A, IsFiniteSet(A), NEW B, IsFiniteSet(B), A \cap B = {},
         NEW f, Counts(f, A), Counts(f, B)
  PROVE  SumFunctionOnSet(f, A \cup B) = SumFunctionOnSet(f, A) + SumFunctionOnSet(f, B)
<1> DEFINE Good == {s \in SUBSET A :
                      SumFunctionOnSet(f, s \cup B) = SumFunctionOnSet(f, s) + SumFunctionOnSet(f, B)}
<1>1. SumFunctionOnSet(f, B) \in Nat
  BY SumSplits DEF Counts
<1>2. {} \in Good
  <2>1. {} \cup B = B
    OBVIOUS
  <2>2. QED
    BY <1>1, <2>1, SumEmpty
<1>3. ASSUME NEW s \in SUBSET A, s # {}, \A x \in s : s \ {x} \in Good
      PROVE  s \in Good
  <2>1. PICK x : x \in s
    BY <1>3
  <2>2. IsFiniteSet(s) /\ IsFiniteSet(s \cup B) /\ IsFiniteSet(s \ {x})
    BY FS_Subset, FS_Union, FS_RemoveElement
  <2>3. SumFunctionOnSet(f, s) = f[x] + SumFunctionOnSet(f, s \ {x})
    BY <2>1, <2>2, SumSplits DEF Counts
  <2>4. SumFunctionOnSet(f, s \cup B) = f[x] + SumFunctionOnSet(f, (s \cup B) \ {x})
    <3>1. \A y \in s \cup B : f[y] \in Nat
      BY DEF Counts
    <3>2. x \in s \cup B
      BY <2>1
    <3>3. QED
      BY <2>2, <3>1, <3>2, SumSplits
  <2>5. (s \cup B) \ {x} = (s \ {x}) \cup B
    BY <2>1
  <2>6. SumFunctionOnSet(f, s \ {x}) \in Nat /\ f[x] \in Nat
    BY <2>1, <2>2, SumSplits DEF Counts
  <2>7. SumFunctionOnSet(f, (s \ {x}) \cup B) = SumFunctionOnSet(f, s \ {x}) + SumFunctionOnSet(f, B)
    BY <1>3, <2>1
  <2>8. SumFunctionOnSet(f, s \cup B) = f[x] + SumFunctionOnSet(f, (s \ {x}) \cup B)
    BY <2>4, <2>5
  <2>9. SumFunctionOnSet(f, s \cup B) = SumFunctionOnSet(f, s) + SumFunctionOnSet(f, B)
    BY <1>1, <2>3, <2>6, <2>7, <2>8
  <2>10. QED
    BY <2>9
<1>4. A \in Good
  <2> HIDE DEF Good
  <2>1. \A s \in SUBSET A : s \in Good
    BY <1>2, <1>3, SubsetInduction
  <2>2. QED
    BY <2>1
<1>5. QED
  BY <1>4

\* Parts p of a set, one for each member of an index set, none of which overlap.
PartsOf(p, S, U) ==
  /\ \A x \in S : p[x] \subseteq U
  /\ \A x, y \in S : x # y => p[x] \cap p[y] = {}

\* A sum over a set is the sum of the sums over its parts.
LEMMA SumOfParts ==
  ASSUME NEW S, IsFiniteSet(S), NEW U, IsFiniteSet(U), NEW f, Counts(f, U),
         NEW p, PartsOf(p, S, U), NEW g, \A x \in S : g[x] = SumFunctionOnSet(f, p[x])
  PROVE  SumFunctionOnSet(g, S) = SumFunctionOnSet(f, UNION {p[x] : x \in S})
<1> DEFINE Whole(s) == UNION {p[x] : x \in s}
           Good == {s \in SUBSET S : SumFunctionOnSet(g, s) = SumFunctionOnSet(f, Whole(s))}
<1>1. \A s \in SUBSET S : Whole(s) \subseteq U /\ IsFiniteSet(Whole(s)) /\ Counts(f, Whole(s))
  <2>1. TAKE s \in SUBSET S
  <2>2. Whole(s) \in SUBSET U
    BY DEF PartsOf
  <2> HIDE DEF Whole
  <2>3. QED
    BY <2>2, FS_Subset DEF Counts
<1>2. \A x \in S : IsFiniteSet(p[x]) /\ Counts(f, p[x])
  BY FS_Subset DEF PartsOf, Counts
<1>3. Counts(g, S)
  BY <1>2, SumSplits DEF Counts
<1>4. {} \in Good
  <2>1. Whole({}) = {}
    OBVIOUS
  <2>2. QED
    BY <2>1, SumEmpty
<1>5. ASSUME NEW s \in SUBSET S, s # {}, \A x \in s : s \ {x} \in Good
      PROVE  s \in Good
  <2>1. PICK x : x \in s
    BY <1>5
  <2>2. SumFunctionOnSet(g, s) = g[x] + SumFunctionOnSet(g, s \ {x})
    BY <1>3, <2>1, FS_Subset, SumSplits DEF Counts
  <2>3. Whole(s) = p[x] \cup Whole(s \ {x})
    BY <2>1
  <2>4. p[x] \cap Whole(s \ {x}) = {}
    BY <2>1 DEF PartsOf
  <2>5. s \ {x} \in SUBSET S /\ x \in S
    BY <2>1
  <2>6. SumFunctionOnSet(g, s \ {x}) = SumFunctionOnSet(f, Whole(s \ {x}))
    BY <1>5, <2>1
  <2> HIDE DEF Whole
  <2>7. SumFunctionOnSet(f, p[x] \cup Whole(s \ {x}))
          = SumFunctionOnSet(f, p[x]) + SumFunctionOnSet(f, Whole(s \ {x}))
    BY <1>1, <1>2, <2>4, <2>5, SumUnion
  <2>8. QED
    BY <2>2, <2>3, <2>5, <2>6, <2>7
<1>6. S \in Good
  <2> HIDE DEF Good
  <2>1. \A s \in SUBSET S : s \in Good
    BY <1>4, <1>5, SubsetInduction
  <2>2. QED
    BY <2>1
<1>7. QED
  BY <1>6

\* Two sums are the same when their terms are, one for one.
SameTerms(f, A, g, B, p, q) ==
  /\ \A x \in A : p[x] \in B /\ q[p[x]] = x /\ f[x] = g[p[x]]
  /\ \A y \in B : q[y] \in A /\ p[q[y]] = y

\* Sums with the same terms are the same.
LEMMA SumReindexed ==
  ASSUME NEW A, IsFiniteSet(A), NEW B, IsFiniteSet(B), NEW f, NEW g, Counts(g, B),
         NEW p, NEW q, SameTerms(f, A, g, B, p, q)
  PROVE  SumFunctionOnSet(f, A) = SumFunctionOnSet(g, B)
<1>1. Counts(f, A)
  BY DEF Counts, SameTerms
<1>2. Matched(f, A, g, B, p)
  BY <1>1 DEF Matched, SameTerms, Counts
<1>3. Matched(g, B, f, A, q)
  BY DEF Matched, SameTerms, Counts
<1>4. /\ SumFunctionOnSet(f, A) <= SumFunctionOnSet(g, B)
      /\ SumFunctionOnSet(g, B) <= SumFunctionOnSet(f, A)
  BY <1>1, <1>2, <1>3, SumMatched
<1>5. SumFunctionOnSet(f, A) \in Nat /\ SumFunctionOnSet(g, B) \in Nat
  BY <1>1, SumSplits DEF Counts
<1>6. QED
  BY <1>4, <1>5

\* A row of a table, and a column, as a set of its cells.
RowOf(m, i, R, row) == \A r \in R : m[<<i, r>>] = row[r]
ColumnOf(m, r, S, column) == \A i \in S : m[<<i, r>>] = column[i]

\* The sum of a row of a table.
LEMMA SumOfRow ==
  ASSUME NEW R, IsFiniteSet(R), NEW i, NEW row, Counts(row, R),
         NEW m, RowOf(m, i, R, row)
  PROVE  SumFunctionOnSet(m, {i} \X R) = SumFunctionOnSet(row, R)
<1> DEFINE cells == {i} \X R
           p == [c \in cells |-> c[2]]
           q == [r \in R |-> <<i, r>>]
<1>1. IsFiniteSet(cells)
  BY FS_Product, FS_Singleton
<1>2. SameTerms(m, cells, row, R, p, q)
  <2>1. \A c \in cells : c = <<i, c[2]>> /\ c[2] \in R
    OBVIOUS
  <2>2. QED
    BY <2>1 DEF SameTerms, RowOf
<1> HIDE DEF p, q, cells
<1>3. SumFunctionOnSet(m, cells) = SumFunctionOnSet(row, R)
  BY <1>1, <1>2, SumReindexed
<1>4. QED
  BY <1>3 DEF cells

\* The sum of a column of a table.
LEMMA SumOfColumn ==
  ASSUME NEW S, IsFiniteSet(S), NEW r, NEW column, Counts(column, S),
         NEW m, ColumnOf(m, r, S, column)
  PROVE  SumFunctionOnSet(m, S \X {r}) = SumFunctionOnSet(column, S)
<1> DEFINE cells == S \X {r}
           p == [c \in cells |-> c[1]]
           q == [i \in S |-> <<i, r>>]
<1>1. IsFiniteSet(cells)
  BY FS_Product, FS_Singleton
<1>2. SameTerms(m, cells, column, S, p, q)
  <2>1. \A c \in cells : c = <<c[1], r>> /\ c[1] \in S
    OBVIOUS
  <2>2. QED
    BY <2>1 DEF SameTerms, ColumnOf
<1> HIDE DEF p, q, cells
<1>3. SumFunctionOnSet(m, cells) = SumFunctionOnSet(column, S)
  BY <1>1, <1>2, SumReindexed
<1>4. QED
  BY <1>3 DEF cells

\* The sum of a table is the sum of the sums of its rows.
RowSums(g, m, S, R) == \A i \in S : g[i] = SumFunctionOnSet(m, {i} \X R)
ColumnSums(g, m, S, R) == \A r \in R : g[r] = SumFunctionOnSet(m, S \X {r})

\* The sum of a table is the sum of the sums of its rows.
LEMMA SumOfTable ==
  ASSUME NEW S, IsFiniteSet(S), NEW R, IsFiniteSet(R), NEW m, Counts(m, S \X R),
         NEW g, RowSums(g, m, S, R)
  PROVE  SumFunctionOnSet(g, S) = SumFunctionOnSet(m, S \X R)
<1> DEFINE p == [i \in S |-> {i} \X R]
<1>1. PartsOf(p, S, S \X R)
  BY DEF PartsOf
<1>2. IsFiniteSet(S \X R)
  BY FS_Product
<1>3. UNION {p[i] : i \in S} = S \X R
  OBVIOUS
<1>4. \A i \in S : g[i] = SumFunctionOnSet(m, p[i])
  BY DEF RowSums
<1> HIDE DEF p
<1>5. SumFunctionOnSet(g, S) = SumFunctionOnSet(m, UNION {p[i] : i \in S})
  BY <1>1, <1>2, <1>4, SumOfParts
<1>6. QED
  BY <1>3, <1>5

\* And of those of its columns.
LEMMA SumOfColumns ==
  ASSUME NEW S, IsFiniteSet(S), NEW R, IsFiniteSet(R), NEW m, Counts(m, S \X R),
         NEW g, ColumnSums(g, m, S, R)
  PROVE  SumFunctionOnSet(g, R) = SumFunctionOnSet(m, S \X R)
<1> DEFINE p == [r \in R |-> S \X {r}]
<1>1. PartsOf(p, R, S \X R)
  BY DEF PartsOf
<1>2. IsFiniteSet(S \X R)
  BY FS_Product
<1>3. UNION {p[r] : r \in R} = S \X R
  OBVIOUS
<1>4. \A r \in R : g[r] = SumFunctionOnSet(m, p[r])
  BY DEF ColumnSums
<1> HIDE DEF p
<1>5. SumFunctionOnSet(g, R) = SumFunctionOnSet(m, UNION {p[r] : r \in R})
  BY <1>1, <1>2, <1>4, SumOfParts
<1>6. QED
  BY <1>3, <1>5

\* A term that grows makes the sum grow by as much.
LEMMA SumOneMore ==
  ASSUME NEW S, IsFiniteSet(S), NEW f, Counts(f, S), NEW x \in S, NEW d \in Nat,
         NEW g, g[x] = f[x] + d, \A y \in S \ {x} : g[y] = f[y]
  PROVE  SumFunctionOnSet(g, S) = SumFunctionOnSet(f, S) + d
<1>1. Counts(g, S)
  BY DEF Counts
<1>2. /\ SumFunctionOnSet(f, S) = f[x] + SumFunctionOnSet(f, S \ {x})
      /\ SumFunctionOnSet(g, S) = g[x] + SumFunctionOnSet(g, S \ {x})
  BY <1>1, SumSplits DEF Counts
<1>3. IsFiniteSet(S \ {x})
  BY FS_RemoveElement
<1>4. SumFunctionOnSet(g, S \ {x}) = SumFunctionOnSet(f, S \ {x})
  BY <1>3, SumSame
<1>5. SumFunctionOnSet(f, S \ {x}) \in Nat /\ f[x] \in Nat
  BY <1>3, SumSplits DEF Counts
<1>6. QED
  BY <1>2, <1>4, <1>5

\* A sum of zeros.
LEMMA SumZero ==
  ASSUME NEW S, IsFiniteSet(S), NEW f, \A x \in S : f[x] = 0
  PROVE  SumFunctionOnSet(f, S) = 0
<1>1. Counts(f, S) /\ Counts(f, {}) /\ Matched(f, S, f, {}, f)
  BY DEF Counts, Matched
<1>2. SumFunctionOnSet(f, S) <= SumFunctionOnSet(f, {})
  BY <1>1, FS_EmptySet, SumMatched
<1>3. SumFunctionOnSet(f, S) \in Nat
  BY <1>1, SumSplits DEF Counts
<1>4. QED
  BY <1>2, <1>3, SumEmpty

\* As many members as the sum of what each class of them counts, at most.
LEMMA FewerThanSum ==
  ASSUME NEW S, IsFiniteSet(S), NEW T, IsFiniteSet(T), NEW g, Counts(g, T),
         NEW q, \A x \in S : q[x] \in T,
         \A t \in T : Cardinality({x \in S : q[x] = t}) <= g[t]
  PROVE  Cardinality(S) <= SumFunctionOnSet(g, T)
<1> DEFINE Good == {t \in SUBSET T : Cardinality({x \in S : q[x] \in t}) <= SumFunctionOnSet(g, t)}
           Of(t) == {x \in S : q[x] \in t}
<1>1. \A t : IsFiniteSet(Of(t)) /\ Cardinality(Of(t)) \in Nat
  <2>1. \A t : Of(t) \in SUBSET S
    OBVIOUS
  <2> HIDE DEF Of
  <2>2. QED
    BY <2>1, FS_Subset, FS_CardinalityType
<1>2. {} \in Good
  <2>1. Of({}) = {}
    OBVIOUS
  <2>2. QED
    BY <2>1, FS_EmptySet, SumEmpty
<1>3. ASSUME NEW t \in SUBSET T, t # {}, \A a \in t : t \ {a} \in Good
      PROVE  t \in Good
  <2>1. PICK a : a \in t
    BY <1>3
  <2>2. IsFiniteSet(t)
    BY FS_Subset
  <2>3. /\ SumFunctionOnSet(g, t) = g[a] + SumFunctionOnSet(g, t \ {a})
        /\ SumFunctionOnSet(g, t \ {a}) \in Nat /\ g[a] \in Nat
    BY <2>1, <2>2, SumSplits, FS_RemoveElement DEF Counts
  <2>4. Of(t) = {x \in S : q[x] = a} \cup Of(t \ {a}) /\ {x \in S : q[x] = a} = Of({a})
        /\ Of({a}) \cap Of(t \ {a}) = {}
    BY <2>1
  <2>5. Cardinality(Of({a})) <= g[a] /\ Cardinality(Of(t \ {a})) <= SumFunctionOnSet(g, t \ {a})
    <3>1. Cardinality(Of({a})) <= g[a]
      BY <2>1, <2>4
    <3>2. Cardinality(Of(t \ {a})) <= SumFunctionOnSet(g, t \ {a})
      BY <1>3, <2>1
    <3>3. QED
      BY <3>1, <3>2
  <2> HIDE DEF Of
  <2>6. Cardinality(Of(t)) = Cardinality(Of({a})) + Cardinality(Of(t \ {a}))
    <3>1. Cardinality(Of({a}) \cup Of(t \ {a}))
            = Cardinality(Of({a})) + Cardinality(Of(t \ {a})) - Cardinality(Of({a}) \cap Of(t \ {a}))
      BY <1>1, FS_Union
    <3>2. Cardinality(Of({a}) \cap Of(t \ {a})) = 0
      BY <2>4, FS_EmptySet
    <3>3. Cardinality(Of({a})) \in Nat /\ Cardinality(Of(t \ {a})) \in Nat
      BY <1>1
    <3>4. Of(t) = Of({a}) \cup Of(t \ {a})
      BY <2>4
    <3>5. Cardinality(Of(t)) = Cardinality(Of({a}) \cup Of(t \ {a}))
      BY <3>4
    <3>6. QED
      BY <3>1, <3>2, <3>3, <3>5
  <2>7. Cardinality(Of(t)) <= SumFunctionOnSet(g, t)
    BY <1>1, <2>3, <2>5, <2>6
  <2>8. QED
    BY <2>7 DEF Of
<1>4. T \in Good
  <2> HIDE DEF Good
  <2>1. \A t \in SUBSET T : t \in Good
    BY <1>2, <1>3, SubsetInduction
  <2>2. QED
    BY <2>1
<1>5. {x \in S : q[x] \in T} = S
  OBVIOUS
<1>6. QED
  BY <1>4, <1>5

\* And at least, when each class has as many members as it counts.
LEMMA SumFewerThan ==
  ASSUME NEW S, IsFiniteSet(S), NEW T, IsFiniteSet(T), NEW g, Counts(g, T), NEW q,
         \A t \in T : g[t] <= Cardinality({x \in S : q[x] = t})
  PROVE  SumFunctionOnSet(g, T) <= Cardinality(S)
<1> DEFINE Of(t) == {x \in S : q[x] \in t}
           Good == {t \in SUBSET T : SumFunctionOnSet(g, t) <= Cardinality(Of(t))}
<1>1. \A t : IsFiniteSet(Of(t)) /\ Cardinality(Of(t)) \in Nat /\ Cardinality(Of(t)) <= Cardinality(S)
  <2>1. \A t : Of(t) \in SUBSET S
    OBVIOUS
  <2> HIDE DEF Of
  <2>2. QED
    BY <2>1, FS_Subset, FS_CardinalityType
<1>2. {} \in Good
  <2>1. Of({}) = {}
    OBVIOUS
  <2>2. QED
    BY <2>1, FS_EmptySet, SumEmpty
<1>3. ASSUME NEW t \in SUBSET T, t # {}, \A a \in t : t \ {a} \in Good
      PROVE  t \in Good
  <2>1. PICK a : a \in t
    BY <1>3
  <2>2. IsFiniteSet(t)
    BY FS_Subset
  <2>3. /\ SumFunctionOnSet(g, t) = g[a] + SumFunctionOnSet(g, t \ {a})
        /\ SumFunctionOnSet(g, t \ {a}) \in Nat /\ g[a] \in Nat
    BY <2>1, <2>2, SumSplits, FS_RemoveElement DEF Counts
  <2>4. Of(t) = Of({a}) \cup Of(t \ {a}) /\ {x \in S : q[x] = a} = Of({a})
        /\ Of({a}) \cap Of(t \ {a}) = {}
    BY <2>1
  <2>5. g[a] <= Cardinality(Of({a})) /\ SumFunctionOnSet(g, t \ {a}) <= Cardinality(Of(t \ {a}))
    <3>1. g[a] <= Cardinality(Of({a}))
      BY <2>1, <2>4
    <3>2. SumFunctionOnSet(g, t \ {a}) <= Cardinality(Of(t \ {a}))
      BY <1>3, <2>1
    <3>3. QED
      BY <3>1, <3>2
  <2> HIDE DEF Of
  <2>6. Cardinality(Of(t)) = Cardinality(Of({a})) + Cardinality(Of(t \ {a}))
    <3>1. Cardinality(Of({a}) \cup Of(t \ {a}))
            = Cardinality(Of({a})) + Cardinality(Of(t \ {a})) - Cardinality(Of({a}) \cap Of(t \ {a}))
      BY <1>1, FS_Union
    <3>2. Cardinality(Of({a}) \cap Of(t \ {a})) = 0
      BY <2>4, FS_EmptySet
    <3>3. Cardinality(Of({a})) \in Nat /\ Cardinality(Of(t \ {a})) \in Nat
      BY <1>1
    <3>4. Of(t) = Of({a}) \cup Of(t \ {a})
      BY <2>4
    <3>5. Cardinality(Of(t)) = Cardinality(Of({a}) \cup Of(t \ {a}))
      BY <3>4
    <3>6. QED
      BY <3>1, <3>2, <3>3, <3>5
  <2>7. SumFunctionOnSet(g, t) <= Cardinality(Of(t))
    BY <1>1, <2>3, <2>5, <2>6
  <2>8. QED
    BY <2>7
<1>4. T \in Good
  <2> HIDE DEF Good
  <2>1. \A t \in SUBSET T : t \in Good
    BY <1>2, <1>3, SubsetInduction
  <2>2. QED
    BY <2>1
<1>5. SumFunctionOnSet(g, T) \in Nat /\ Cardinality(S) \in Nat
  BY SumSplits, FS_CardinalityType DEF Counts
<1>6. QED
  BY <1>1, <1>4, <1>5

-------------------------------------------------------------------------------
\* What the metrics keep: the parts of the invariants.

\* A request is recorded within MaxLate of its stamp.
StampsLate ==
  /\ clock <= MaxClock
  /\ \A w \in Workers : request[w] # Idle => /\ request[w].now <= clock
                                             /\ clock <= request[w].now + MaxLate

\* A bucket keeps a place for the rest.
RoomForRest ==
  \A i \in Metrics!Slots : Cardinality(Metrics!Present(buckets[i]) \ {Other}) < MaxHosts

\* A bucket counts nothing but requests recorded in its second.
BucketsHonest ==
  \A i \in Metrics!Slots :
    buckets[i].requests > 0 => /\ buckets[i].second \in Seconds
                               /\ buckets[i].second % Ring = i
                               /\ buckets[i].requests <= recorded[buckets[i].second]

\* A second whose place the clock has not reached again is in its place, with every
\* request recorded in it.
SecondsKept ==
  \A s \in Seconds :
    recorded[s] > 0 => /\ s <= clock
                       /\ s > clock - Ring => /\ buckets[s % Ring].second = s
                                              /\ buckets[s % Ring].requests >= recorded[s]

\* The counters of a bucket agree.
AddsUp(b) ==
  /\ b.requests = SumFunctionOnSet(b.results, Metrics!Results)
  /\ b.requests = SumFunctionOnSet([h \in Metrics!Names |-> b.hosts[h].requests], Metrics!Names)
  /\ b.results["failed"]
       = SumFunctionOnSet([h \in Metrics!Names |-> b.hosts[h].errors], Metrics!Names)
  /\ \A h \in Metrics!Names : b.hosts[h].errors <= b.hosts[h].requests

BucketsAddUp == \A i \in Metrics!Slots : AddsUp(buckets[i])

\* The failures that are recorded in a second, as its place in the ring has them.
FailedIn(s) == IF buckets[s % Ring].second = s THEN buckets[s % Ring].results["failed"] ELSE 0

PlacesOf(r, s) == {i \in DOMAIN r : r[i].now = s}

\* The recent errors of a second that is kept are failures it counts; and while the
\* list has room it has them all.
ErrorsCounted ==
  /\ \A i \in DOMAIN recent : recent[i].now \in Seconds
  /\ \A s \in Seconds : s > clock - Ring => Cardinality(PlacesOf(recent, s)) <= FailedIn(s)
  /\ Len(recent) < MaxRecent =>
       \A i \in Metrics!Slots :
         buckets[i].results["failed"] <= Cardinality(PlacesOf(recent, buckets[i].second))

\* The goroutines that have recorded a failure and not yet asked for its line.
Asking(s) == {w \in Workers : call[w] # Idle /\ request[w] = Idle /\ call[w].now = s}

LinesAt(s) == {k \in Keys : accounted[k] > 0 /\ written[k] = s}

\* Behind each line of a second that is kept, and each that may come, is a failure it
\* counts.
LinesCounted ==
  \A s \in Seconds : s > clock - Ring =>
    Cardinality(LinesAt(s)) + Cardinality(Asking(s)) <= FailedIn(s)

\* A goroutine that is to record a failure is to log the same one.
CallsMatch ==
  \A w \in Workers : request[w] # Idle =>
    /\ request[w].result = "failed" <=> call[w] # Idle
    /\ call[w] # Idle => call[w].now = request[w].now

-------------------------------------------------------------------------------
\* The ring: a second and its place.

\* What is assumed of the constants.
LEMMA MetricsConstants ==
  /\ Ring \in Nat /\ Ring > 0
  /\ Other \notin Keys
  /\ Windows \subseteq 1 .. Ring /\ Ring \in Windows
  /\ Summary \in Nat /\ Summary > 0
  /\ MaxHosts \in Nat /\ MaxHosts >= 2
  /\ MaxAggregated \in Nat /\ MaxAggregated >= 2
  /\ MaxShown \in Nat /\ MaxShown > 0
  /\ MaxRecent \in Nat /\ MaxRecent > 0
  /\ MaxLate \in Nat /\ MaxLate < Ring
  /\ MaxClock \in Nat
  /\ IsFiniteSet(Keys) /\ IsFiniteSet(Workers)
BY MetricsAssumption, ConstantsAssumption

\* A number is so many rounds of the ring and a place in it.
LEMMA Rounds ==
  ASSUME NEW s \in Nat, NEW r \in Nat, r > 0
  PROVE  \E q, m \in Int : m = s % r /\ s = r * q + m
<1>1. s = r * (s \div r) + (s % r)
  OBVIOUS
<1>2. s \div r \in Int
  OBVIOUS
<1>3. s % r \in Int
  OBVIOUS
<1>4. WITNESS s \div r \in Int, s % r \in Int
<1>5. QED
  BY <1>1

\* Two seconds less than the ring apart have places of their own.
LEMMA PlacesApart ==
  ASSUME NEW s \in Nat, NEW t \in Nat, s % Ring = t % Ring, s - t < Ring, t - s < Ring
  PROVE  s = t
<1>1. Ring \in Nat /\ Ring > 0
  BY MetricsConstants
<1>2. PICK p, m \in Int : m = s % Ring /\ s = Ring * p + m
  BY <1>1, Rounds
<1>3. PICK q, l \in Int : l = t % Ring /\ t = Ring * q + l
  BY <1>1, Rounds
<1>4. m = l
  BY <1>2, <1>3
<1>5. s - t = Ring * (p - q)
  <2>1. Ring * (p - q) = Ring * p - Ring * q
    BY <1>1
  <2>2. Ring * p \in Int /\ Ring * q \in Int
    BY <1>1
  <2>3. PICK a \in Int, b \in Int : a = Ring * p /\ b = Ring * q
    BY <2>2, Zenon
  <2>4. s = a + m /\ t = b + m
    <3>1. s = Ring * p + m /\ t = Ring * q + l
      BY <1>2, <1>3
    <3>2. QED
      BY <1>4, <2>3, <3>1
  <2>5. s - t = a - b
    BY <2>4
  <2>6. QED
    BY <2>1, <2>3, <2>5, Zenon
<1>6. p - q < 1
  <2>1. SUFFICES ASSUME p - q >= 1 PROVE FALSE
    OBVIOUS
  <2>2. Ring * (p - q) >= Ring
    BY <1>1, <2>1
  <2>3. QED
    BY <1>1, <1>5, <2>2
<1>7. q - p < 1
  <2>1. SUFFICES ASSUME q - p >= 1 PROVE FALSE
    OBVIOUS
  <2>2. Ring * (q - p) >= Ring
    BY <1>1, <2>1
  <2>3. QED
    BY <1>1, <1>5, <2>2
<1>8. p = q
  BY <1>6, <1>7
<1>9. QED
  <2>1. s = Ring * p + m /\ t = Ring * q + l
    BY <1>2, <1>3
  <2>2. QED
    BY <1>4, <1>8, <2>1

\* The place of a second is one of the ring.
LEMMA PlaceInRing ==
  ASSUME NEW s \in Nat
  PROVE  s % Ring \in Metrics!Slots
BY MetricsConstants DEF Metrics!Slots

-------------------------------------------------------------------------------
\* record: one request more, in the bucket of its second.

\* The sums that the module of the ring writes are these sums.
LEMMA SumsAgree ==
  ASSUME NEW f
  PROVE  Metrics!SumFunction(f) = SumFunctionOnSet(f, DOMAIN f)
BY DEF Metrics!SumFunction, Metrics!SumFunctionOnSet, Metrics!FoldFunctionOnSet,
       Metrics!MapThenFoldSet, SumFunctionOnSet, FoldFunctionOnSet, MapThenFoldSet

\* And its cardinalities are these.
LEMMA SizesAgree ==
  ASSUME NEW s
  PROVE  Metrics!Cardinality(s) = Cardinality(s)
BY DEF Metrics!Cardinality, Cardinality, Metrics!IsFiniteSet, IsFiniteSet

\* The names of hosts, the one for the rest included.
LEMMA NamesFinite ==
  IsFiniteSet(Metrics!Names) /\ Other \in Metrics!Names /\ Keys \subseteq Metrics!Names
<1>1. IsFiniteSet(Keys \cup {Other})
  BY MetricsConstants, FS_AddElement
<1>2. QED
  BY <1>1 DEF Metrics!Names

Typed == buckets \in [Metrics!Slots -> Metrics!Buckets]

Error(result) == IF result = "failed" THEN 1 ELSE 0

\* A bucket that counts one more request.
Counted(b, h, result) ==
  [b EXCEPT !.requests = @ + 1,
            !.results[result] = @ + 1,
            !.hosts[h] = [requests |-> @.requests + 1, errors |-> @.errors + Error(result)]]

\* A new bucket.
LEMMA EmptyBucketTyped ==
  ASSUME NEW n \in Int
  PROVE  /\ Metrics!EmptyBucket(n) \in Metrics!Buckets
         /\ Metrics!EmptyBucket(n).second = n
         /\ Metrics!EmptyBucket(n).requests = 0
         /\ Metrics!EmptyBucket(n).results = [r \in Metrics!Results |-> 0]
         /\ Metrics!EmptyBucket(n).hosts = [h \in Metrics!Names |-> [requests |-> 0, errors |-> 0]]
         /\ Metrics!Present(Metrics!EmptyBucket(n)) = {}
BY DEF Metrics!EmptyBucket, Metrics!Buckets, Metrics!Present

\* The bucket of a second is the one in its place, or a new one.
LEMMA BucketFound ==
  ASSUME Typed, NEW n \in Nat, NEW b, b = Metrics!Bucket(buckets, n)
  PROVE  /\ b \in Metrics!Buckets
         /\ b.second = n
         /\ IF buckets[n % Ring].second = n THEN b = buckets[n % Ring]
            ELSE b = Metrics!EmptyBucket(n)
<1>1. n % Ring \in Metrics!Slots
  BY PlaceInRing
<1>2. QED
  BY <1>1, EmptyBucketTyped DEF Typed, Metrics!Bucket

\* One result more, and one request of the host, an error if it failed.
CountsOne(c, b, h, result) ==
  /\ c.results = [b.results EXCEPT ![result] = @ + 1]
  /\ c.hosts = [b.hosts EXCEPT ![h] = [requests |-> @.requests + 1,
                                       errors |-> @.errors + Error(result)]]

\* A bucket that has counted a request.
LEMMA CountedBucket ==
  ASSUME NEW b \in Metrics!Buckets, NEW h \in Metrics!Names, NEW result \in Metrics!Results,
         NEW c, c = Counted(b, h, result)
  PROVE  /\ c \in Metrics!Buckets
         /\ c.second = b.second
         /\ c.requests = b.requests + 1
         /\ CountsOne(c, b, h, result)
         /\ Metrics!Present(c) = Metrics!Present(b) \cup {h}
<1>1. /\ b.second \in Int /\ b.requests \in Nat
      /\ b.results \in [Metrics!Results -> Nat]
      /\ b.hosts \in [Metrics!Names -> [requests : Nat, errors : Nat]]
  BY DEF Metrics!Buckets
<1>2. Error(result) \in Nat
  BY DEF Error
<1>3. /\ c.second = b.second
      /\ c.requests = b.requests + 1
      /\ c.results = [b.results EXCEPT ![result] = @ + 1]
      /\ c.hosts = [b.hosts EXCEPT ![h] = [requests |-> @.requests + 1,
                                           errors |-> @.errors + Error(result)]]
  BY DEF Counted, Metrics!Buckets
<1>4. c = [second |-> c.second, requests |-> c.requests, results |-> c.results, hosts |-> c.hosts]
  BY DEF Counted, Metrics!Buckets
<1>5. c.results \in [Metrics!Results -> Nat]
  BY <1>1, <1>3
<1>6. c.hosts \in [Metrics!Names -> [requests : Nat, errors : Nat]]
  BY <1>1, <1>2, <1>3
<1>7. c \in Metrics!Buckets
  BY <1>1, <1>3, <1>4, <1>5, <1>6 DEF Metrics!Buckets
<1>8. Metrics!Present(c) = Metrics!Present(b) \cup {h}
  <2>1. c.hosts[h].requests > 0
    BY <1>1, <1>3
  <2>2. \A g \in Metrics!Names \ {h} : c.hosts[g] = b.hosts[g]
    BY <1>1, <1>3
  <2>3. QED
    BY <2>1, <2>2 DEF Metrics!Present
<1>9. QED
  BY <1>3, <1>7, <1>8 DEF CountsOne

\* What record does: it counts a request of this second in the second's bucket, for its
\* host or the rest.
RecordsIn(w, b, h) ==
  LET o == request[w]
  IN /\ o.now \in Nat /\ o.now \in Seconds /\ o.now <= clock /\ clock <= o.now + MaxLate
     /\ o.host \in Keys /\ o.result \in Metrics!Results
     /\ b = Metrics!Bucket(buckets, o.now)
     /\ h = Metrics!Host(b, o.host)
     /\ h \in Metrics!Names
     /\ buckets' = [buckets EXCEPT ![o.now % Ring] = Counted(b, h, o.result)]
     /\ recorded' = [recorded EXCEPT ![o.now] = @ + 1]
     /\ recent' = IF o.result = "failed" THEN Listed([host |-> o.host, now |-> o.now]) ELSE recent
     /\ request' = [request EXCEPT ![w] = Idle]
     /\ UNCHANGED <<vars, page>>

\* The requests that goroutines are about to record.
RequestsOK == request \in [Workers -> Requests] /\ StampsLate

\* A step of record is a step RecordsIn.
LEMMA RecordStep ==
  ASSUME RequestsOK, clock \in Nat, NEW w \in Workers, Record(w)
  PROVE  \E b, h : RecordsIn(w, b, h)
<1> DEFINE o == request[w]
           b == Metrics!Bucket(buckets, o.now)
           h == Metrics!Host(b, o.host)
<1>1. o \in [op : {"record"}, host : Keys, result : Metrics!Results, now : Nat]
  BY DEF Record, RequestsOK, Requests
<1>2. o.now <= clock /\ clock <= o.now + MaxLate /\ clock <= MaxClock /\ clock \in Nat
  BY DEF Record, RequestsOK, StampsLate
<1>3. o.now \in Seconds
  BY <1>1, <1>2, MetricsConstants DEF Seconds
<1>4. h \in Metrics!Names
  BY <1>1, NamesFinite DEF Metrics!Host
<1>5. /\ buckets' = [buckets EXCEPT ![o.now % Ring] = Counted(b, h, o.result)]
      /\ recorded' = [recorded EXCEPT ![o.now] = @ + 1]
      /\ recent' = IF o.result = "failed" THEN Listed([host |-> o.host, now |-> o.now]) ELSE recent
      /\ request' = [request EXCEPT ![w] = Idle]
      /\ UNCHANGED <<vars, page>>
  BY DEF Record, Metrics!WithRequest, Counted, Error
<1>6. QED
  BY <1>1, <1>2, <1>3, <1>4, <1>5 DEF RecordsIn

\* With its place for the rest, a bucket stays within its limit.
LEMMA LimitFollows ==
  ASSUME NEW p \in SUBSET Metrics!Names, Cardinality(p \ {Other}) < MaxHosts
  PROVE  Cardinality(p) <= MaxHosts
<1>1. IsFiniteSet(p \ {Other})
  BY NamesFinite, FS_Subset, FS_RemoveElement
<1>2. /\ IsFiniteSet((p \ {Other}) \cup {Other})
      /\ Cardinality((p \ {Other}) \cup {Other}) = Cardinality(p \ {Other}) + 1
  BY <1>1, FS_AddElement
<1>3. p \subseteq (p \ {Other}) \cup {Other}
  OBVIOUS
<1>4. Cardinality(p) <= Cardinality((p \ {Other}) \cup {Other}) /\ IsFiniteSet(p)
  BY <1>2, <1>3, FS_Subset
<1>5. Cardinality(p) \in Nat /\ Cardinality(p \ {Other}) \in Nat
  BY <1>1, <1>4, FS_CardinalityType
<1>6. QED
  BY <1>2, <1>4, <1>5, MetricsConstants

\* The host that a request counts for leaves the place for the rest.
LEMMA HostLeavesRoom ==
  ASSUME NEW b, Cardinality(Metrics!Present(b) \ {Other}) < MaxHosts, NEW host \in Keys,
         NEW h, h = Metrics!Host(b, host)
  PROVE  Cardinality((Metrics!Present(b) \cup {h}) \ {Other}) < MaxHosts
<1> DEFINE p == Metrics!Present(b)
<1>1. p \in SUBSET Metrics!Names
  BY DEF Metrics!Present
<1>2. h = IF host \notin p /\ Cardinality(p) >= MaxHosts - 1 THEN Other ELSE host
  BY SizesAgree DEF Metrics!Host
<1>3. IsFiniteSet(p) /\ Cardinality(p) \in Nat
  BY <1>1, NamesFinite, FS_Subset, FS_CardinalityType
<1> HIDE DEF p
<1>4. CASE h = Other \/ h \in p
  <2>1. (p \cup {h}) \ {Other} = p \ {Other}
    BY <1>4
  <2>2. QED
    BY <2>1 DEF p
<1>5. CASE ~(h = Other \/ h \in p)
  <2>1. Cardinality(p) < MaxHosts - 1
    BY <1>2, <1>3, <1>5, MetricsConstants
  <2>2. IsFiniteSet(p \cup {h}) /\ Cardinality(p \cup {h}) = Cardinality(p) + 1
    BY <1>3, <1>5, FS_AddElement
  <2>3. /\ Cardinality((p \cup {h}) \ {Other}) <= Cardinality(p \cup {h})
        /\ IsFiniteSet((p \cup {h}) \ {Other})
    BY <2>2, FS_Subset
  <2>4. Cardinality((p \cup {h}) \ {Other}) \in Nat
    BY <2>3, FS_CardinalityType
  <2>5. QED
    BY <1>3, <2>1, <2>2, <2>3, <2>4, MetricsConstants DEF p
<1>6. QED
  BY <1>4, <1>5

\* Typed buckets in their places, with room for the rest.
PlacesOK ==
  /\ Typed
  /\ \A i \in Metrics!Slots : buckets[i].second # -Ring => buckets[i].second % Ring = i
  /\ RoomForRest

\* Buckets stay in their places, and keep room for the rest.
LEMMA RecordKeepsPlaces ==
  ASSUME PlacesOK, NEW w \in Workers, NEW b, NEW h, RecordsIn(w, b, h)
  PROVE  PlacesOK'
<1> DEFINE o == request[w]
           j == o.now % Ring
           c == Counted(b, h, o.result)
<1>1. Typed /\ o.now \in Nat /\ j \in Metrics!Slots /\ h \in Metrics!Names
      /\ o.result \in Metrics!Results /\ o.host \in Keys /\ h = Metrics!Host(b, o.host)
      /\ b = Metrics!Bucket(buckets, o.now)
  BY PlaceInRing DEF PlacesOK, RecordsIn
<1>2. buckets' = [buckets EXCEPT ![j] = c]
  BY DEF RecordsIn
<1>3. /\ b \in Metrics!Buckets
      /\ b.second = o.now
      /\ IF buckets[j].second = o.now THEN b = buckets[j] ELSE b = Metrics!EmptyBucket(o.now)
  BY <1>1, BucketFound
<1>4. /\ c \in Metrics!Buckets
      /\ c.second = b.second
      /\ Metrics!Present(c) = Metrics!Present(b) \cup {h}
  BY <1>1, <1>3, CountedBucket
<1>5. Cardinality(Metrics!Present(b) \ {Other}) < MaxHosts
  <2>1. CASE b = buckets[j]
    BY <1>1, <2>1 DEF PlacesOK, RoomForRest
  <2>2. CASE b = Metrics!EmptyBucket(o.now)
    <3>1. Metrics!Present(b) \ {Other} = {}
      BY <1>1, <2>2, EmptyBucketTyped
    <3>2. QED
      BY <3>1, FS_EmptySet, MetricsConstants
  <2>3. QED
    BY <1>3, <2>1, <2>2
<1>6. Cardinality(Metrics!Present(c) \ {Other}) < MaxHosts
  BY <1>1, <1>4, <1>5, HostLeavesRoom
<1> HIDE DEF o, j, c
<1>7. Typed'
  BY <1>1, <1>2, <1>4 DEF Typed
<1>8. buckets'[j] = c /\ \A i \in Metrics!Slots \ {j} : buckets'[i] = buckets[i]
  BY <1>1, <1>2 DEF Typed
<1>9. \A i \in Metrics!Slots : buckets'[i].second # -Ring => buckets'[i].second % Ring = i
  BY <1>3, <1>4, <1>8 DEF PlacesOK, j
<1>10. RoomForRest'
  BY <1>6, <1>8 DEF PlacesOK, RoomForRest
<1>11. QED
  BY <1>7, <1>9, <1>10 DEF PlacesOK

\* A bucket that another second takes counted nothing that a window still needs.
LEMMA RecordKeepsCounts ==
  ASSUME PlacesOK, BucketsHonest, SecondsKept, recorded \in [Seconds -> Nat], clock \in Nat,
         NEW w \in Workers, NEW b, NEW h, RecordsIn(w, b, h)
  PROVE  BucketsHonest' /\ SecondsKept' /\ recorded' \in [Seconds -> Nat]
<1> DEFINE n == request[w].now
           j == n % Ring
           c == Counted(b, h, request[w].result)
<1>1. Typed /\ n \in Nat /\ n \in Seconds /\ j \in Metrics!Slots /\ h \in Metrics!Names
      /\ request[w].result \in Metrics!Results /\ b = Metrics!Bucket(buckets, n)
      /\ n <= clock /\ clock <= n + MaxLate
  BY PlaceInRing DEF PlacesOK, RecordsIn
<1>2. /\ buckets' = [buckets EXCEPT ![j] = c]
      /\ recorded' = [recorded EXCEPT ![n] = @ + 1]
      /\ clock' = clock
  BY DEF RecordsIn, vars
<1>3. /\ b \in Metrics!Buckets
      /\ b.second = n
      /\ IF buckets[j].second = n THEN b = buckets[j] ELSE b = Metrics!EmptyBucket(n)
  BY <1>1, BucketFound
<1>4. /\ c \in Metrics!Buckets
      /\ c.second = n
      /\ c.requests = b.requests + 1
  BY <1>1, <1>3, CountedBucket
<1>5. buckets'[j] = c /\ \A i \in Metrics!Slots \ {j} : buckets'[i] = buckets[i]
  BY <1>1, <1>2 DEF Typed
<1>6. /\ recorded'[n] = recorded[n] + 1 /\ recorded[n] \in Nat
      /\ \A s \in Seconds \ {n} : recorded'[s] = recorded[s]
      /\ \A s \in Seconds : recorded'[s] \in Nat /\ recorded[s] \in Nat /\ recorded'[s] >= recorded[s]
  BY <1>1, <1>2
<1>7. b.requests \in Nat /\ (b.requests = 0 \/ b = buckets[j])
  BY <1>1, <1>3, EmptyBucketTyped DEF Metrics!Buckets
<1>8. BucketsHonest'
  <2>1. SUFFICES ASSUME NEW i \in Metrics!Slots, buckets'[i].requests > 0
                 PROVE  /\ buckets'[i].second \in Seconds
                        /\ buckets'[i].second % Ring = i
                        /\ buckets'[i].requests <= recorded'[buckets'[i].second]
    BY DEF BucketsHonest, Seconds
  <2>2. CASE i # j
    <3>1. /\ buckets[i].second \in Seconds
          /\ buckets[i].second % Ring = i
          /\ buckets[i].requests <= recorded[buckets[i].second]
          /\ buckets[i].requests \in Nat
      BY <1>1, <1>5, <2>1, <2>2 DEF BucketsHonest, Typed, Metrics!Buckets
    <3>2. QED
      BY <1>5, <1>6, <2>2, <3>1
  <2>3. CASE i = j
    <3>1. b.requests <= recorded[n]
      <4>1. CASE b.requests = 0
        BY <1>6, <4>1
      <4>2. CASE b.requests > 0
        BY <1>1, <1>3, <1>7, <4>2 DEF BucketsHonest
      <4>3. QED
        BY <1>7, <4>1, <4>2
    <3>2. QED
      BY <1>1, <1>4, <1>5, <1>6, <1>7, <2>3, <3>1
  <2>4. QED
    BY <2>2, <2>3
<1>9. SecondsKept'
  <2>1. SUFFICES ASSUME NEW s \in Seconds, recorded'[s] > 0
                 PROVE  /\ s <= clock
                        /\ s > clock - Ring => /\ buckets'[s % Ring].second = s
                                               /\ buckets'[s % Ring].requests >= recorded'[s]
    BY <1>2 DEF SecondsKept, Seconds
  <2>2. CASE s = n
    <3>1. b.requests >= recorded[n]
      <4>1. CASE recorded[n] = 0
        BY <1>7, <4>1
      <4>2. CASE recorded[n] > 0
        <5>1. n > clock - Ring
          BY <1>1, MetricsConstants
        <5>2. buckets[j].second = n /\ buckets[j].requests >= recorded[n]
          BY <1>1, <4>2, <5>1 DEF SecondsKept
        <5>3. QED
          BY <1>3, <5>2
      <4>3. QED
        BY <1>6, <4>1, <4>2
    <3>2. QED
      BY <1>1, <1>4, <1>5, <1>6, <1>7, <2>2, <3>1
  <2>3. CASE s # n
    <3>1. recorded[s] > 0 /\ recorded'[s] = recorded[s]
      BY <1>6, <2>1, <2>3
    <3>2. s <= clock /\ s \in Nat
      BY <3>1 DEF SecondsKept, Seconds
    <3>3. CASE s > clock - Ring
      <4>1. s % Ring # j
        <5>1. s - n < Ring /\ n - s < Ring
          BY <1>1, <3>2, <3>3, MetricsConstants
        <5>2. QED
          BY <1>1, <2>3, <3>2, <5>1, PlacesApart
      <4>2. buckets'[s % Ring] = buckets[s % Ring]
        BY <1>5, <3>2, <4>1, PlaceInRing
      <4>3. QED
        BY <3>1, <3>2, <3>3, <4>2 DEF SecondsKept
    <3>4. QED
      BY <3>2, <3>3
  <2>4. QED
    BY <2>2, <2>3
<1>10. recorded' \in [Seconds -> Nat]
  BY <1>1, <1>2
<1>11. QED
  BY <1>8, <1>9, <1>10

-------------------------------------------------------------------------------
\* The readers: a window, and the rows of the page.

\* The total of a function to numbers.
LEMMA TotalOf ==
  ASSUME NEW S, IsFiniteSet(S), NEW f \in [S -> Nat]
  PROVE  /\ Metrics!SumFunction(f) = SumFunctionOnSet(f, S)
         /\ SumFunctionOnSet(f, S) \in Nat
<1>1. DOMAIN f = S
  OBVIOUS
<1>2. Metrics!SumFunction(f) = SumFunctionOnSet(f, S)
  BY <1>1, SumsAgree
<1>3. \A x \in S : f[x] \in Nat
  OBVIOUS
<1>4. QED
  BY <1>2, <1>3, SumSplits

\* The buckets of a window.
LEMMA TakenFinite ==
  ASSUME NEW now, NEW n
  PROVE  /\ Metrics!Taken(buckets, now, n) \subseteq Metrics!Slots
         /\ IsFiniteSet(Metrics!Taken(buckets, now, n))
<1>1. Metrics!Taken(buckets, now, n) \in SUBSET Metrics!Slots
  BY DEF Metrics!Taken
<1>2. IsFiniteSet(Metrics!Slots)
  BY MetricsConstants, FS_Interval DEF Metrics!Slots
<1>3. QED
  BY <1>1, <1>2, FS_Subset

\* The counters of a window.
LEMMA AggregateTotals ==
  ASSUME Typed, NEW now \in Nat, NEW n \in 1 .. Ring,
         NEW t, t = Metrics!Taken(buckets, now, n), NEW a, a = Metrics!Aggregate(buckets, now, n)
  PROVE  /\ a \in [requests : Nat, results : [Metrics!Results -> Nat]]
         /\ a.requests = SumFunctionOnSet([i \in t |-> buckets[i].requests], t)
         /\ \A r \in Metrics!Results :
              a.results[r] = SumFunctionOnSet([i \in t |-> buckets[i].results[r]], t)
<1>1. IsFiniteSet(t) /\ t \subseteq Metrics!Slots
  BY TakenFinite
<1>2. a = [requests |-> Metrics!SumFunction([i \in t |-> buckets[i].requests]),
           results |-> [r \in Metrics!Results |->
                          Metrics!SumFunction([i \in t |-> buckets[i].results[r]])]]
  BY DEF Metrics!Aggregate
<1>3. /\ [i \in t |-> buckets[i].requests] \in [t -> Nat]
      /\ \A r \in Metrics!Results : [i \in t |-> buckets[i].results[r]] \in [t -> Nat]
  BY <1>1 DEF Typed, Metrics!Buckets
<1>4. /\ Metrics!SumFunction([i \in t |-> buckets[i].requests])
           = SumFunctionOnSet([i \in t |-> buckets[i].requests], t)
      /\ SumFunctionOnSet([i \in t |-> buckets[i].requests], t) \in Nat
  BY <1>1, <1>3, TotalOf
<1>5. ASSUME NEW r \in Metrics!Results
      PROVE  /\ Metrics!SumFunction([i \in t |-> buckets[i].results[r]])
                  = SumFunctionOnSet([i \in t |-> buckets[i].results[r]], t)
             /\ SumFunctionOnSet([i \in t |-> buckets[i].results[r]], t) \in Nat
  BY <1>1, <1>3, TotalOf
<1>6. QED
  BY <1>2, <1>4, <1>5

SecondsFinite == Seconds \in SUBSET Nat /\ IsFiniteSet(Seconds)
\* The stamps are finitely many numbers.
LEMMA SecondsAreFinite == SecondsFinite
BY MetricsConstants, FS_Interval DEF Seconds, SecondsFinite

\* A window counts what was recorded in its seconds, and misses nothing that is kept.
LEMMA WindowCounts ==
  ASSUME PlacesOK, BucketsHonest, SecondsKept, recorded \in [Seconds -> Nat], clock \in Nat,
         NEW now \in Nat, NEW n \in 1 .. Ring
  PROVE  LET count == Metrics!Aggregate(buckets, now, n).requests
         IN /\ count <= RecordedIn(FirstSecond(now, n) .. now)
            /\ count >= RecordedIn(StillKept(now, n))
<1> DEFINE t == Metrics!Taken(buckets, now, n)
           f == [i \in t |-> buckets[i].requests]
           p == [i \in t |-> buckets[i].second]
           q == [s \in Seconds |-> s % Ring]
           all == (FirstSecond(now, n) .. now) \cap Seconds
           kept == StillKept(now, n) \cap Seconds
<1>1. IsFiniteSet(t) /\ t \subseteq Metrics!Slots /\ Typed
  BY TakenFinite DEF PlacesOK
<1>2. Metrics!Aggregate(buckets, now, n).requests = SumFunctionOnSet(f, t)
  BY <1>1, AggregateTotals
<1>3. IsFiniteSet(all) /\ IsFiniteSet(kept) /\ Seconds \subseteq Nat
  BY SecondsAreFinite, FS_Intersection DEF SecondsFinite
<1>4. Counts(f, t) /\ Counts(recorded, all) /\ Counts(recorded, kept)
  BY <1>1 DEF Counts, Typed, Metrics!Buckets
<1>5. Matched(f, t, recorded, all, p)
  <2>1. ASSUME NEW i \in t, f[i] > 0
        PROVE  p[i] \in all /\ f[i] <= recorded[p[i]] /\ p[i] % Ring = i
    <3>1. /\ buckets[i].second \in Seconds
          /\ buckets[i].second % Ring = i
          /\ buckets[i].requests <= recorded[buckets[i].second]
      BY <1>1, <2>1 DEF BucketsHonest
    <3>2. now - n + 1 <= buckets[i].second /\ buckets[i].second <= now
      BY DEF Metrics!Taken, Metrics!InWindow
    <3>3. p[i] = buckets[i].second /\ f[i] = buckets[i].requests
      OBVIOUS
    <3>4. buckets[i].second \in Nat
      BY <1>3, <3>1
    <3>5. n \in Int
      OBVIOUS
    <3>6. buckets[i].second \in FirstSecond(now, n) .. now
      BY <3>2, <3>4, <3>5 DEF FirstSecond
    <3>7. QED
      BY <3>1, <3>3, <3>6
  <2>2. QED
    BY <2>1 DEF Matched
<1>6. Matched(recorded, kept, f, t, q)
  <2>1. ASSUME NEW s \in kept, recorded[s] > 0
        PROVE  q[s] \in t /\ recorded[s] <= f[q[s]] /\ buckets[q[s]].second = s
    <3>1. s > clock - Ring /\ FirstSecond(now, n) <= s /\ s <= now /\ s \in Nat /\ q[s] = s % Ring
      BY <1>3 DEF StillKept
    <3>2. buckets[s % Ring].second = s /\ buckets[s % Ring].requests >= recorded[s]
      BY <2>1, <3>1 DEF SecondsKept
    <3>3. s % Ring \in t
      BY <3>1, <3>2, PlaceInRing DEF Metrics!Taken, Metrics!InWindow, FirstSecond
    <3>4. recorded[s] \in Nat /\ buckets[s % Ring].requests \in Nat
      BY <1>1, <3>3 DEF Typed, Metrics!Buckets
    <3>5. QED
      BY <3>1, <3>2, <3>3, <3>4
  <2>2. QED
    BY <2>1 DEF Matched
<1> HIDE DEF t, f, p, q, all, kept
<1>7. SumFunctionOnSet(f, t) <= SumFunctionOnSet(recorded, all)
  BY <1>1, <1>3, <1>4, <1>5, SumMatched
<1>8. SumFunctionOnSet(recorded, kept) <= SumFunctionOnSet(f, t)
  BY <1>1, <1>3, <1>4, <1>6, SumMatched
<1>9. /\ RecordedIn(FirstSecond(now, n) .. now) = SumFunctionOnSet(recorded, all)
      /\ RecordedIn(StillKept(now, n)) = SumFunctionOnSet(recorded, kept)
  BY DEF RecordedIn, all, kept
<1>10. SumFunctionOnSet(f, t) \in Nat /\ SumFunctionOnSet(recorded, kept) \in Nat
  BY <1>1, <1>3, <1>4, SumSplits DEF Counts
<1>11. QED
  BY <1>2, <1>7, <1>8, <1>9, <1>10

\* The place of the first bucket that counts a host.
FirstPlace(t, h) == Metrics!Min({i \in t : h \in Metrics!Present(buckets[i])})

Earlier(t, order, g, h) ==
  \/ FirstPlace(t, g) < FirstPlace(t, h)
  \/ FirstPlace(t, g) = FirstPlace(t, h) /\ order[g] < order[h]

\* A host that is seen has a first bucket.
LEMMA FirstPlaceThere ==
  ASSUME NEW t, t \subseteq Metrics!Slots, NEW h \in Metrics!Seen(buckets, t)
  PROVE  FirstPlace(t, h) \in Nat
<1> DEFINE s == {i \in t : h \in Metrics!Present(buckets[i])}
<1>1. s \in SUBSET Nat /\ s # {}
  BY MetricsConstants DEF Metrics!Seen, Metrics!Slots
<1>2. \E x \in s : \A y \in s : x <= y
  BY <1>1, LeastNatural
<1>3. Metrics!Min(s) \in s
  BY <1>2 DEF Metrics!Min
<1>4. QED
  BY <1>1, <1>3 DEF FirstPlace

\* The hosts that come before another, by Earlier.
LEMMA BeforeIs ==
  ASSUME NEW t, NEW order, NEW h
  PROVE  Metrics!Before(buckets, t, order, h)
           = {g \in Metrics!Seen(buckets, t) : Earlier(t, order, g, h)}
BY DEF Metrics!Before, Earlier, FirstPlace

\* The hosts that are seen are names.
LEMMA SeenNames ==
  ASSUME NEW t
  PROVE  Metrics!Seen(buckets, t) \subseteq Metrics!Names /\ IsFiniteSet(Metrics!Seen(buckets, t))
<1>1. Metrics!Seen(buckets, t) \in SUBSET Metrics!Names
  BY DEF Metrics!Seen, Metrics!Present
<1>2. QED
  BY <1>1, NamesFinite, FS_Subset

\* An order of iteration tells the names apart.
LEMMA OrderOfNames ==
  ASSUME NEW order \in Metrics!Orders
  PROVE  /\ \A h \in Metrics!Names : order[h] \in Nat
         /\ \A g, h \in Metrics!Names : order[g] = order[h] => g = h
<1>1. Metrics!Cardinality(Metrics!Names) \in Nat
  BY SizesAgree, NamesFinite, FS_CardinalityType
<1>2. QED
  BY <1>1 DEF Metrics!Orders, Metrics!Injection, Metrics!IsInjective

\* As many hosts have a row of their own as there is room for beside the rest.
LEMMA FewKept ==
  ASSUME NEW t, t \subseteq Metrics!Slots, NEW order \in Metrics!Orders,
         NEW k, k = Metrics!Kept(buckets, t, order)
  PROVE  /\ k \subseteq Keys
         /\ IsFiniteSet(k) /\ Cardinality(k) <= MaxAggregated - 1
<1> DEFINE seen == Metrics!Seen(buckets, t)
           before(h) == Metrics!Before(buckets, t, order, h)
           m == MaxAggregated - 1
           rank == [h \in k |-> Cardinality(before(h))]
<1>1. /\ seen \subseteq Metrics!Names /\ IsFiniteSet(seen)
      /\ \A h \in seen : FirstPlace(t, h) \in Nat /\ order[h] \in Nat
      /\ \A g, h \in seen : order[g] = order[h] => g = h
  BY SeenNames, FirstPlaceThere, OrderOfNames
<1>2. k = {h \in seen \ {Other} : Cardinality(before(h)) < m}
  BY SizesAgree DEF Metrics!Kept
<1>3. \A h \in seen : IsFiniteSet(before(h)) /\ Cardinality(before(h)) \in Nat
  <2>1. TAKE h \in seen
  <2>2. before(h) \in SUBSET seen
    BY BeforeIs
  <2>3. QED
    BY <1>1, <2>2, FS_Subset, FS_CardinalityType
<1>4. ASSUME NEW g \in seen, NEW h \in seen, Earlier(t, order, g, h)
      PROVE  Cardinality(before(g)) # Cardinality(before(h))
  <2>1. before(g) \subseteq before(h)
    BY <1>1, <1>4, BeforeIs DEF Earlier
  <2>2. g \in before(h) /\ g \notin before(g)
    BY <1>1, <1>4, BeforeIs DEF Earlier
  <2>3. QED
    BY <1>3, <2>1, <2>2, FS_Subset
<1>5. \A g, h \in seen : g # h => Earlier(t, order, g, h) \/ Earlier(t, order, h, g)
  BY <1>1 DEF Earlier
<1>6. m \in Nat /\ IsFiniteSet(0 .. m - 1) /\ Cardinality(0 .. m - 1) = m
  BY MetricsConstants, FS_Interval
<1>7. rank \in Injection(k, 0 .. m - 1)
  <2>1. \A h \in k : rank[h] \in 0 .. m - 1
    BY <1>2, <1>3, <1>6
  <2>2. \A g, h \in k : rank[g] = rank[h] => g = h
    BY <1>2, <1>4, <1>5
  <2>3. QED
    BY <2>1, <2>2 DEF Injection, IsInjective
<1>8. IsFiniteSet(k) /\ Cardinality(k) <= m
  BY <1>6, <1>7, FS_Injection
<1>9. QED
  BY <1>1, <1>2, <1>8 DEF Metrics!Names

\* The counters that a row of the page adds up: those of its names in the buckets.
Cells(t, names) == t \X names
RequestsOf(s) == [at \in s |-> buckets[at[1]].hosts[at[2]].requests]
ErrorsOf(s) == [at \in s |-> buckets[at[1]].hosts[at[2]].errors]

\* The counters of a row.
LEMMA CellsCount ==
  ASSUME Typed, NEW t, t \subseteq Metrics!Slots, IsFiniteSet(t),
         NEW names, names \subseteq Metrics!Names, NEW s, s = Cells(t, names)
  PROVE  /\ IsFiniteSet(s)
         /\ RequestsOf(s) \in [s -> Nat]
         /\ ErrorsOf(s) \in [s -> Nat]
<1>1. IsFiniteSet(names)
  BY NamesFinite, FS_Subset
<1>2. IsFiniteSet(s)
  BY <1>1, FS_Product DEF Cells
<1>3. \A at \in s : buckets[at[1]].hosts[at[2]] \in [requests : Nat, errors : Nat]
  BY DEF Cells, Typed, Metrics!Buckets
<1>4. QED
  BY <1>2, <1>3 DEF RequestsOf, ErrorsOf

\* The rows of the page: one of each host that is kept, and one of the rest.
LEMMA RowTotals ==
  ASSUME Typed, NEW t, t \subseteq Metrics!Slots, IsFiniteSet(t), NEW order \in Metrics!Orders,
         NEW k, k = Metrics!Kept(buckets, t, order),
         NEW hosts, hosts = Metrics!AggregateHosts(buckets, t, order)
  PROVE  /\ hosts \in [Metrics!Names -> [requests : Nat, errors : Nat]]
         /\ \A h \in Metrics!Names :
              LET s == Cells(t, Metrics!Merged(k, h))
              IN /\ hosts[h].requests = SumFunctionOnSet(RequestsOf(s), s)
                 /\ hosts[h].errors = SumFunctionOnSet(ErrorsOf(s), s)
<1> DEFINE cells(h) == Cells(t, Metrics!Merged(k, h))
<1>1. hosts = [h \in Metrics!Names |->
                 [requests |-> Metrics!SumFunction(RequestsOf(cells(h))),
                  errors |-> Metrics!SumFunction(ErrorsOf(cells(h)))]]
  BY DEF Metrics!AggregateHosts, Cells, RequestsOf, ErrorsOf
<1>2. ASSUME NEW h \in Metrics!Names
      PROVE  /\ Metrics!SumFunction(RequestsOf(cells(h)))
                  = SumFunctionOnSet(RequestsOf(cells(h)), cells(h))
             /\ SumFunctionOnSet(RequestsOf(cells(h)), cells(h)) \in Nat
             /\ Metrics!SumFunction(ErrorsOf(cells(h)))
                  = SumFunctionOnSet(ErrorsOf(cells(h)), cells(h))
             /\ SumFunctionOnSet(ErrorsOf(cells(h)), cells(h)) \in Nat
  <2>1. k \subseteq Metrics!Names
    BY FewKept DEF Metrics!Names
  <2>2. Metrics!Merged(k, h) \subseteq Metrics!Names
    BY <2>1 DEF Metrics!Merged
  <2>3. /\ IsFiniteSet(cells(h))
        /\ RequestsOf(cells(h)) \in [cells(h) -> Nat]
        /\ ErrorsOf(cells(h)) \in [cells(h) -> Nat]
    BY <2>2, CellsCount
  <2> HIDE DEF cells
  <2>4. QED
    BY <2>3, TotalOf
<1> HIDE DEF cells
<1>3. QED
  BY <1>1, <1>2 DEF cells

\* No more rows than the page has room for.
LEMMA RowsLimited ==
  ASSUME Typed, NEW t, t \subseteq Metrics!Slots, IsFiniteSet(t), NEW order \in Metrics!Orders,
         NEW hosts, hosts = Metrics!AggregateHosts(buckets, t, order)
  PROVE  Cardinality({h \in Metrics!Names : hosts[h].requests > 0}) <= MaxAggregated
<1> DEFINE k == Metrics!Kept(buckets, t, order)
           rows == {h \in Metrics!Names : hosts[h].requests > 0}
<1>1. IsFiniteSet(k) /\ Cardinality(k) <= MaxAggregated - 1 /\ Cardinality(k) \in Nat
  BY FewKept, FS_CardinalityType
<1>2. rows \subseteq k \cup {Other}
  <2>1. SUFFICES ASSUME NEW h \in Metrics!Names, h \notin k, h # Other
                 PROVE  hosts[h].requests = 0
    OBVIOUS
  <2>2. Cells(t, Metrics!Merged(k, h)) = {}
    BY <2>1 DEF Cells, Metrics!Merged
  <2>3. hosts[h].requests = SumFunctionOnSet(RequestsOf({}), {})
    BY <2>2, RowTotals
  <2>4. QED
    BY <2>3, SumEmpty
<1> HIDE DEF k, rows
<1>3. IsFiniteSet(k \cup {Other}) /\ Cardinality(k \cup {Other}) <= Cardinality(k) + 1
  <2>1. /\ IsFiniteSet(k \cup {Other})
        /\ Cardinality(k \cup {Other}) = IF Other \in k THEN Cardinality(k) ELSE Cardinality(k) + 1
    BY <1>1, FS_AddElement
  <2>2. QED
    BY <1>1, <2>1
<1>4. Cardinality(rows) <= Cardinality(k \cup {Other}) /\ IsFiniteSet(rows)
  BY <1>2, <1>3, FS_Subset
<1>5. Cardinality(rows) \in Nat /\ Cardinality(k \cup {Other}) \in Nat
  BY <1>3, <1>4, FS_CardinalityType
<1>6. Cardinality(rows) <= MaxAggregated
  BY <1>1, <1>3, <1>4, <1>5, MetricsConstants
<1>7. QED
  BY <1>6 DEF rows

\* The page and the summary have their types, and the page its limit of rows.
PageOK ==
  /\ page \in Pages
  /\ page.op = "shown" =>
       Cardinality({h \in Metrics!Names : page.hosts[h].requests > 0}) <= MaxAggregated

\* A page that is shown is of its type, with no more rows than it has room for.
LEMMA SnapshotShows ==
  ASSUME Typed, recent \in Seq(Errors), PageOK, Snapshot
  PROVE  PageOK'
<1>1. page.op = "snapshot" /\ page.now \in Nat
  BY DEF Snapshot, PageOK, Pages, Idle
<1> DEFINE t == Metrics!Taken(buckets, page.now, Ring)
<1>2. PICK order, hosts, listed :
        /\ order \in Metrics!Orders
        /\ hosts = Metrics!AggregateHosts(buckets, t, order)
        /\ listed \in Metrics!ListedHosts(hosts)
        /\ page' = [op |-> "shown", now |-> page.now,
                    windows |-> [n \in Windows |-> Metrics!Aggregate(buckets, page.now, n)],
                    hosts |-> hosts, listed |-> listed, recent |-> recent]
  BY DEF Snapshot
<1>3. t \subseteq Metrics!Slots /\ IsFiniteSet(t)
  BY TakenFinite
<1>4. hosts \in [Metrics!Names -> [requests : Nat, errors : Nat]]
  BY <1>2, <1>3, RowTotals
<1>5. Cardinality({h \in Metrics!Names : hosts[h].requests > 0}) <= MaxAggregated
  BY <1>2, <1>3, RowsLimited
<1>6. listed \in SUBSET Metrics!Names
  BY <1>2 DEF Metrics!ListedHosts
<1>7. [n \in Windows |-> Metrics!Aggregate(buckets, page.now, n)] \in Counters(Windows)
  <2>1. \A n \in Windows : Metrics!Aggregate(buckets, page.now, n)
                             \in [requests : Nat, results : [Metrics!Results -> Nat]]
    BY <1>1, AggregateTotals, MetricsConstants
  <2>2. QED
    BY <2>1 DEF Counters
<1>8. page' \in Pages
  BY <1>1, <1>2, <1>4, <1>6, <1>7 DEF Pages
<1>9. QED
  BY <1>2, <1>5, <1>8 DEF PageOK

\* The window of a summary is one of the ring.
LEMMA SummaryInRing == SummaryWindow \in 1 .. Ring
BY MetricsConstants DEF SummaryWindow

\* A summary is of its type.
LEMMA SummarizeShows ==
  ASSUME Typed, PageOK, Summarize
  PROVE  PageOK'
<1>1. page.op = "summary" /\ page.now \in Nat
  BY DEF Summarize, PageOK, Pages, Idle
<1>2. page' = [op |-> "summarized", now |-> page.now,
               windows |-> [n \in {SummaryWindow} |-> Metrics!Aggregate(buckets, page.now, n)]]
  BY DEF Summarize
<1>3. Metrics!Aggregate(buckets, page.now, SummaryWindow)
        \in [requests : Nat, results : [Metrics!Results -> Nat]]
  BY <1>1, AggregateTotals, SummaryInRing
<1>4. [n \in {SummaryWindow} |-> Metrics!Aggregate(buckets, page.now, n)]
        \in Counters({SummaryWindow})
  BY <1>3 DEF Counters
<1>5. page' \in Pages
  BY <1>1, <1>2, <1>4 DEF Pages
<1>6. QED
  BY <1>2, <1>5 DEF PageOK

-------------------------------------------------------------------------------
\* The invariant of the metrics.

\* What the metrics hold.
MetricsOK ==
  /\ PlacesOK
  /\ recorded \in [Seconds -> Nat]
  /\ BucketsHonest
  /\ SecondsKept
  /\ recent \in Seq(Errors) /\ Len(recent) <= MaxRecent

\* The inductive invariant of the metrics and of their readers.
ObsInv == IInv /\ MetricsOK /\ RequestsOK /\ PageOK

\* The types and limits follow from the invariant.
LEMMA InvTypes == ObsInv => ObsTypeOK
<1>1. ASSUME PlacesOK, NEW i \in Metrics!Slots
      PROVE  Cardinality(Metrics!Present(buckets[i])) <= MaxHosts
  <2>1. Metrics!Present(buckets[i]) \in SUBSET Metrics!Names
    BY DEF Metrics!Present
  <2>2. QED
    BY <1>1, <2>1, LimitFollows DEF PlacesOK, RoomForRest
<1>2. QED
  BY <1>1 DEF ObsInv, MetricsOK, RequestsOK, PageOK, ObsTypeOK, PlacesOK, Typed, IInv

-------------------------------------------------------------------------------
\* Every step is a step of the table of errors or leaves it alone.
LEMMA ObsStepRefines == [ObsNext]_obsVars => [Next]_vars
<1> SUFFICES ASSUME ObsNext PROVE [Next]_vars
  BY DEF obsVars
<1>1. CASE \E w \in Workers : CompleteFailed(w)
  BY <1>1 DEF CompleteFailed, Next
<1>2. CASE \E w \in Workers : CompleteOther(w) \/ Record(w)
  BY <1>2 DEF CompleteOther, Record
<1>3. CASE \E w \in Workers : Log(w)
  BY <1>3 DEF Log, Next
<1>4. CASE Ask \/ Snapshot \/ Summarize
  BY <1>4 DEF Ask, Snapshot, Summarize
<1>5. CASE ObsTick
  BY <1>5 DEF ObsTick, Next
<1>6. QED
  BY <1>1, <1>2, <1>3, <1>4, <1>5 DEF ObsNext

\* record keeps the invariant.
LEMMA RecordKeepsMetrics ==
  ASSUME ObsInv, NEW w \in Workers, Record(w)
  PROVE  MetricsOK' /\ RequestsOK' /\ PageOK'
<1>1. PICK b, h : RecordsIn(w, b, h)
  BY RecordStep DEF ObsInv, IInv, TypeOK
<1>2. PlacesOK'
  BY <1>1, RecordKeepsPlaces DEF ObsInv, MetricsOK
<1>3. BucketsHonest' /\ SecondsKept' /\ recorded' \in [Seconds -> Nat]
  BY <1>1, RecordKeepsCounts DEF ObsInv, MetricsOK, IInv, TypeOK
<1>4. Seconds' = Seconds /\ UNCHANGED <<clock, page>>
  BY <1>1 DEF RecordsIn, vars, Seconds
<1>5. recent' \in Seq(Errors) /\ Len(recent') <= MaxRecent
  <2>1. recent \in Seq(Errors) /\ Len(recent) <= MaxRecent
    BY DEF ObsInv, MetricsOK
  <2>2. PICK e \in Errors : recent' = recent \/ recent' = Listed(e)
    BY <1>1 DEF RecordsIn, Errors
  <2>3. CASE recent' = Listed(e)
    <3>1. CASE Len(recent) = MaxRecent
      <4>1. recent # <<>>
        BY <2>1, <3>1, MetricsConstants
      <4>2. Tail(recent) \in Seq(Errors) /\ Len(Tail(recent)) = Len(recent) - 1
        BY <2>1, <4>1
      <4>3. recent' = Append(Tail(recent), e)
        BY <2>3, <3>1 DEF Listed
      <4>4. QED
        BY <2>1, <4>2, <4>3, MetricsConstants
    <3>2. CASE Len(recent) # MaxRecent
      <4>1. recent' = Append(recent, e)
        BY <2>3, <3>2 DEF Listed
      <4>2. QED
        BY <2>1, <3>2, <4>1, MetricsConstants
    <3>3. QED
      BY <3>1, <3>2
  <2>4. QED
    BY <2>1, <2>2, <2>3
<1>6. RequestsOK'
  <2>1. request' = [request EXCEPT ![w] = Idle]
    BY <1>1 DEF RecordsIn
  <2>2. request \in [Workers -> Requests] /\ StampsLate
    BY DEF ObsInv, RequestsOK
  <2>3. QED
    BY <1>4, <2>1, <2>2 DEF RequestsOK, StampsLate, Requests
<1>7. PageOK'
  BY <1>4 DEF ObsInv, PageOK
<1>8. QED
  BY <1>2, <1>3, <1>5, <1>6, <1>7 DEF MetricsOK

\* A step that leaves the metrics alone, and the clock.
LEMMA MetricsStand ==
  ASSUME MetricsOK, UNCHANGED metrics, clock' = clock
  PROVE  MetricsOK'
BY DEF MetricsOK, metrics, PlacesOK, Typed, RoomForRest, BucketsHonest, SecondsKept

\* So does the end of a request, with its stamp.
LEMMA CompleteKeeps ==
  ASSUME ObsInv, NEW w \in Workers, CompleteFailed(w) \/ CompleteOther(w)
  PROVE  MetricsOK' /\ RequestsOK' /\ PageOK'
<1>1. UNCHANGED <<metrics, page, clock>>
  BY DEF CompleteFailed, CompleteOther, CompleteWith, Begin, vars
<1>2. PICK host \in Keys, result \in Metrics!Results :
        request' = [request EXCEPT ![w] = [op |-> "record", host |-> host, result |-> result,
                                           now |-> clock]]
  <2>1. CASE CompleteOther(w)
    BY <2>1 DEF CompleteOther, CompleteWith, Metrics!Results
  <2>2. CASE CompleteFailed(w)
    <3>1. PICK k \in Keys : call' = [call EXCEPT ![w] = [op |-> "emit", key |-> k, now |-> clock]]
      BY <2>2 DEF CompleteFailed, Begin
    <3>2. call'[w].key = k
      BY <3>1 DEF ObsInv, IInv, TypeOK
    <3>3. QED
      BY <2>2, <3>2 DEF CompleteFailed, CompleteWith, Metrics!Results
  <2>3. QED
    BY <2>1, <2>2
<1>3. clock \in Nat /\ clock <= MaxClock
  BY DEF ObsInv, IInv, TypeOK, RequestsOK, StampsLate
<1>4. RequestsOK'
  BY <1>1, <1>2, <1>3, MetricsConstants DEF ObsInv, RequestsOK, StampsLate, Requests, Idle
<1>5. MetricsOK'
  BY <1>1, MetricsStand DEF ObsInv
<1>6. PageOK'
  BY <1>1 DEF ObsInv, PageOK
<1>7. QED
  BY <1>4, <1>5, <1>6

\* So does the question for a line in the log.
LEMMA LogKeeps ==
  ASSUME ObsInv, NEW w \in Workers, Log(w)
  PROVE  MetricsOK' /\ RequestsOK' /\ PageOK'
<1>1. UNCHANGED <<metrics, request, page, clock>>
  BY DEF Log, EmitNew, EmitAgain, Suppress
<1>2. QED
  BY <1>1, MetricsStand DEF ObsInv, PageOK, RequestsOK, StampsLate

\* So do the readers, whatever they are shown.
LEMMA ReaderKeeps ==
  ASSUME ObsInv, Ask \/ Snapshot \/ Summarize
  PROVE  MetricsOK' /\ RequestsOK' /\ PageOK'
<1>1. UNCHANGED <<metrics, request, clock>>
  BY DEF Ask, Snapshot, Summarize, vars
<1>2. MetricsOK' /\ RequestsOK'
  BY <1>1, MetricsStand DEF ObsInv, RequestsOK, StampsLate
<1>3. CASE Ask
  <2>1. clock \in Nat
    BY DEF ObsInv, IInv, TypeOK
  <2>2. QED
    BY <1>2, <1>3, <2>1 DEF Ask, PageOK, Pages
<1>4. CASE Snapshot
  BY <1>2, <1>4, SnapshotShows DEF ObsInv, MetricsOK, PlacesOK
<1>5. CASE Summarize
  BY <1>2, <1>5, SummarizeShows DEF ObsInv, MetricsOK, PlacesOK
<1>6. QED
  BY <1>3, <1>4, <1>5

\* So does the clock: what it makes stale is no longer kept.
LEMMA ObsTickKeeps ==
  ASSUME ObsInv, ObsTick
  PROVE  MetricsOK' /\ RequestsOK' /\ PageOK'
<1>1. UNCHANGED <<metrics, request, page>> /\ clock' = clock + 1 /\ clock < MaxClock /\ clock \in Nat
  BY DEF ObsTick, Tick, ObsInv, IInv, TypeOK
<1>2. RequestsOK'
  <2>1. \A w \in Workers : request[w] # Idle => clock < request[w].now + MaxLate /\ request[w].now \in Nat
    BY DEF ObsTick, Pending, ObsInv, RequestsOK, Requests
  <2>2. QED
    BY <1>1, <2>1, MetricsConstants DEF ObsInv, RequestsOK, StampsLate
<1>3. SecondsKept'
  <2>1. \A s \in Seconds : s > clock + 1 - Ring => s > clock - Ring
    BY <1>1, MetricsConstants DEF Seconds
  <2>2. \A s \in Seconds : s <= clock => s <= clock + 1
    BY <1>1, MetricsConstants DEF Seconds
  <2>3. SecondsKept /\ buckets' = buckets /\ recorded' = recorded
    BY <1>1 DEF ObsInv, MetricsOK, metrics
  <2>4. SUFFICES ASSUME NEW s \in Seconds, recorded'[s] > 0
                 PROVE  /\ s <= clock'
                        /\ s > clock' - Ring => /\ buckets'[s % Ring].second = s
                                                /\ buckets'[s % Ring].requests >= recorded'[s]
    BY DEF SecondsKept, Seconds
  <2>5. s <= clock /\ (s > clock - Ring => /\ buckets[s % Ring].second = s
                                          /\ buckets[s % Ring].requests >= recorded[s])
    BY <2>3, <2>4 DEF SecondsKept
  <2>6. s <= clock'
    BY <1>1, <2>2, <2>5
  <2>7. s > clock' - Ring => s > clock - Ring
    <3>1. clock' - Ring = clock + 1 - Ring
      BY <1>1, MetricsConstants
    <3>2. QED
      BY <2>1, <3>1
  <2>8. QED
    BY <2>3, <2>5, <2>6, <2>7
<1>4. MetricsOK'
  BY <1>1, <1>3 DEF ObsInv, MetricsOK, metrics, PlacesOK, Typed, RoomForRest, BucketsHonest
<1>5. PageOK'
  BY <1>1 DEF ObsInv, PageOK
<1>6. QED
  BY <1>2, <1>4, <1>5

\* The invariant holds initially.
LEMMA InitiallyObsInv == ObsInit => ObsInv
<1> SUFFICES ASSUME ObsInit PROVE ObsInv
  OBVIOUS
<1>1. IInv
  BY InitiallyIInv DEF ObsInit
<1>2. \A i \in Metrics!Slots : buckets[i] = Metrics!EmptyBucket(-Ring)
  BY DEF ObsInit, Metrics!NoBuckets
<1>3. -Ring \in Int
  BY MetricsConstants
<1>4. PlacesOK
  <2>1. Typed
    BY <1>3, EmptyBucketTyped DEF ObsInit, Metrics!NoBuckets, Typed
  <2>2. RoomForRest
    <3>1. \A i \in Metrics!Slots : Metrics!Present(buckets[i]) \ {Other} = {}
      BY <1>2, <1>3, EmptyBucketTyped
    <3>2. QED
      BY <3>1, FS_EmptySet, MetricsConstants DEF RoomForRest
  <2>3. QED
    BY <1>2, <1>3, <2>1, <2>2, EmptyBucketTyped DEF PlacesOK
<1>5. BucketsHonest
  BY <1>2, <1>3, EmptyBucketTyped DEF BucketsHonest
<1>6. recorded \in [Seconds -> Nat] /\ SecondsKept
  BY DEF ObsInit, SecondsKept
<1>7. recent \in Seq(Errors) /\ Len(recent) <= MaxRecent
  BY MetricsConstants DEF ObsInit
<1>8. RequestsOK
  BY MetricsConstants DEF ObsInit, Init, RequestsOK, Requests, StampsLate
<1>9. PageOK
  BY DEF ObsInit, PageOK, Pages, Idle
<1>10. QED
  BY <1>1, <1>4, <1>5, <1>6, <1>7, <1>8, <1>9 DEF ObsInv, MetricsOK

\* Every step keeps it.
LEMMA StepKeepsObsInv == ObsInv /\ [ObsNext]_obsVars => ObsInv'
<1> SUFFICES ASSUME ObsInv, [ObsNext]_obsVars PROVE ObsInv'
  OBVIOUS
<1>1. IInv'
  BY ObsStepRefines, StepKeepsIInv DEF ObsInv
<1>2. MetricsOK' /\ RequestsOK' /\ PageOK'
  <2>1. CASE UNCHANGED obsVars
    <3>1. MetricsOK /\ RequestsOK /\ PageOK
      BY DEF ObsInv
    <3>2. UNCHANGED <<metrics, request, page, clock>>
      BY <2>1 DEF obsVars, vars
    <3>3. QED
      BY <3>1, <3>2, MetricsStand DEF PageOK, RequestsOK, StampsLate
  <2>2. CASE \E w \in Workers : CompleteFailed(w) \/ CompleteOther(w)
    BY <2>2, CompleteKeeps
  <2>3. CASE \E w \in Workers : Record(w)
    BY <2>3, RecordKeepsMetrics
  <2>4. CASE \E w \in Workers : Log(w)
    BY <2>4, LogKeeps
  <2>5. CASE Ask \/ Snapshot \/ Summarize
    BY <2>5, ReaderKeeps
  <2>6. CASE ObsTick
    BY <2>6, ObsTickKeeps
  <2>7. QED
    BY <2>1, <2>2, <2>3, <2>4, <2>5, <2>6 DEF ObsNext
<1>3. QED
  BY <1>1, <1>2 DEF ObsInv

\* Every state the metrics, their readers and the table of errors can reach satisfies the
\* invariant.
THEOREM ObsInvariance == ObsSpec => []ObsInv
<1>1. QED
  BY InitiallyObsInv, StepKeepsObsInv, PTL DEF ObsSpec

\* ObsTypeOK of the specification: whatever the hosts and the load, no bucket of
\* metricsStore holds more than maxHostsPerBucket hosts, no page more than
\* maxAggregatedHosts rows and no list more than maxRecentErrors errors, and a second is
\* in its place of the ring.
THEOREM ObsTypeCorrect == ObsSpec => []ObsTypeOK
<1>1. ObsInv => ObsTypeOK
  BY InvTypes
<1>2. QED
  BY <1>1, ObsInvariance, PTL

\* completeRequest and the readers use the table of recent errors as ErrorDedup has it.
THEOREM ObsRefines == ObsSpec => Spec
<1>1. ObsInit => Init
  BY DEF ObsInit
<1>2. QED
  BY <1>1, ObsStepRefines, PTL DEF ObsSpec, Spec

\* WindowsExact of the specification: a window that aggregateLocked adds up counts no
\* request of a second that is not its own, though the ring reuses its places, and misses
\* none but those of the seconds whose place the clock has reached again.
THEOREM WindowsAreExact == ObsSpec => WindowsExact
<1> DEFINE Exact ==
      page'.op \in {"shown", "summarized"} /\ page' # page =>
       \A n \in DOMAIN page'.windows :
         LET count == page'.windows[n].requests
         IN /\ count <= RecordedIn(FirstSecond(page.now, n) .. page.now)
            /\ count >= RecordedIn(StillKept(page.now, n))
<1>1. ObsInv /\ [ObsNext]_obsVars => [Exact]_obsVars
  <2> SUFFICES ASSUME ObsInv, ObsNext, page'.op \in {"shown", "summarized"}, page' # page,
                      NEW n \in DOMAIN page'.windows
               PROVE  LET count == page'.windows[n].requests
                      IN /\ count <= RecordedIn(FirstSecond(page.now, n) .. page.now)
                         /\ count >= RecordedIn(StillKept(page.now, n))
    OBVIOUS
  <2>1. CASE Snapshot
    <3>1. page' = [op |-> "shown", now |-> page.now,
                   windows |-> [m \in Windows |-> Metrics!Aggregate(buckets, page.now, m)],
                   hosts |-> page'.hosts, listed |-> page'.listed, recent |-> recent]
      BY <2>1 DEF Snapshot
    <3>2. page.now \in Nat
      BY <2>1 DEF Snapshot, ObsInv, PageOK, Pages, Idle
    <3>3. n \in 1 .. Ring /\ page'.windows[n] = Metrics!Aggregate(buckets, page.now, n)
      BY <3>1, MetricsConstants
    <3>4. QED
      BY <3>2, <3>3, WindowCounts DEF ObsInv, MetricsOK, IInv, TypeOK
  <2>2. CASE Summarize
    <3>1. page' = [op |-> "summarized", now |-> page.now,
                   windows |-> [m \in {SummaryWindow} |-> Metrics!Aggregate(buckets, page.now, m)]]
      BY <2>2 DEF Summarize
    <3>2. page.now \in Nat
      BY <2>2 DEF Summarize, ObsInv, PageOK, Pages, Idle
    <3>3. n \in 1 .. Ring /\ page'.windows[n] = Metrics!Aggregate(buckets, page.now, n)
      BY <3>1, SummaryInRing
    <3>4. QED
      BY <3>2, <3>3, WindowCounts DEF ObsInv, MetricsOK, IInv, TypeOK
  <2>3. CASE ~(Snapshot \/ Summarize)
    <3>1. page' = page \/ page'.op \in {"snapshot", "summary"}
      <4>1. CASE Ask
        BY <4>1 DEF Ask
      <4>2. CASE ~Ask
        BY <2>3, <4>2 DEF ObsNext, CompleteFailed, CompleteOther, CompleteWith, Record, Log, ObsTick
      <4>3. QED
        BY <4>1, <4>2
    <3>2. QED
      BY <3>1
  <2>4. QED
    BY <2>1, <2>2, <2>3
<1>2. QED
  BY <1>1, ObsInvariance, PTL DEF ObsSpec, WindowsExact

\* FailuresAccounted of the specification with the metrics: shouldEmitFailure, asked after
\* the record, accounts for every failure once.
THEOREM ObsAllAccounted == ObsSpec => []FailuresAccounted
BY ObsRefines, AllAccounted, PTL

\* LinesApart of the specification with the metrics: the lines of a key keep their
\* distance.
THEOREM ObsDistanceKept == ObsSpec => LinesApart
BY ObsRefines, DistanceKept, PTL

-------------------------------------------------------------------------------
\* The figures of a page: buckets that add up.

\* The results are finitely many.
LEMMA ResultsFinite == IsFiniteSet(Metrics!Results)
<1>1. IsFiniteSet({"success"}) /\ IsFiniteSet({"success", "failed"})
  <2>1. IsFiniteSet({"success"} \cup {"failed"})
    BY FS_Singleton, FS_AddElement
  <2>2. {"success"} \cup {"failed"} = {"success", "failed"}
    OBVIOUS
  <2>3. QED
    BY <2>1, <2>2, FS_Singleton
<1>2. IsFiniteSet({"success", "failed"} \cup {"cancelled"})
  BY <1>1, FS_AddElement
<1>3. {"success", "failed"} \cup {"cancelled"} = {"success", "failed", "cancelled"}
  OBVIOUS
<1>4. QED
  BY <1>2, <1>3 DEF Metrics!Results

HostRequests(b) == [h \in Metrics!Names |-> b.hosts[h].requests]
HostErrors(b) == [h \in Metrics!Names |-> b.hosts[h].errors]

\* The counters of a bucket are numbers.
LEMMA HostCounters ==
  ASSUME NEW b \in Metrics!Buckets
  PROVE  Counts(HostRequests(b), Metrics!Names) /\ Counts(HostErrors(b), Metrics!Names)
         /\ Counts(b.results, Metrics!Results) /\ b.requests \in Nat
BY DEF Metrics!Buckets, HostRequests, HostErrors, Counts

\* The counters of a new bucket agree.
LEMMA EmptyAddsUp ==
  ASSUME NEW n \in Int
  PROVE  AddsUp(Metrics!EmptyBucket(n))
<1> DEFINE b == Metrics!EmptyBucket(n)
<1>1. /\ b.requests = 0
      /\ b.results = [r \in Metrics!Results |-> 0]
      /\ b.hosts = [h \in Metrics!Names |-> [requests |-> 0, errors |-> 0]]
  BY EmptyBucketTyped
<1> HIDE DEF b
<1>2. SumFunctionOnSet(b.results, Metrics!Results) = 0
  <2>1. \A r \in Metrics!Results : b.results[r] = 0
    BY <1>1
  <2>2. QED
    BY <2>1, ResultsFinite, SumZero
<1>3. SumFunctionOnSet(HostRequests(b), Metrics!Names) = 0
  <2>1. \A h \in Metrics!Names : HostRequests(b)[h] = 0
    BY <1>1 DEF HostRequests
  <2>2. QED
    BY <2>1, NamesFinite, SumZero
<1>4. SumFunctionOnSet(HostErrors(b), Metrics!Names) = 0
  <2>1. \A h \in Metrics!Names : HostErrors(b)[h] = 0
    BY <1>1 DEF HostErrors
  <2>2. QED
    BY <2>1, NamesFinite, SumZero
<1>5. b.results["failed"] = 0 /\ \A h \in Metrics!Names : b.hosts[h].errors <= b.hosts[h].requests
  BY <1>1 DEF Metrics!Results
<1>6. AddsUp(b)
  BY <1>1, <1>2, <1>3, <1>4, <1>5 DEF AddsUp, HostRequests, HostErrors
<1>7. QED
  BY <1>6 DEF b

\* A request that is counted keeps the counters of its bucket in agreement.
LEMMA CountedAddsUp ==
  ASSUME NEW b \in Metrics!Buckets, AddsUp(b), NEW h \in Metrics!Names,
         NEW result \in Metrics!Results, NEW c, c.requests = b.requests + 1, CountsOne(c, b, h, result)
  PROVE  AddsUp(c)
<1>1. /\ b.requests \in Nat
      /\ b.results \in [Metrics!Results -> Nat]
      /\ b.hosts \in [Metrics!Names -> [requests : Nat, errors : Nat]]
  BY DEF Metrics!Buckets
<1>2. Counts(HostRequests(b), Metrics!Names) /\ Counts(HostErrors(b), Metrics!Names)
      /\ Counts(b.results, Metrics!Results)
  BY HostCounters
<1>3. /\ c.results[result] = b.results[result] + 1
      /\ \A r \in Metrics!Results \ {result} : c.results[r] = b.results[r]
  BY <1>1 DEF CountsOne
<1>4. /\ c.hosts[h] = [requests |-> b.hosts[h].requests + 1, errors |-> b.hosts[h].errors + Error(result)]
      /\ \A g \in Metrics!Names \ {h} : c.hosts[g] = b.hosts[g]
  BY <1>1 DEF CountsOne
<1>5. Error(result) \in Nat /\ Error(result) <= 1 /\ (Error(result) = 1 <=> result = "failed")
  BY DEF Error
<1>6. SumFunctionOnSet(c.results, Metrics!Results) = SumFunctionOnSet(b.results, Metrics!Results) + 1
  BY <1>2, <1>3, ResultsFinite, SumOneMore
<1>7. SumFunctionOnSet(HostRequests(c), Metrics!Names) = SumFunctionOnSet(HostRequests(b), Metrics!Names) + 1
  <2>1. /\ HostRequests(c)[h] = HostRequests(b)[h] + 1
        /\ \A g \in Metrics!Names \ {h} : HostRequests(c)[g] = HostRequests(b)[g]
    BY <1>4 DEF HostRequests
  <2>2. QED
    BY <1>2, <2>1, NamesFinite, SumOneMore
<1>8. SumFunctionOnSet(HostErrors(c), Metrics!Names)
        = SumFunctionOnSet(HostErrors(b), Metrics!Names) + Error(result)
  <2>1. /\ HostErrors(c)[h] = HostErrors(b)[h] + Error(result)
        /\ \A g \in Metrics!Names \ {h} : HostErrors(c)[g] = HostErrors(b)[g]
    BY <1>4 DEF HostErrors
  <2>2. QED
    BY <1>2, <1>5, <2>1, NamesFinite, SumOneMore
<1>9. c.results["failed"] = b.results["failed"] + Error(result)
  <2>1. "failed" \in Metrics!Results /\ b.results["failed"] \in Nat
    BY <1>1 DEF Metrics!Results
  <2>2. QED
    BY <1>3, <1>5, <2>1
<1>10. \A g \in Metrics!Names : c.hosts[g].errors <= c.hosts[g].requests
  <2>1. TAKE g \in Metrics!Names
  <2>2. b.hosts[g].errors <= b.hosts[g].requests /\ b.hosts[g] \in [requests : Nat, errors : Nat]
    BY <1>1 DEF AddsUp
  <2>3. CASE g = h
    BY <1>4, <1>5, <2>2, <2>3
  <2>4. CASE g # h
    BY <1>4, <2>2, <2>4
  <2>5. QED
    BY <2>3, <2>4
<1>11. QED
  BY <1>6, <1>7, <1>8, <1>9, <1>10 DEF AddsUp, HostRequests, HostErrors

\* record keeps the counters of all buckets in agreement.
LEMMA RecordKeepsAddsUp ==
  ASSUME PlacesOK, BucketsAddUp, NEW w \in Workers, NEW b, NEW h, RecordsIn(w, b, h)
  PROVE  BucketsAddUp'
<1> DEFINE n == request[w].now
           j == n % Ring
           c == Counted(b, h, request[w].result)
<1>1. Typed /\ n \in Nat /\ j \in Metrics!Slots /\ h \in Metrics!Names
      /\ request[w].result \in Metrics!Results /\ b = Metrics!Bucket(buckets, n)
  BY PlaceInRing DEF PlacesOK, RecordsIn
<1>2. /\ b \in Metrics!Buckets
      /\ IF buckets[j].second = n THEN b = buckets[j] ELSE b = Metrics!EmptyBucket(n)
  BY <1>1, BucketFound
<1>3. c.requests = b.requests + 1 /\ CountsOne(c, b, h, request[w].result)
  BY <1>1, <1>2, CountedBucket
<1>4. AddsUp(b)
  BY <1>1, <1>2, EmptyAddsUp DEF BucketsAddUp
<1>5. AddsUp(c)
  BY <1>1, <1>2, <1>3, <1>4, CountedAddsUp
<1>6. buckets' = [buckets EXCEPT ![j] = c]
  BY DEF RecordsIn
<1>7. \A i \in Metrics!Slots : AddsUp(buckets'[i])
  BY <1>1, <1>5, <1>6 DEF BucketsAddUp, Typed
<1>8. QED
  BY <1>7 DEF BucketsAddUp

\* The results of a window add up to its requests.
LEMMA WindowAddsUp ==
  ASSUME Typed, BucketsAddUp, NEW now \in Nat, NEW n \in 1 .. Ring,
         NEW a, a = Metrics!Aggregate(buckets, now, n)
  PROVE  a.requests = SumFunctionOnSet(a.results, Metrics!Results)
<1> DEFINE t == Metrics!Taken(buckets, now, n)
           f == [i \in t |-> buckets[i].requests]
           column(r) == [i \in t |-> buckets[i].results[r]]
           m == [c \in t \X Metrics!Results |-> buckets[c[1]].results[c[2]]]
<1>1. IsFiniteSet(t) /\ t \subseteq Metrics!Slots
  BY TakenFinite
<1>2. /\ a.requests = SumFunctionOnSet(f, t)
      /\ \A r \in Metrics!Results : a.results[r] = SumFunctionOnSet(column(r), t)
  BY AggregateTotals
<1>3. \A i \in t : buckets[i] \in Metrics!Buckets
  BY <1>1 DEF Typed
<1>4. Counts(m, t \X Metrics!Results)
  BY <1>3 DEF Counts, Metrics!Buckets
<1>5. ASSUME NEW i \in t
      PROVE  f[i] = SumFunctionOnSet(m, {i} \X Metrics!Results)
  <2>1. f[i] = SumFunctionOnSet(buckets[i].results, Metrics!Results)
    BY <1>1 DEF BucketsAddUp, AddsUp
  <2>2. Counts(buckets[i].results, Metrics!Results)
    BY <1>3, HostCounters
  <2>3. RowOf(m, i, Metrics!Results, buckets[i].results)
    BY DEF RowOf
  <2> HIDE DEF m, f
  <2>4. QED
    BY <2>1, <2>2, <2>3, ResultsFinite, SumOfRow
<1>6. ASSUME NEW r \in Metrics!Results
      PROVE  a.results[r] = SumFunctionOnSet(m, t \X {r})
  <2>1. Counts(column(r), t)
    BY <1>3 DEF Counts, Metrics!Buckets
  <2>2. ColumnOf(m, r, t, column(r))
    BY DEF ColumnOf
  <2>3. a.results[r] = SumFunctionOnSet(column(r), t)
    BY <1>2
  <2> HIDE DEF m, column, t
  <2>4. QED
    BY <1>1, <2>1, <2>2, <2>3, SumOfColumn
<1> HIDE DEF m, f, t
<1>7. SumFunctionOnSet(f, t) = SumFunctionOnSet(m, t \X Metrics!Results)
  <2>1. RowSums(f, m, t, Metrics!Results)
    BY <1>5 DEF RowSums
  <2>2. QED
    BY <1>1, <1>4, <2>1, ResultsFinite, SumOfTable
<1>8. SumFunctionOnSet(a.results, Metrics!Results) = SumFunctionOnSet(m, t \X Metrics!Results)
  <2>1. ColumnSums(a.results, m, t, Metrics!Results)
    BY <1>6 DEF ColumnSums
  <2>2. QED
    BY <1>1, <1>4, <2>1, ResultsFinite, SumOfColumns
<1>9. QED
  BY <1>2, <1>7, <1>8

\* The rows of the page share out the names.
LEMMA RowsShareNames ==
  ASSUME NEW t, NEW k, k \subseteq Keys, NEW p,
         p = [h \in Metrics!Names |-> Cells(t, Metrics!Merged(k, h))]
  PROVE  /\ PartsOf(p, Metrics!Names, Cells(t, Metrics!Names))
         /\ UNION {p[h] : h \in Metrics!Names} = Cells(t, Metrics!Names)
<1>1. Other \in Metrics!Names /\ k \subseteq Metrics!Names /\ Other \notin k
  BY MetricsConstants, NamesFinite
<1>2. \A h \in Metrics!Names : Metrics!Merged(k, h) \subseteq Metrics!Names
  BY <1>1 DEF Metrics!Merged
<1>3. \A g, h \in Metrics!Names : g # h => Metrics!Merged(k, g) \cap Metrics!Merged(k, h) = {}
  BY <1>1 DEF Metrics!Merged
<1>4. \A x \in Metrics!Names : \E h \in Metrics!Names : x \in Metrics!Merged(k, h)
  <2>1. TAKE x \in Metrics!Names
  <2>2. CASE x \in k
    <3>1. x \in Metrics!Merged(k, x)
      BY <1>1, <2>2 DEF Metrics!Merged
    <3>2. QED
      BY <3>1
  <2>3. CASE x \notin k
    <3>1. x \in Metrics!Merged(k, Other)
      BY <1>1, <2>3 DEF Metrics!Merged
    <3>2. QED
      BY <1>1, <3>1
  <2>4. QED
    BY <2>2, <2>3
<1>5. PartsOf(p, Metrics!Names, Cells(t, Metrics!Names))
  BY <1>2, <1>3 DEF PartsOf, Cells
<1>6. \A h \in Metrics!Names : p[h] \subseteq Cells(t, Metrics!Names)
  BY <1>2 DEF Cells
<1>7. \A c \in Cells(t, Metrics!Names) : \E h \in Metrics!Names : c \in p[h]
  <2>1. TAKE c \in Cells(t, Metrics!Names)
  <2>2. c = <<c[1], c[2]>> /\ c[1] \in t /\ c[2] \in Metrics!Names
    BY DEF Cells
  <2>3. PICK h \in Metrics!Names : c[2] \in Metrics!Merged(k, h)
    BY <1>4, <2>2
  <2>4. c \in p[h]
    BY <2>2, <2>3 DEF Cells
  <2>5. QED
    BY <2>4
<1>8. QED
  BY <1>5, <1>6, <1>7

\* A counter of the cells, the sum of whose row for each bucket is one of the bucket's.
LEMMA RowsAddUp ==
  ASSUME NEW t, IsFiniteSet(t), NEW k, k \subseteq Keys, NEW m, Counts(m, Cells(t, Metrics!Names)),
         NEW rows, \A h \in Metrics!Names :
                     rows[h] = SumFunctionOnSet(m, Cells(t, Metrics!Merged(k, h))),
         NEW f, RowSums(f, m, t, Metrics!Names)
  PROVE  SumFunctionOnSet(rows, Metrics!Names) = SumFunctionOnSet(f, t)
<1> DEFINE p == [h \in Metrics!Names |-> Cells(t, Metrics!Merged(k, h))]
<1>1. /\ PartsOf(p, Metrics!Names, Cells(t, Metrics!Names))
      /\ UNION {p[h] : h \in Metrics!Names} = Cells(t, Metrics!Names)
  BY RowsShareNames
<1>2. \A h \in Metrics!Names : rows[h] = SumFunctionOnSet(m, p[h])
  OBVIOUS
<1>3. IsFiniteSet(Cells(t, Metrics!Names))
  BY NamesFinite, FS_Product DEF Cells
<1> HIDE DEF p
<1>4. SumFunctionOnSet(rows, Metrics!Names) = SumFunctionOnSet(m, UNION {p[h] : h \in Metrics!Names})
  BY <1>1, <1>2, <1>3, NamesFinite, SumOfParts
<1>5. SumFunctionOnSet(f, t) = SumFunctionOnSet(m, Cells(t, Metrics!Names))
  BY NamesFinite, SumOfTable DEF Cells
<1>6. QED
  BY <1>1, <1>4, <1>5

\* The rows of the page add up to the window.
LEMMA HostsAddUp ==
  ASSUME Typed, BucketsAddUp, NEW t, t \subseteq Metrics!Slots, IsFiniteSet(t),
         NEW order \in Metrics!Orders, NEW hosts, hosts = Metrics!AggregateHosts(buckets, t, order)
  PROVE  /\ SumFunctionOnSet([h \in Metrics!Names |-> hosts[h].requests], Metrics!Names)
              = SumFunctionOnSet([i \in t |-> buckets[i].requests], t)
         /\ SumFunctionOnSet([h \in Metrics!Names |-> hosts[h].errors], Metrics!Names)
              = SumFunctionOnSet([i \in t |-> buckets[i].results["failed"]], t)
         /\ \A h \in Metrics!Names : hosts[h].errors <= hosts[h].requests
<1> DEFINE k == Metrics!Kept(buckets, t, order)
           all == Cells(t, Metrics!Names)
           cells(h) == Cells(t, Metrics!Merged(k, h))
           requests == [h \in Metrics!Names |-> hosts[h].requests]
           errors == [h \in Metrics!Names |-> hosts[h].errors]
           total == [i \in t |-> buckets[i].requests]
           failed == [i \in t |-> buckets[i].results["failed"]]
<1>1. k \subseteq Keys /\ Keys \subseteq Metrics!Names
  BY FewKept, NamesFinite
<1>2. \A h \in Metrics!Names : Metrics!Merged(k, h) \subseteq Metrics!Names
  BY <1>1 DEF Metrics!Merged
<1>3. /\ IsFiniteSet(all)
      /\ RequestsOf(all) \in [all -> Nat]
      /\ ErrorsOf(all) \in [all -> Nat]
  BY CellsCount
<1>4. \A h \in Metrics!Names :
        /\ cells(h) \subseteq all /\ IsFiniteSet(cells(h))
        /\ \A at \in cells(h) : /\ RequestsOf(cells(h))[at] = RequestsOf(all)[at]
                                /\ ErrorsOf(cells(h))[at] = ErrorsOf(all)[at]
  <2>1. TAKE h \in Metrics!Names
  <2>2. cells(h) \in SUBSET all
    BY <1>2 DEF Cells
  <2>3. IsFiniteSet(cells(h))
    BY <1>3, <2>2, FS_Subset
  <2>4. \A at \in cells(h) : /\ RequestsOf(cells(h))[at] = RequestsOf(all)[at]
                             /\ ErrorsOf(cells(h))[at] = ErrorsOf(all)[at]
    BY <2>2 DEF RequestsOf, ErrorsOf
  <2>5. QED
    BY <2>2, <2>3, <2>4
<1>5. ASSUME NEW h \in Metrics!Names
      PROVE  /\ hosts[h].requests = SumFunctionOnSet(RequestsOf(all), cells(h))
             /\ hosts[h].errors = SumFunctionOnSet(ErrorsOf(all), cells(h))
  <2>1. /\ hosts[h].requests = SumFunctionOnSet(RequestsOf(cells(h)), cells(h))
        /\ hosts[h].errors = SumFunctionOnSet(ErrorsOf(cells(h)), cells(h))
    BY RowTotals
  <2> HIDE DEF all, cells, k
  <2>2. SumFunctionOnSet(RequestsOf(cells(h)), cells(h)) = SumFunctionOnSet(RequestsOf(all), cells(h))
    BY <1>4, SumSame
  <2>3. SumFunctionOnSet(ErrorsOf(cells(h)), cells(h)) = SumFunctionOnSet(ErrorsOf(all), cells(h))
    BY <1>4, SumSame
  <2>4. QED
    BY <2>1, <2>2, <2>3
<1>6. ASSUME NEW i \in t
      PROVE  /\ total[i] = SumFunctionOnSet(RequestsOf(all), {i} \X Metrics!Names)
             /\ failed[i] = SumFunctionOnSet(ErrorsOf(all), {i} \X Metrics!Names)
  <2>1. buckets[i] \in Metrics!Buckets /\ AddsUp(buckets[i])
    BY DEF Typed, BucketsAddUp
  <2>2. /\ total[i] = SumFunctionOnSet(HostRequests(buckets[i]), Metrics!Names)
        /\ failed[i] = SumFunctionOnSet(HostErrors(buckets[i]), Metrics!Names)
    BY <2>1 DEF AddsUp, HostRequests, HostErrors
  <2>3. Counts(HostRequests(buckets[i]), Metrics!Names) /\ Counts(HostErrors(buckets[i]), Metrics!Names)
    BY <2>1, HostCounters
  <2>4. /\ RowOf(RequestsOf(all), i, Metrics!Names, HostRequests(buckets[i]))
        /\ RowOf(ErrorsOf(all), i, Metrics!Names, HostErrors(buckets[i]))
    <3>1. \A h \in Metrics!Names : <<i, h>> \in all
      BY DEF Cells
    <3>2. QED
      BY <3>1 DEF RowOf, RequestsOf, ErrorsOf, HostRequests, HostErrors
  <2> HIDE DEF all, total, failed
  <2>5. SumFunctionOnSet(RequestsOf(all), {i} \X Metrics!Names)
          = SumFunctionOnSet(HostRequests(buckets[i]), Metrics!Names)
    BY <2>3, <2>4, NamesFinite, SumOfRow
  <2>6. SumFunctionOnSet(ErrorsOf(all), {i} \X Metrics!Names)
          = SumFunctionOnSet(HostErrors(buckets[i]), Metrics!Names)
    BY <2>3, <2>4, NamesFinite, SumOfRow
  <2>7. QED
    BY <2>2, <2>5, <2>6
<1>7. /\ RowSums(total, RequestsOf(all), t, Metrics!Names)
      /\ RowSums(failed, ErrorsOf(all), t, Metrics!Names)
  <2> HIDE DEF total, failed, all
  <2>1. QED
    BY <1>6 DEF RowSums
<1>8. Counts(RequestsOf(all), all) /\ Counts(ErrorsOf(all), all)
  BY <1>3 DEF Counts
<1>9. /\ \A h \in Metrics!Names : requests[h] = SumFunctionOnSet(RequestsOf(all), cells(h))
      /\ \A h \in Metrics!Names : errors[h] = SumFunctionOnSet(ErrorsOf(all), cells(h))
  BY <1>5
<1> HIDE DEF total, failed, requests, errors, k
<1>10. SumFunctionOnSet(requests, Metrics!Names) = SumFunctionOnSet(total, t)
  BY <1>1, <1>7, <1>8, <1>9, RowsAddUp
<1>11. SumFunctionOnSet(errors, Metrics!Names) = SumFunctionOnSet(failed, t)
  BY <1>1, <1>7, <1>8, <1>9, RowsAddUp
<1>12. ASSUME NEW h \in Metrics!Names
       PROVE  hosts[h].errors <= hosts[h].requests
  <2>1. \A at \in all : ErrorsOf(all)[at] <= RequestsOf(all)[at]
    BY DEF Cells, ErrorsOf, RequestsOf, BucketsAddUp, AddsUp
  <2> DEFINE id == [at \in all |-> at]
  <2>2. Matched(ErrorsOf(all), cells(h), RequestsOf(all), cells(h), id)
    BY <1>4, <2>1 DEF Matched
  <2>3. Counts(ErrorsOf(all), cells(h)) /\ Counts(RequestsOf(all), cells(h)) /\ IsFiniteSet(cells(h))
    BY <1>4, <1>8 DEF Counts
  <2> HIDE DEF all, cells, id
  <2>4. SumFunctionOnSet(ErrorsOf(all), cells(h)) <= SumFunctionOnSet(RequestsOf(all), cells(h))
    BY <2>2, <2>3, SumMatched
  <2>5. QED
    BY <1>5, <2>4
<1>13. QED
  BY <1>10, <1>11, <1>12 DEF requests, errors, total, failed

-------------------------------------------------------------------------------
\* The recent errors, the failures of a second and the lines of the log.

\* The errors of a second are finitely many.
LEMMA PlacesFinite ==
  ASSUME NEW r \in Seq(Errors), NEW s
  PROVE  IsFiniteSet(PlacesOf(r, s)) /\ Cardinality(PlacesOf(r, s)) \in Nat
<1>1. PlacesOf(r, s) \in SUBSET (1 .. Len(r))
  BY DEF PlacesOf
<1>2. IsFiniteSet(1 .. Len(r))
  BY FS_Interval
<1>3. QED
  BY <1>1, <1>2, FS_Subset, FS_CardinalityType

\* Another error is one more of its second.
LEMMA AppendedPlaces ==
  ASSUME NEW r \in Seq(Errors), NEW e \in Errors, NEW s
  PROVE  Cardinality(PlacesOf(Append(r, e), s))
           = Cardinality(PlacesOf(r, s)) + (IF e.now = s THEN 1 ELSE 0)
<1>1. /\ DOMAIN Append(r, e) = 1 .. Len(r) + 1 /\ DOMAIN r = 1 .. Len(r) /\ Len(r) \in Nat
      /\ \A i \in 1 .. Len(r) : Append(r, e)[i] = r[i]
      /\ Append(r, e)[Len(r) + 1] = e
  OBVIOUS
<1>2. IsFiniteSet(PlacesOf(r, s)) /\ Cardinality(PlacesOf(r, s)) \in Nat
  BY PlacesFinite
<1>3. CASE e.now = s
  <2>1. PlacesOf(Append(r, e), s) = PlacesOf(r, s) \cup {Len(r) + 1}
    BY <1>1, <1>3 DEF PlacesOf
  <2>2. Len(r) + 1 \notin PlacesOf(r, s)
    BY <1>1 DEF PlacesOf
  <2>3. Cardinality(PlacesOf(r, s) \cup {Len(r) + 1}) = Cardinality(PlacesOf(r, s)) + 1
    BY <1>2, <2>2, FS_AddElement
  <2>4. QED
    BY <1>3, <2>1, <2>3
<1>4. CASE e.now # s
  <2>1. PlacesOf(Append(r, e), s) = PlacesOf(r, s)
    BY <1>1, <1>4 DEF PlacesOf
  <2>2. QED
    BY <1>2, <1>4, <2>1
<1>5. QED
  BY <1>3, <1>4

\* Without its oldest error the list has no more of any second.
LEMMA TailPlaces ==
  ASSUME NEW r \in Seq(Errors), r # <<>>, NEW s
  PROVE  Tail(r) \in Seq(Errors) /\ Cardinality(PlacesOf(Tail(r), s)) <= Cardinality(PlacesOf(r, s))
<1>1. /\ Tail(r) \in Seq(Errors) /\ DOMAIN Tail(r) = 1 .. Len(r) - 1 /\ DOMAIN r = 1 .. Len(r)
      /\ Len(r) \in Nat /\ \A i \in 1 .. Len(r) - 1 : Tail(r)[i] = r[i + 1]
  OBVIOUS
<1> DEFINE f == [i \in PlacesOf(Tail(r), s) |-> i + 1]
<1>2. f \in Injection(PlacesOf(Tail(r), s), PlacesOf(r, s))
  <2>1. \A i \in PlacesOf(Tail(r), s) : i \in 1 .. Len(r) - 1 /\ r[i + 1].now = s
    BY <1>1 DEF PlacesOf
  <2>2. \A i \in PlacesOf(Tail(r), s) : f[i] \in PlacesOf(r, s)
    BY <1>1, <2>1 DEF PlacesOf
  <2>3. \A i, j \in PlacesOf(Tail(r), s) : f[i] = f[j] => i = j
    BY <2>1
  <2>4. QED
    BY <2>2, <2>3 DEF Injection, IsInjective
<1>3. IsFiniteSet(PlacesOf(r, s))
  BY PlacesFinite
<1>4. QED
  BY <1>1, <1>2, <1>3, FS_Injection

\* What listing an error does to the errors of a second.
LEMMA ListedPlaces ==
  ASSUME recent \in Seq(Errors), Len(recent) <= MaxRecent, NEW e \in Errors, NEW s
  PROVE  /\ Listed(e) \in Seq(Errors)
         /\ Len(recent) <= Len(Listed(e))
         /\ Cardinality(PlacesOf(Listed(e), s))
              <= Cardinality(PlacesOf(recent, s)) + (IF e.now = s THEN 1 ELSE 0)
         /\ Len(recent) < MaxRecent =>
              Cardinality(PlacesOf(Listed(e), s))
                = Cardinality(PlacesOf(recent, s)) + (IF e.now = s THEN 1 ELSE 0)
         /\ \A i \in DOMAIN Listed(e) : 
              Listed(e)[i] = e \/ \E j \in DOMAIN recent : Listed(e)[i] = recent[j]
<1>1. CASE Len(recent) = MaxRecent
  <2>1. recent # <<>>
    BY <1>1, MetricsConstants
  <2>2. Listed(e) = Append(Tail(recent), e)
    BY <1>1 DEF Listed
  <2>3. /\ Tail(recent) \in Seq(Errors)
        /\ Cardinality(PlacesOf(Tail(recent), s)) <= Cardinality(PlacesOf(recent, s))
    BY <2>1, TailPlaces
  <2>4. Cardinality(PlacesOf(Append(Tail(recent), e), s))
          = Cardinality(PlacesOf(Tail(recent), s)) + (IF e.now = s THEN 1 ELSE 0)
    BY <2>3, AppendedPlaces
  <2>5. Cardinality(PlacesOf(Tail(recent), s)) \in Nat /\ Cardinality(PlacesOf(recent, s)) \in Nat
    BY <2>3, PlacesFinite
  <2>6. Len(Append(Tail(recent), e)) = Len(recent)
    BY <2>1
  <2>7. \A i \in DOMAIN Append(Tail(recent), e) :
          \/ Append(Tail(recent), e)[i] = e
          \/ \E j \in DOMAIN recent : Append(Tail(recent), e)[i] = recent[j]
    <3>1. TAKE i \in DOMAIN Append(Tail(recent), e)
    <3>2. CASE i = Len(recent)
      BY <2>1, <3>2
    <3>3. CASE i # Len(recent)
      <4>1. i + 1 \in DOMAIN recent /\ Append(Tail(recent), e)[i] = recent[i + 1]
        BY <2>1, <3>3
      <4>2. QED
        BY <4>1
    <3>4. QED
      BY <3>2, <3>3
  <2>8. QED
    BY <1>1, <2>2, <2>3, <2>4, <2>5, <2>6, <2>7, MetricsConstants
<1>2. CASE Len(recent) # MaxRecent
  <2>1. Listed(e) = Append(recent, e)
    BY <1>2 DEF Listed
  <2>2. Cardinality(PlacesOf(Append(recent, e), s))
          = Cardinality(PlacesOf(recent, s)) + (IF e.now = s THEN 1 ELSE 0)
    BY AppendedPlaces
  <2>3. Cardinality(PlacesOf(recent, s)) \in Nat
    BY PlacesFinite
  <2>4. \A i \in DOMAIN Append(recent, e) :
          \/ Append(recent, e)[i] = e
          \/ \E j \in DOMAIN recent : Append(recent, e)[i] = recent[j]
    OBVIOUS
  <2>5. QED
    BY <2>1, <2>2, <2>3, <2>4
<1>3. QED
  BY <1>1, <1>2

\* The failures of a bucket are some of its requests.
LEMMA FailedCounter ==
  ASSUME NEW b \in Metrics!Buckets, AddsUp(b)
  PROVE  b.results["failed"] \in Nat /\ b.results["failed"] <= b.requests /\ b.requests \in Nat
<1>1. "failed" \in Metrics!Results /\ b.results \in [Metrics!Results -> Nat] /\ b.requests \in Nat
  BY DEF Metrics!Buckets, Metrics!Results
<1>2. \A r \in Metrics!Results : b.results[r] \in Nat
  BY <1>1
<1>3. b.requests = b.results["failed"] + SumFunctionOnSet(b.results, Metrics!Results \ {"failed"})
  BY <1>1, <1>2, ResultsFinite, SumSplits DEF AddsUp
<1>4. SumFunctionOnSet(b.results, Metrics!Results \ {"failed"}) \in Nat
  BY <1>2, ResultsFinite, FS_RemoveElement, SumSplits
<1>5. QED
  BY <1>1, <1>3, <1>4

\* The failures of a second that the clock has not reached are none.
LEMMA FailedPast ==
  ASSUME MetricsOK, BucketsAddUp, clock \in Nat, NEW s \in Seconds
  PROVE  FailedIn(s) \in Nat /\ (FailedIn(s) > 0 => s <= clock)
<1>1. s \in Nat /\ s % Ring \in Metrics!Slots
  BY SecondsAreFinite, PlaceInRing DEF SecondsFinite
<1> DEFINE b == buckets[s % Ring]
<1>2. b \in Metrics!Buckets /\ AddsUp(b)
  BY <1>1 DEF MetricsOK, PlacesOK, Typed, BucketsAddUp
<1>3. b.results["failed"] \in Nat /\ b.results["failed"] <= b.requests /\ b.requests \in Nat
  BY <1>2, FailedCounter
<1>4. FailedIn(s) \in Nat
  BY <1>3 DEF FailedIn
<1>5. ASSUME FailedIn(s) > 0
      PROVE  s <= clock
  <2>1. b.second = s /\ b.requests > 0
    BY <1>3, <1>5 DEF FailedIn
  <2>2. b.requests <= recorded[s]
    BY <1>1, <2>1 DEF MetricsOK, BucketsHonest
  <2>3. recorded[s] \in Nat
    BY DEF MetricsOK
  <2>4. recorded[s] > 0
    BY <1>3, <2>1, <2>2, <2>3
  <2>5. QED
    BY <2>4 DEF MetricsOK, SecondsKept
<1>6. QED
  BY <1>4, <1>5

\* A failure that is recorded is one more of its second, and takes none from a second
\* that is kept.
LEMMA FailedAfter ==
  ASSUME MetricsOK, BucketsAddUp, clock \in Nat, NEW w \in Workers, NEW b, NEW h,
         RecordsIn(w, b, h), NEW s \in Seconds, s > clock - Ring
  PROVE  FailedIn(s)' >= FailedIn(s) + (IF request[w].now = s THEN Error(request[w].result) ELSE 0)
<1> DEFINE n == request[w].now
           j == n % Ring
           c == Counted(b, h, request[w].result)
<1>1. Typed /\ n \in Nat /\ j \in Metrics!Slots /\ h \in Metrics!Names
      /\ request[w].result \in Metrics!Results /\ b = Metrics!Bucket(buckets, n)
      /\ n <= clock /\ clock <= n + MaxLate /\ n \in Seconds
  BY PlaceInRing DEF MetricsOK, PlacesOK, RecordsIn
<1>2. /\ b \in Metrics!Buckets
      /\ b.second = n
      /\ IF buckets[j].second = n THEN b = buckets[j] ELSE b = Metrics!EmptyBucket(n)
  BY <1>1, BucketFound
<1>3. /\ c \in Metrics!Buckets /\ c.second = n
      /\ CountsOne(c, b, h, request[w].result)
  BY <1>1, <1>2, CountedBucket
<1>4. buckets' = [buckets EXCEPT ![j] = c]
  BY DEF RecordsIn
<1>5. buckets'[j] = c /\ \A i \in Metrics!Slots \ {j} : buckets'[i] = buckets[i]
  BY <1>1, <1>4 DEF Typed
<1>6. FailedIn(s) \in Nat /\ (FailedIn(s) > 0 => s <= clock) /\ s \in Nat
  BY FailedPast, SecondsAreFinite DEF SecondsFinite
<1>7. c.results["failed"] = b.results["failed"] + Error(request[w].result)
      /\ b.results["failed"] \in Nat /\ Error(request[w].result) \in Nat
  <2>1. "failed" \in Metrics!Results /\ b.results \in [Metrics!Results -> Nat]
    BY <1>2 DEF Metrics!Buckets, Metrics!Results
  <2>2. QED
    BY <1>1, <1>3, <2>1 DEF CountsOne, Error
<1>8. CASE s = n
  <2>1. FailedIn(s)' = c.results["failed"]
    BY <1>3, <1>5, <1>8 DEF FailedIn
  <2>2. FailedIn(s) = b.results["failed"]
    <3>1. CASE buckets[j].second = n
      BY <1>2, <1>8, <3>1 DEF FailedIn
    <3>2. CASE buckets[j].second # n
      <4>1. b.results["failed"] = 0
        BY <1>1, <1>2, <3>2, EmptyBucketTyped DEF Metrics!Results
      <4>2. QED
        BY <1>8, <3>2, <4>1 DEF FailedIn
    <3>3. QED
      BY <3>1, <3>2
  <2>3. QED
    BY <1>7, <1>8, <2>1, <2>2
<1>9. CASE s # n /\ s <= clock
  <2>1. s - n < Ring /\ n - s < Ring
    BY <1>1, <1>6, <1>9, MetricsConstants
  <2>2. s % Ring # j
    BY <1>1, <1>6, <1>9, <2>1, PlacesApart
  <2>3. buckets'[s % Ring] = buckets[s % Ring]
    BY <1>5, <1>6, <2>2, PlaceInRing
  <2>4. FailedIn(s)' = FailedIn(s)
    BY <2>3 DEF FailedIn
  <2>5. QED
    BY <1>6, <1>9, <2>4
<1>10. CASE s # n /\ ~(s <= clock)
  <2>1. FailedIn(s) = 0
    BY <1>6, <1>10
  <2>2. FailedIn(s)' \in Nat
    <3>1. s % Ring \in Metrics!Slots
      BY <1>6, PlaceInRing
    <3>2. buckets'[s % Ring] \in Metrics!Buckets
      BY <1>1, <1>3, <1>5, <3>1 DEF Typed
    <3>3. buckets'[s % Ring].results["failed"] \in Nat
      BY <3>2 DEF Metrics!Buckets, Metrics!Results
    <3>4. QED
      BY <3>3 DEF FailedIn
  <2>3. QED
    BY <1>10, <2>1, <2>2
<1>11. QED
  BY <1>8, <1>9, <1>10

\* record keeps the list of recent errors in agreement with the failures.
LEMMA RecordKeepsErrors ==
  ASSUME MetricsOK, BucketsAddUp, ErrorsCounted, clock \in Nat, NEW w \in Workers, NEW b, NEW h,
         RecordsIn(w, b, h)
  PROVE  ErrorsCounted'
<1> DEFINE n == request[w].now
           j == n % Ring
           c == Counted(b, h, request[w].result)
           e == [host |-> request[w].host, now |-> n]
           more(s) == IF n = s THEN Error(request[w].result) ELSE 0
           was(s) == Cardinality(PlacesOf(recent, s))
           is(s) == Cardinality(PlacesOf(recent', s))
<1>1. Typed /\ n \in Nat /\ j \in Metrics!Slots /\ h \in Metrics!Names
      /\ request[w].result \in Metrics!Results /\ b = Metrics!Bucket(buckets, n)
      /\ n \in Seconds /\ clock' = clock /\ e \in Errors
      /\ recent \in Seq(Errors) /\ Len(recent) <= MaxRecent
  BY PlaceInRing DEF MetricsOK, PlacesOK, RecordsIn, vars, Errors
<1>2. recent' = IF request[w].result = "failed" THEN Listed(e) ELSE recent
  BY DEF RecordsIn
<1>3. /\ recent' \in Seq(Errors)
      /\ Len(recent) <= Len(recent')
      /\ \A s : /\ is(s) \in Nat /\ was(s) \in Nat /\ more(s) \in Nat
                /\ is(s) <= was(s) + more(s)
                /\ Len(recent) < MaxRecent => is(s) = was(s) + more(s)
      /\ \A i \in DOMAIN recent' : recent'[i].now \in Seconds
  <2>1. CASE request[w].result = "failed"
    <3>1. recent' = Listed(e) /\ e.now = n
      BY <1>2, <2>1
    <3>2. /\ Listed(e) \in Seq(Errors)
          /\ Len(recent) <= Len(Listed(e))
          /\ \A i \in DOMAIN Listed(e) :
               Listed(e)[i] = e \/ \E k \in DOMAIN recent : Listed(e)[i] = recent[k]
      BY <1>1, ListedPlaces
    <3>3. \A i \in DOMAIN recent' : recent'[i].now \in Seconds
      BY <1>1, <3>1, <3>2 DEF ErrorsCounted
    <3>4. ASSUME NEW s
          PROVE  /\ is(s) \in Nat /\ was(s) \in Nat /\ more(s) \in Nat
                 /\ is(s) <= was(s) + more(s)
                 /\ Len(recent) < MaxRecent => is(s) = was(s) + more(s)
      <4>1. more(s) = IF e.now = s THEN 1 ELSE 0
        BY <2>1, <3>1 DEF Error
      <4>2. is(s) \in Nat /\ was(s) \in Nat
        BY <1>1, <3>1, <3>2, PlacesFinite
      <4>3. /\ Cardinality(PlacesOf(Listed(e), s)) <= was(s) + (IF e.now = s THEN 1 ELSE 0)
            /\ Len(recent) < MaxRecent =>
                 Cardinality(PlacesOf(Listed(e), s)) = was(s) + (IF e.now = s THEN 1 ELSE 0)
        BY <1>1, ListedPlaces
      <4>4. QED
        BY <3>1, <4>1, <4>2, <4>3
    <3>5. QED
      BY <3>1, <3>2, <3>3, <3>4
  <2>2. CASE request[w].result # "failed"
    <3>1. recent' = recent
      BY <1>2, <2>2
    <3>2. \A s : more(s) = 0
      BY <2>2 DEF Error
    <3>3. \A s : was(s) \in Nat
      BY <1>1, PlacesFinite
    <3>4. QED
      BY <1>1, <3>1, <3>2, <3>3 DEF ErrorsCounted
  <2>3. QED
    BY <2>1, <2>2
<1> HIDE DEF more, was, is
<1>4. ASSUME NEW s \in Seconds, s > clock - Ring
      PROVE  is(s) <= FailedIn(s)'
  <2>1. was(s) <= FailedIn(s) /\ FailedIn(s) \in Nat
    BY <1>4, FailedPast DEF ErrorsCounted, was
  <2>2. FailedIn(s)' >= FailedIn(s) + more(s)
    BY <1>4, FailedAfter DEF more
  <2>3. FailedIn(s)' \in Nat
    <3>1. /\ b \in Metrics!Buckets
          /\ Counted(b, h, request[w].result) \in Metrics!Buckets
      BY <1>1, BucketFound, CountedBucket
    <3>2. \A i \in Metrics!Slots : buckets'[i] \in Metrics!Buckets
      BY <1>1, <3>1 DEF RecordsIn, Typed
    <3>3. s % Ring \in Metrics!Slots
      BY SecondsAreFinite, PlaceInRing DEF SecondsFinite
    <3>4. buckets'[s % Ring].results["failed"] \in Nat
      BY <3>2, <3>3 DEF Metrics!Buckets, Metrics!Results
    <3>5. QED
      BY <3>4 DEF FailedIn
  <2>4. QED
    BY <1>3, <2>1, <2>2, <2>3
<1>5. ASSUME Len(recent') < MaxRecent, NEW i \in Metrics!Slots
      PROVE  buckets'[i].results["failed"] <= is(buckets'[i].second)
  <2>1. Len(recent) < MaxRecent
    BY <1>1, <1>3, <1>5, MetricsConstants
  <2>2. buckets[i].results["failed"] <= was(buckets[i].second)
        /\ buckets[j].results["failed"] <= was(buckets[j].second)
    BY <1>1, <2>1 DEF ErrorsCounted, was
  <2>3. /\ b \in Metrics!Buckets
        /\ b.second = n
        /\ IF buckets[j].second = n THEN b = buckets[j] ELSE b = Metrics!EmptyBucket(n)
    BY <1>1, BucketFound
  <2>4. /\ c \in Metrics!Buckets /\ c.second = n
        /\ CountsOne(c, b, h, request[w].result)
    BY <1>1, <2>3, CountedBucket
  <2>5. c.results["failed"] = b.results["failed"] + Error(request[w].result)
        /\ b.results["failed"] \in Nat
    <3>1. "failed" \in Metrics!Results /\ b.results \in [Metrics!Results -> Nat]
      BY <2>3 DEF Metrics!Buckets, Metrics!Results
    <3>2. QED
      BY <1>1, <2>4, <3>1 DEF CountsOne, Error
  <2>6. b.results["failed"] <= was(n)
    <3>1. CASE buckets[j].second = n
      BY <2>2, <2>3, <3>1
    <3>2. CASE buckets[j].second # n
      <4>1. b.results["failed"] = 0
        BY <1>1, <2>3, <3>2, EmptyBucketTyped DEF Metrics!Results
      <4>2. QED
        BY <1>3, <4>1
    <3>3. QED
      BY <3>1, <3>2
  <2>7. buckets' = [buckets EXCEPT ![j] = c]
    BY DEF RecordsIn
  <2>8. CASE i = j
    <3>1. buckets'[i] = c
      BY <1>1, <2>7, <2>8 DEF Typed
    <3>2. is(n) = was(n) + more(n) /\ more(n) = Error(request[w].result)
      BY <1>3, <2>1 DEF more
    <3>3. was(n) \in Nat /\ more(n) \in Nat
      BY <1>3
    <3>4. QED
      BY <2>4, <2>5, <2>6, <3>1, <3>2, <3>3
  <2>9. CASE i # j
    <3>1. buckets'[i] = buckets[i]
      BY <1>1, <2>7, <2>9 DEF Typed
    <3>2. was(buckets[i].second) <= is(buckets[i].second)
      BY <1>3, <2>1
    <3>3. buckets[i].results["failed"] \in Nat
      BY <1>1 DEF Typed, Metrics!Buckets, Metrics!Results
    <3>4. was(buckets[i].second) \in Nat /\ is(buckets[i].second) \in Nat
      BY <1>3
    <3>5. QED
      BY <2>2, <3>1, <3>2, <3>3, <3>4
  <2>10. QED
    BY <2>8, <2>9
<1>6. QED
  BY <1>1, <1>3, <1>4, <1>5 DEF ErrorsCounted, is, Seconds

CountsOK == BucketsAddUp /\ ErrorsCounted /\ CallsMatch /\ LinesCounted

\* Lines and goroutines are finitely many.
LEMMA LinesFinite ==
  ASSUME NEW s
  PROVE  /\ IsFiniteSet(LinesAt(s)) /\ Cardinality(LinesAt(s)) \in Nat
         /\ IsFiniteSet(Asking(s)) /\ Cardinality(Asking(s)) \in Nat
<1>1. LinesAt(s) \in SUBSET Keys /\ Asking(s) \in SUBSET Workers
  BY DEF LinesAt, Asking
<1>2. QED
  BY <1>1, FS_Subset, FS_CardinalityType, MetricsConstants

\* And after a step.
LEMMA LinesFinitePrime ==
  ASSUME NEW s
  PROVE  /\ IsFiniteSet(LinesAt(s)') /\ Cardinality(LinesAt(s))' \in Nat
         /\ IsFiniteSet(Asking(s)') /\ Cardinality(Asking(s))' \in Nat
<1>1. LinesAt(s)' \in SUBSET Keys /\ Asking(s)' \in SUBSET Workers
  BY DEF LinesAt, Asking
<1>2. QED
  BY <1>1, FS_Subset, FS_CardinalityType, MetricsConstants

\* A step that leaves the metrics alone, and the clock, leaves them in agreement.
LEMMA CountsStand ==
  ASSUME BucketsAddUp, ErrorsCounted, UNCHANGED metrics, clock' = clock
  PROVE  BucketsAddUp' /\ ErrorsCounted' /\ \A s : FailedIn(s)' = FailedIn(s)
<1>1. buckets' = buckets /\ recent' = recent
  BY DEF metrics
<1>2. \A s : FailedIn(s)' = FailedIn(s)
  BY <1>1 DEF FailedIn
<1>3. BucketsAddUp'
  BY <1>1 DEF BucketsAddUp
<1>4. ErrorsCounted'
  BY <1>1, <1>2 DEF ErrorsCounted, Seconds
<1>5. QED
  BY <1>2, <1>3, <1>4

\* The goroutine of a request that has ended has yet to record it: it asks for no line.
LEMMA CompleteKeepsLines ==
  ASSUME ObsInv, CountsOK, NEW w \in Workers, CompleteFailed(w) \/ CompleteOther(w)
  PROVE  CountsOK'
<1>1. UNCHANGED <<metrics, page, clock, accounted, written>>
  BY DEF CompleteFailed, CompleteOther, CompleteWith, Begin, vars, history
<1>2. request[w] = Idle /\ call[w] = Idle
  BY DEF CompleteFailed, CompleteOther, Begin
<1>3. request \in [Workers -> Requests] /\ call \in [Workers -> Calls]
  BY DEF ObsInv, RequestsOK, IInv, TypeOK
<1>4. /\ request'[w] # Idle /\ request'[w].now = clock
      /\ request'[w].result = "failed" <=> call'[w] # Idle
      /\ call'[w] # Idle => call'[w].now = clock
      /\ \A u \in Workers \ {w} : request'[u] = request[u] /\ call'[u] = call[u]
  <2>1. CASE CompleteFailed(w)
    <3>1. PICK k \in Keys : call' = [call EXCEPT ![w] = [op |-> "emit", key |-> k, now |-> clock]]
      BY <2>1 DEF CompleteFailed, Begin
    <3>2. request' = [request EXCEPT ![w] = [op |-> "record", host |-> call'[w].key,
                                            result |-> "failed", now |-> clock]]
      BY <2>1 DEF CompleteFailed, CompleteWith
    <3>3. QED
      BY <1>3, <3>1, <3>2 DEF Idle
  <2>2. CASE CompleteOther(w)
    <3>1. PICK h \in Keys, result \in {"success", "cancelled"} :
            request' = [request EXCEPT ![w] = [op |-> "record", host |-> h, result |-> result,
                                               now |-> clock]]
      BY <2>2 DEF CompleteOther, CompleteWith
    <3>2. call' = call
      BY <2>2 DEF CompleteOther, vars
    <3>3. QED
      BY <1>2, <1>3, <3>1, <3>2 DEF Idle
  <2>3. QED
    BY <2>1, <2>2
<1>5. BucketsAddUp' /\ ErrorsCounted' /\ \A s : FailedIn(s)' = FailedIn(s)
  BY <1>1, CountsStand DEF CountsOK
<1>6. CallsMatch'
  BY <1>4 DEF CallsMatch, CountsOK
<1>7. \A s : Asking(s)' = Asking(s) /\ LinesAt(s)' = LinesAt(s)
  BY <1>1, <1>2, <1>4 DEF Asking, LinesAt
<1>8. LinesCounted'
  BY <1>1, <1>5, <1>7 DEF LinesCounted, CountsOK, Seconds
<1>9. QED
  BY <1>5, <1>6, <1>8 DEF CountsOK

\* record counts a failure before its goroutine asks for a line.
LEMMA RecordKeepsLines ==
  ASSUME ObsInv, CountsOK, NEW w \in Workers, Record(w)
  PROVE  CountsOK'
<1>1. MetricsOK /\ RequestsOK /\ PlacesOK /\ clock \in Nat
  BY DEF ObsInv, MetricsOK, IInv, TypeOK
<1>2. PICK b, h : RecordsIn(w, b, h)
  BY <1>1, RecordStep
<1>3. BucketsAddUp'
  BY <1>1, <1>2, RecordKeepsAddsUp DEF CountsOK
<1>4. ErrorsCounted'
  BY <1>1, <1>2, RecordKeepsErrors DEF CountsOK
<1>5. request \in [Workers -> Requests] /\ request' = [request EXCEPT ![w] = Idle]
      /\ UNCHANGED <<clock, call, accounted, written>> /\ request[w] # Idle
  BY <1>2 DEF ObsInv, RequestsOK, RecordsIn, vars, history, Record
<1>6. CallsMatch'
  BY <1>5 DEF CallsMatch, CountsOK
<1>7. ASSUME NEW s \in Seconds, s > clock - Ring
      PROVE  Cardinality(LinesAt(s))' + Cardinality(Asking(s))' <= FailedIn(s)'
  <2>1. FailedIn(s)' >= FailedIn(s) + (IF request[w].now = s THEN Error(request[w].result) ELSE 0)
    BY <1>1, <1>2, <1>7, FailedAfter DEF CountsOK
  <2>2. Cardinality(LinesAt(s)) + Cardinality(Asking(s)) <= FailedIn(s)
    BY <1>7 DEF CountsOK, LinesCounted
  <2>3. LinesAt(s)' = LinesAt(s)
    BY <1>5 DEF LinesAt
  <2>4. FailedIn(s) \in Nat
    BY <1>1, FailedPast DEF CountsOK
  <2>5. FailedIn(s)' \in Nat
    <3>1. MetricsOK' /\ clock' \in Nat /\ s \in Seconds'
      BY <1>1, <1>5, RecordKeepsMetrics DEF Seconds
    <3>2. buckets'[s % Ring] \in Metrics!Buckets
      BY <3>1, SecondsAreFinite, PlaceInRing DEF MetricsOK, PlacesOK, Typed, SecondsFinite
    <3>3. buckets'[s % Ring].results["failed"] \in Nat
      BY <3>2 DEF Metrics!Buckets, Metrics!Results
    <3>4. QED
      BY <3>3 DEF FailedIn
  <2>6. CASE request[w].now = s /\ call[w] # Idle
    <3>1. Error(request[w].result) = 1 /\ call[w].now = s
      BY <1>5, <2>6 DEF CountsOK, CallsMatch, Error
    <3>2. Asking(s)' = Asking(s) \cup {w} /\ w \notin Asking(s)
      BY <1>5, <2>6, <3>1 DEF Asking
    <3>3. Cardinality(Asking(s) \cup {w}) = Cardinality(Asking(s)) + 1
      BY <3>2, LinesFinite, FS_AddElement
    <3>4. Cardinality(LinesAt(s)) \in Nat /\ Cardinality(Asking(s)) \in Nat
      BY LinesFinite
    <3>5. FailedIn(s)' >= FailedIn(s) + 1
      BY <2>1, <2>6, <3>1
    <3>6. /\ Cardinality(Asking(s))' = Cardinality(Asking(s)) + 1
          /\ Cardinality(LinesAt(s))' = Cardinality(LinesAt(s))
      BY <2>3, <3>2, <3>3
    <3>7. QED
      BY <2>2, <2>4, <2>5, <3>4, <3>5, <3>6
  <2>7. CASE ~(request[w].now = s /\ call[w] # Idle)
    <3>1. call[w] # Idle => call[w].now # s
      BY <1>5, <2>7 DEF CountsOK, CallsMatch
    <3>2. Asking(s)' = Asking(s)
      BY <1>5, <3>1 DEF Asking
    <3>3. Cardinality(LinesAt(s)) \in Nat /\ Cardinality(Asking(s)) \in Nat
      BY LinesFinite
    <3>4. (IF request[w].now = s THEN Error(request[w].result) ELSE 0) \in Nat
      BY DEF Error
    <3>5. FailedIn(s)' >= FailedIn(s)
      BY <2>1, <2>4, <2>5, <3>4
    <3>6. /\ Cardinality(Asking(s))' = Cardinality(Asking(s))
          /\ Cardinality(LinesAt(s))' = Cardinality(LinesAt(s))
      BY <2>3, <3>2
    <3>7. QED
      BY <2>2, <2>4, <2>5, <3>3, <3>5, <3>6
  <2>8. QED
    BY <2>6, <2>7
<1>8. LinesCounted'
  BY <1>5, <1>7 DEF LinesCounted, Seconds
<1>9. QED
  BY <1>3, <1>4, <1>6, <1>8 DEF CountsOK

\* What a goroutine that asks for its line leaves: a line of its second more, at most.
Asks(w, k) ==
  /\ call[w] # Idle /\ request[w] = Idle /\ k \in Keys
  /\ call' = [call EXCEPT ![w] = Idle]
  /\ \A j \in Keys \ {k} : accounted'[j] = accounted[j] /\ written'[j] = written[j]
  /\ \/ accounted'[k] = accounted[k] /\ written'[k] = written[k]
     \/ written'[k] = call[w].now
  /\ UNCHANGED <<metrics, request, page, clock>>

\* A step of shouldEmitFailure is a step Asks.
LEMMA LogAsks ==
  ASSUME ObsInv, NEW w \in Workers, Log(w)
  PROVE  \E k : Asks(w, k)
<1>1. accounted \in [Keys -> Nat] /\ written \in [Keys -> 0 .. clock]
  BY DEF ObsInv, IInv, TypeOK
<1>2. PICK k \in Keys : EmitNew(w, k) \/ EmitAgain(w, k) \/ Suppress(w, k)
  BY DEF Log
<1>3. request[w] = Idle /\ UNCHANGED <<metrics, request, page>>
  BY DEF Log
<1>4. CASE EmitNew(w, k)
  BY <1>1, <1>3, <1>4 DEF EmitNew, Emitting, WriteLine, Asks
<1>5. CASE EmitAgain(w, k)
  BY <1>1, <1>3, <1>5 DEF EmitAgain, Emitting, WriteLine, Asks
<1>6. CASE Suppress(w, k)
  BY <1>1, <1>3, <1>6 DEF Suppress, Emitting, history, Asks
<1>7. QED
  BY <1>2, <1>4, <1>5, <1>6

\* A goroutine that asks for a line gives a line, or none, for its question.
LEMMA LogKeepsLines ==
  ASSUME ObsInv, CountsOK, NEW w \in Workers, Log(w)
  PROVE  CountsOK'
<1>1. PICK k : Asks(w, k)
  BY LogAsks
<1>2. call \in [Workers -> Calls]
  BY DEF ObsInv, IInv, TypeOK
<1>3. BucketsAddUp' /\ ErrorsCounted' /\ \A s : FailedIn(s)' = FailedIn(s)
  BY <1>1, CountsStand DEF CountsOK, Asks
<1>4. call'[w] = Idle /\ (\A u \in Workers \ {w} : call'[u] = call[u]) /\ request' = request
      /\ request[w] = Idle /\ call[w] # Idle /\ clock' = clock /\ k \in Keys
  BY <1>1, <1>2 DEF Asks
<1>5. CallsMatch'
  BY <1>4 DEF CallsMatch, CountsOK
<1>6. ASSUME NEW s \in Seconds, s > clock - Ring
      PROVE  Cardinality(LinesAt(s))' + Cardinality(Asking(s))' <= FailedIn(s)'
  <2>1. Cardinality(LinesAt(s)) + Cardinality(Asking(s)) <= FailedIn(s) /\ FailedIn(s) \in Nat
    BY <1>6, FailedPast DEF CountsOK, LinesCounted, ObsInv, IInv, TypeOK
  <2>2. /\ Cardinality(LinesAt(s)) \in Nat /\ Cardinality(Asking(s)) \in Nat
        /\ Cardinality(LinesAt(s))' \in Nat /\ Cardinality(Asking(s))' \in Nat
    BY LinesFinite, LinesFinitePrime
  <2>3. CASE call[w].now = s
    <3>1. Asking(s)' = Asking(s) \ {w} /\ w \in Asking(s)
      BY <1>4, <2>3 DEF Asking
    <3>2. Cardinality(Asking(s) \ {w}) = Cardinality(Asking(s)) - 1
      BY <3>1, LinesFinite, FS_RemoveElement
    <3>3. LinesAt(s)' \subseteq LinesAt(s) \cup {k}
      BY <1>1 DEF Asks, LinesAt
    <3>4. /\ IsFiniteSet(LinesAt(s) \cup {k})
          /\ Cardinality(LinesAt(s) \cup {k}) \in {Cardinality(LinesAt(s)), Cardinality(LinesAt(s)) + 1}
      BY LinesFinite, FS_AddElement
    <3>5. Cardinality(LinesAt(s)') <= Cardinality(LinesAt(s) \cup {k})
      BY <3>3, <3>4, FS_Subset
    <3>6. Cardinality(LinesAt(s))' <= Cardinality(LinesAt(s)) + 1
      BY <2>2, <3>4, <3>5
    <3>7. Cardinality(Asking(s))' = Cardinality(Asking(s)) - 1
      BY <3>1, <3>2
    <3>8. QED
      BY <1>3, <2>1, <2>2, <3>6, <3>7
  <2>4. CASE call[w].now # s
    <3>1. Asking(s)' = Asking(s)
      BY <1>4, <2>4 DEF Asking
    <3>2. LinesAt(s)' \subseteq LinesAt(s)
      BY <1>1, <2>4 DEF Asks, LinesAt
    <3>3. Cardinality(LinesAt(s)') <= Cardinality(LinesAt(s))
      BY <3>2, LinesFinite, FS_Subset
    <3>4. /\ Cardinality(LinesAt(s))' <= Cardinality(LinesAt(s))
          /\ Cardinality(Asking(s))' = Cardinality(Asking(s))
      BY <3>1, <3>3
    <3>5. QED
      BY <1>3, <2>1, <2>2, <3>4
  <2>5. QED
    BY <2>3, <2>4
<1>7. LinesCounted'
  BY <1>4, <1>6 DEF LinesCounted, Seconds
<1>8. QED
  BY <1>3, <1>5, <1>7 DEF CountsOK

\* A step that changes none of it.
LEMMA OthersKeepLines ==
  ASSUME CountsOK, UNCHANGED <<metrics, request, clock, call, accounted, written>>
  PROVE  CountsOK'
<1>1. BucketsAddUp' /\ ErrorsCounted' /\ \A s : FailedIn(s)' = FailedIn(s)
  BY CountsStand DEF CountsOK
<1>2. \A s : LinesAt(s)' = LinesAt(s) /\ Asking(s)' = Asking(s)
  BY DEF LinesAt, Asking
<1>3. LinesCounted'
  BY <1>1, <1>2 DEF CountsOK, LinesCounted, Seconds
<1>4. QED
  BY <1>1, <1>3 DEF CountsOK, CallsMatch

\* Fewer seconds are kept when the clock has gone on.
LEMMA TickKeepsLines ==
  ASSUME ObsInv, CountsOK, ObsTick
  PROVE  CountsOK'
<1>1. UNCHANGED <<buckets, recent, request, call, accounted, written>>
      /\ clock' = clock + 1 /\ clock \in Nat
  BY DEF ObsTick, Tick, metrics, history, ObsInv, IInv, TypeOK
<1>2. /\ \A s : FailedIn(s)' = FailedIn(s)
      /\ \A s : LinesAt(s)' = LinesAt(s) /\ Asking(s)' = Asking(s)
  BY <1>1 DEF FailedIn, LinesAt, Asking
<1>3. \A s \in Seconds : s > clock' - Ring => s > clock - Ring
  BY <1>1, MetricsConstants DEF Seconds
<1>4. BucketsAddUp' /\ CallsMatch'
  BY <1>1 DEF CountsOK, BucketsAddUp, CallsMatch
<1>5. LinesCounted'
  BY <1>2, <1>3 DEF CountsOK, LinesCounted, Seconds
<1>6. ErrorsCounted'
  BY <1>1, <1>2, <1>3 DEF CountsOK, ErrorsCounted, Seconds
<1>7. QED
  BY <1>4, <1>5, <1>6 DEF CountsOK

\* Initially nothing is counted and nothing is listed.
LEMMA InitiallyLines == ObsInit => CountsOK
<1> SUFFICES ASSUME ObsInit PROVE CountsOK
  OBVIOUS
<1>1. \A i \in Metrics!Slots : buckets[i] = Metrics!EmptyBucket(-Ring)
  BY DEF ObsInit, Metrics!NoBuckets
<1>2. -Ring \in Int
  BY MetricsConstants
<1>3. BucketsAddUp
  BY <1>1, <1>2, EmptyAddsUp DEF BucketsAddUp
<1>4. \A i \in Metrics!Slots : buckets[i].results["failed"] = 0
  BY <1>1, <1>2, EmptyBucketTyped DEF Metrics!Results
<1>5. \A s \in Seconds : FailedIn(s) = 0
  BY <1>4, SecondsAreFinite, PlaceInRing DEF FailedIn, SecondsFinite
<1>6. recent = <<>> /\ DOMAIN recent = {}
  BY DEF ObsInit
<1>7. \A s : PlacesOf(recent, s) = {}
  BY <1>6 DEF PlacesOf
<1>8. ErrorsCounted
  <2>1. \A s : Cardinality(PlacesOf(recent, s)) = 0
    BY <1>7, FS_EmptySet
  <2>2. QED
    BY <1>4, <1>5, <1>6, <2>1 DEF ErrorsCounted
<1>9. CallsMatch
  BY DEF ObsInit, CallsMatch
<1>10. \A s : LinesAt(s) = {} /\ Asking(s) = {}
  BY DEF ObsInit, Init, LinesAt, Asking
<1>11. LinesCounted
  BY <1>5, <1>10, FS_EmptySet DEF LinesCounted
<1>12. QED
  BY <1>3, <1>8, <1>9, <1>11 DEF CountsOK

\* Every step keeps the figures in agreement.
LEMMA StepKeepsLines == ObsInv /\ CountsOK /\ [ObsNext]_obsVars => CountsOK'
<1> SUFFICES ASSUME ObsInv, CountsOK, [ObsNext]_obsVars PROVE CountsOK'
  OBVIOUS
<1>1. CASE UNCHANGED obsVars
  BY <1>1, OthersKeepLines DEF obsVars, vars, history
<1>2. CASE \E w \in Workers : CompleteFailed(w) \/ CompleteOther(w)
  BY <1>2, CompleteKeepsLines
<1>3. CASE \E w \in Workers : Record(w)
  BY <1>3, RecordKeepsLines
<1>4. CASE \E w \in Workers : Log(w)
  BY <1>4, LogKeepsLines
<1>5. CASE Ask \/ Snapshot \/ Summarize
  BY <1>5, OthersKeepLines DEF Ask, Snapshot, Summarize, vars, history
<1>6. CASE ObsTick
  BY <1>6, TickKeepsLines
<1>7. QED
  BY <1>1, <1>2, <1>3, <1>4, <1>5, <1>6 DEF ObsNext

-------------------------------------------------------------------------------
\* What a page shows.

\* The failures of the widest window.
FailedOf(t) == SumFunctionOnSet([i \in t |-> buckets[i].results["failed"]], t)

\* As many things as the failures of the window, at most, when those of each second
\* that is kept are no more than the second's failures.
Within(S, q, now) ==
  /\ \A x \in S : q[x] \in StillKept(now, Ring) /\ q[x] \in Seconds
  /\ \A s \in Seconds : s > clock - Ring => Cardinality({x \in S : q[x] = s}) <= FailedIn(s)

\* Such things are no more than the failures of the window.
LEMMA WithinWindow ==
  ASSUME MetricsOK, BucketsAddUp, clock \in Nat, NEW now \in Nat,
         NEW S, IsFiniteSet(S), NEW q, Within(S, q, now)
  PROVE  Cardinality(S) <= FailedOf(Metrics!Taken(buckets, now, Ring))
<1> DEFINE t == Metrics!Taken(buckets, now, Ring)
           f == [i \in t |-> buckets[i].results["failed"]]
           kept == StillKept(now, Ring) \cap Seconds
           g == [s \in kept |-> FailedIn(s)]
           p == [s \in kept |-> s % Ring]
<1>1. IsFiniteSet(t) /\ t \subseteq Metrics!Slots /\ Typed
  BY TakenFinite DEF MetricsOK, PlacesOK
<1>2. IsFiniteSet(kept) /\ kept \subseteq Nat /\ Ring \in Nat
  BY SecondsAreFinite, FS_Intersection, MetricsConstants DEF SecondsFinite
<1>3. \A i \in Metrics!Slots : buckets[i].results["failed"] \in Nat
  BY <1>1 DEF Typed, Metrics!Buckets, Metrics!Results
<1>4. Counts(f, t)
  BY <1>1, <1>3 DEF Counts
<1>5. Counts(g, kept)
  BY FailedPast DEF Counts
<1>6. \A s \in kept : s > clock - Ring /\ FirstSecond(now, Ring) <= s /\ s <= now
  BY <1>2 DEF StillKept
<1>7. Matched(g, kept, f, t, p)
  <2>1. ASSUME NEW s \in kept, g[s] > 0
        PROVE  p[s] \in t /\ g[s] <= f[p[s]] /\ buckets[p[s]].second = s
    <3>1. FailedIn(s) > 0 /\ p[s] = s % Ring /\ s \in Nat
      BY <1>2, <2>1
    <3>2. buckets[s % Ring].second = s /\ FailedIn(s) = buckets[s % Ring].results["failed"]
      BY <3>1 DEF FailedIn
    <3>3. s % Ring \in t
      BY <1>6, <3>1, <3>2, PlaceInRing DEF Metrics!Taken, Metrics!InWindow, FirstSecond
    <3>4. FailedIn(s) \in Nat
      BY <1>3, <3>1, <3>2, PlaceInRing
    <3>5. QED
      BY <3>1, <3>2, <3>3, <3>4
  <2>2. QED
    BY <2>1 DEF Matched
<1>8. \A x \in S : q[x] \in kept
  BY DEF Within
<1>9. \A s \in kept : Cardinality({x \in S : q[x] = s}) <= g[s]
  BY <1>6 DEF Within
<1> HIDE DEF t, f, kept, g, p
<1>10. Cardinality(S) <= SumFunctionOnSet(g, kept)
  BY <1>2, <1>5, <1>8, <1>9, FewerThanSum
<1>11. SumFunctionOnSet(g, kept) <= SumFunctionOnSet(f, t)
  BY <1>1, <1>2, <1>4, <1>5, <1>7, SumMatched
<1>12. SumFunctionOnSet(g, kept) \in Nat /\ SumFunctionOnSet(f, t) \in Nat /\ Cardinality(S) \in Nat
  BY <1>1, <1>2, <1>4, <1>5, SumSplits, FS_CardinalityType DEF Counts
<1>13. Cardinality(S) <= SumFunctionOnSet(f, t)
  BY <1>10, <1>11, <1>12
<1>14. QED
  BY <1>13 DEF FailedOf, f, t

\* The recent errors of the seconds that are kept are failures of the window.
LEMMA KeptErrorsWithin ==
  ASSUME MetricsOK, BucketsAddUp, ErrorsCounted, clock \in Nat, NEW now \in Nat
  PROVE  Cardinality({i \in DOMAIN recent : recent[i].now \in StillKept(now, Ring)})
           <= FailedOf(Metrics!Taken(buckets, now, Ring))
<1> DEFINE S == {i \in DOMAIN recent : recent[i].now \in StillKept(now, Ring)}
           q == [i \in DOMAIN recent |-> recent[i].now]
<1>1. recent \in Seq(Errors)
  BY DEF MetricsOK
<1>2. IsFiniteSet(S)
  <2>1. S \in SUBSET (1 .. Len(recent))
    BY <1>1
  <2>2. IsFiniteSet(1 .. Len(recent))
    BY FS_Interval, <1>1
  <2>3. QED
    BY <2>1, <2>2, FS_Subset
<1>3. ASSUME NEW s \in Seconds, s > clock - Ring
      PROVE  Cardinality({x \in S : q[x] = s}) <= FailedIn(s)
  <2>1. {x \in S : q[x] = s} \subseteq PlacesOf(recent, s)
    BY DEF PlacesOf
  <2>2. IsFiniteSet(PlacesOf(recent, s)) /\ Cardinality(PlacesOf(recent, s)) \in Nat
    BY <1>1, PlacesFinite
  <2>3. Cardinality(PlacesOf(recent, s)) <= FailedIn(s) /\ FailedIn(s) \in Nat
    BY <1>3, FailedPast DEF ErrorsCounted
  <2> HIDE DEF S, q
  <2>4. /\ Cardinality({x \in S : q[x] = s}) <= Cardinality(PlacesOf(recent, s))
        /\ IsFiniteSet({x \in S : q[x] = s})
    BY <2>1, <2>2, FS_Subset
  <2>5. Cardinality({x \in S : q[x] = s}) \in Nat
    BY <2>4, FS_CardinalityType
  <2>6. QED
    BY <2>2, <2>3, <2>4, <2>5
<1>4. Within(S, q, now)
  BY <1>3 DEF Within, ErrorsCounted
<1> HIDE DEF S, q
<1>5. Cardinality(S) <= FailedOf(Metrics!Taken(buckets, now, Ring))
  BY <1>2, <1>4, WithinWindow
<1>6. QED
  BY <1>5 DEF S

\* So are the failures whose line is in the log.
LEMMA LinesWithin ==
  ASSUME MetricsOK, CountsOK, RequestsOK, TypeOK, NEW now \in Nat
  PROVE  Cardinality({k \in Keys : accounted[k] > 0 /\ written[k] \in StillKept(now, Ring)})
           <= FailedOf(Metrics!Taken(buckets, now, Ring))
<1> DEFINE S == {k \in Keys : accounted[k] > 0 /\ written[k] \in StillKept(now, Ring)}
<1>1. clock \in Nat /\ clock <= MaxClock /\ written \in [Keys -> 0 .. clock] /\ MaxClock \in Nat
  BY MetricsConstants DEF TypeOK, RequestsOK, StampsLate
<1>2. IsFiniteSet(S)
  <2>1. S \in SUBSET Keys
    OBVIOUS
  <2>2. QED
    BY <2>1, FS_Subset, MetricsConstants
<1>3. ASSUME NEW s \in Seconds, s > clock - Ring
      PROVE  Cardinality({k \in S : written[k] = s}) <= FailedIn(s)
  <2>1. {k \in S : written[k] = s} \subseteq LinesAt(s)
    BY DEF LinesAt
  <2>2. /\ IsFiniteSet(LinesAt(s)) /\ Cardinality(LinesAt(s)) \in Nat
        /\ Cardinality(Asking(s)) \in Nat
    BY LinesFinite
  <2>3. Cardinality(LinesAt(s)) + Cardinality(Asking(s)) <= FailedIn(s) /\ FailedIn(s) \in Nat
    BY <1>1, <1>3, FailedPast DEF CountsOK, LinesCounted
  <2> HIDE DEF S
  <2>4. /\ Cardinality({k \in S : written[k] = s}) <= Cardinality(LinesAt(s))
        /\ IsFiniteSet({k \in S : written[k] = s})
    BY <2>1, <2>2, FS_Subset
  <2>5. Cardinality({k \in S : written[k] = s}) \in Nat
    BY <2>4, FS_CardinalityType
  <2>6. QED
    BY <2>2, <2>3, <2>4, <2>5
<1>4. \A k \in S : written[k] \in StillKept(now, Ring) /\ written[k] \in Seconds
  BY <1>1 DEF Seconds
<1>5. Within(S, written, now)
  BY <1>3, <1>4 DEF Within
<1> HIDE DEF S
<1>6. Cardinality(S) <= FailedOf(Metrics!Taken(buckets, now, Ring))
  BY <1>1, <1>2, <1>5, WithinWindow DEF CountsOK
<1>7. QED
  BY <1>6 DEF S

\* While the list has room it has every failure of the window.
LEMMA WindowListed ==
  ASSUME MetricsOK, ErrorsCounted, clock \in Nat, NEW now \in Nat, Len(recent) < MaxRecent
  PROVE  FailedOf(Metrics!Taken(buckets, now, Ring))
           <= Cardinality({i \in DOMAIN recent : recent[i].now \in FirstSecond(now, Ring) .. now})
<1> DEFINE S == {i \in DOMAIN recent : recent[i].now \in FirstSecond(now, Ring) .. now}
           t == Metrics!Taken(buckets, now, Ring)
           f == [i \in t |-> buckets[i].results["failed"]]
           q == [x \in DOMAIN recent |-> recent[x].now % Ring]
<1>1. IsFiniteSet(t) /\ t \subseteq Metrics!Slots /\ PlacesOK /\ Typed /\ recent \in Seq(Errors)
  BY TakenFinite DEF MetricsOK, PlacesOK
<1>2. IsFiniteSet(S)
  <2>1. S \in SUBSET (1 .. Len(recent))
    BY <1>1
  <2>2. IsFiniteSet(1 .. Len(recent))
    BY FS_Interval, <1>1
  <2>3. QED
    BY <2>1, <2>2, FS_Subset
<1>3. Counts(f, t)
  BY <1>1 DEF Counts, Typed, Metrics!Buckets, Metrics!Results
<1>4. ASSUME NEW i \in t
      PROVE  f[i] <= Cardinality({x \in S : q[x] = i})
  <2>1. buckets[i].second \in Int /\ i \in Metrics!Slots
    BY <1>1 DEF Typed, Metrics!Buckets
  <2>2. now - Ring + 1 <= buckets[i].second /\ buckets[i].second <= now
    BY DEF Metrics!Taken, Metrics!InWindow
  <2>3. buckets[i].second \in FirstSecond(now, Ring) .. now /\ buckets[i].second # -Ring
    BY <2>1, <2>2, MetricsConstants DEF FirstSecond
  <2>4. buckets[i].second % Ring = i
    BY <1>1, <2>1, <2>3 DEF PlacesOK
  <2>5. PlacesOf(recent, buckets[i].second) \subseteq {x \in S : q[x] = i}
    BY <2>3, <2>4 DEF PlacesOf
  <2>6. f[i] <= Cardinality(PlacesOf(recent, buckets[i].second)) /\ f[i] \in Nat
    BY <1>3, <2>1 DEF ErrorsCounted, Counts
  <2> HIDE DEF S, q
  <2>7. {x \in S : q[x] = i} \in SUBSET S
    OBVIOUS
  <2>8. IsFiniteSet({x \in S : q[x] = i}) /\ Cardinality({x \in S : q[x] = i}) \in Nat
    BY <1>2, <2>7, FS_Subset, FS_CardinalityType
  <2>9. Cardinality(PlacesOf(recent, buckets[i].second)) <= Cardinality({x \in S : q[x] = i})
    BY <2>5, <2>8, FS_Subset
  <2>10. Cardinality(PlacesOf(recent, buckets[i].second)) \in Nat
    BY <1>1, PlacesFinite
  <2>11. QED
    BY <2>6, <2>8, <2>9, <2>10
<1> HIDE DEF S, t, f, q
<1>5. SumFunctionOnSet(f, t) <= Cardinality(S)
  BY <1>1, <1>2, <1>3, <1>4, SumFewerThan
<1>6. QED
  BY <1>5 DEF S, t, f, FailedOf

\* When there are failures, a host with some is listed.
LEMMA FailureListed ==
  ASSUME NEW hosts \in [Metrics!Names -> [requests : Nat, errors : Nat]],
         \A h \in Metrics!Names : hosts[h].errors <= hosts[h].requests,
         SumFunctionOnSet([h \in Metrics!Names |-> hosts[h].errors], Metrics!Names) > 0,
         NEW listed \in Metrics!ListedHosts(hosts)
  PROVE  \E h \in listed : hosts[h].errors > 0
<1> DEFINE e == [h \in Metrics!Names |-> hosts[h].errors]
           rows == {h \in Metrics!Names : hosts[h].requests > 0}
<1>1. \E h \in Metrics!Names : e[h] > 0
  <2>1. SUFFICES ASSUME \A h \in Metrics!Names : ~(e[h] > 0) PROVE FALSE
    OBVIOUS
  <2>2. \A h \in Metrics!Names : e[h] = 0
    BY <2>1
  <2>3. SumFunctionOnSet(e, Metrics!Names) > 0
    OBVIOUS
  <2> HIDE DEF e
  <2>4. QED
    BY <2>2, <2>3, NamesFinite, SumZero
<1>2. PICK h \in Metrics!Names : hosts[h].errors > 0
  BY <1>1
<1>3. h \in rows
  BY <1>2
<1>4. /\ listed \subseteq rows
      /\ Cardinality(listed) = Metrics!Min({MaxShown, Cardinality(rows)})
      /\ \A g \in listed, x \in rows \ listed : Metrics!ListedBefore(hosts, g, x)
  BY SizesAgree DEF Metrics!ListedHosts
<1>5. rows \in SUBSET Metrics!Names
  OBVIOUS
<1> HIDE DEF rows
<1>6. IsFiniteSet(rows) /\ Cardinality(rows) \in Nat /\ Cardinality(rows) # 0
  BY <1>3, <1>5, NamesFinite, FS_Subset, FS_CardinalityType, FS_EmptySet
<1>7. Metrics!Min({MaxShown, Cardinality(rows)}) # 0
  <2>1. \E x \in {MaxShown, Cardinality(rows)} :
          \A y \in {MaxShown, Cardinality(rows)} : x <= y
    BY <1>6, MetricsConstants
  <2>2. Metrics!Min({MaxShown, Cardinality(rows)}) \in {MaxShown, Cardinality(rows)}
    BY <2>1 DEF Metrics!Min
  <2>3. QED
    BY <1>6, <2>2, MetricsConstants
<1>8. listed # {}
  BY <1>4, <1>7, FS_EmptySet
<1>9. QED
  <2>1. CASE h \in listed
    BY <1>2, <2>1
  <2>2. CASE h \notin listed
    <3>1. PICK g \in listed : TRUE
      BY <1>8
    <3>2. Metrics!ListedBefore(hosts, g, h)
      BY <1>3, <1>4, <2>2
    <3>3. hosts[g].errors > 0
      BY <1>2, <3>2 DEF Metrics!ListedBefore
    <3>4. QED
      BY <3>3
  <2>3. QED
    BY <2>1, <2>2

\* What a page shows is of one state of the metrics.
Shows(t, order) ==
  /\ t = Metrics!Taken(buckets, page.now, Ring)
  /\ order \in Metrics!Orders
  /\ page.now \in Nat /\ page'.now = page.now
  /\ page'.windows = [n \in Windows |-> Metrics!Aggregate(buckets, page.now, n)]
  /\ page'.hosts = Metrics!AggregateHosts(buckets, t, order)
  /\ page'.listed \in Metrics!ListedHosts(page'.hosts)
  /\ page'.recent = recent

\* A step of snapshot is a step Shows.
LEMMA SnapshotStep ==
  ASSUME PageOK, Snapshot
  PROVE  \E t, order : Shows(t, order)
<1>1. page.op = "snapshot" /\ page.now \in Nat
  BY DEF Snapshot, PageOK, Pages, Idle
<1> DEFINE t == Metrics!Taken(buckets, page.now, Ring)
<1>2. PICK order, hosts, listed :
        /\ order \in Metrics!Orders
        /\ hosts = Metrics!AggregateHosts(buckets, t, order)
        /\ listed \in Metrics!ListedHosts(hosts)
        /\ page' = [op |-> "shown", now |-> page.now,
                    windows |-> [n \in Windows |-> Metrics!Aggregate(buckets, page.now, n)],
                    hosts |-> hosts, listed |-> listed, recent |-> recent]
  BY DEF Snapshot
<1>3. Shows(t, order)
  BY <1>1, <1>2 DEF Shows
<1>4. QED
  BY <1>3

\* A sum over all arguments of a function.
LEMMA SumOfAll ==
  ASSUME NEW S, NEW f, DOMAIN f = S
  PROVE  SumFunction(f) = SumFunctionOnSet(f, S)
BY DEF SumFunction

\* The figures of a page agree with one another.
LEMMA PageFigures ==
  ASSUME ObsInv, CountsOK, NEW t, NEW order, Shows(t, order)
  PROVE  /\ \A n \in Windows :
              page'.windows[n].requests = SumFunction(page'.windows[n].results)
         /\ SumFunction([h \in Metrics!Names |-> page'.hosts[h].requests])
              = page'.windows[Ring].requests
         /\ SumFunction([h \in Metrics!Names |-> page'.hosts[h].errors])
              = page'.windows[Ring].results["failed"]
         /\ page'.windows[Ring].results["failed"] > 0 =>
              \E h \in page'.listed : page'.hosts[h].errors > 0
         /\ page'.windows[Ring].results["failed"] = FailedOf(t)
<1>1. Typed /\ BucketsAddUp /\ page.now \in Nat
  BY DEF ObsInv, MetricsOK, PlacesOK, CountsOK, Shows
<1>2. \A n \in Windows : n \in 1 .. Ring /\ page'.windows[n] = Metrics!Aggregate(buckets, page.now, n)
  BY MetricsConstants DEF Shows
<1>3. ASSUME NEW n \in Windows
      PROVE  page'.windows[n].requests = SumFunction(page'.windows[n].results)
  <2> DEFINE a == page'.windows[n]
  <2>1. a = Metrics!Aggregate(buckets, page.now, n) /\ n \in 1 .. Ring
    BY <1>2
  <2> HIDE DEF a
  <2>2. a.requests = SumFunctionOnSet(a.results, Metrics!Results)
    BY <1>1, <2>1, WindowAddsUp
  <2>3. a.results \in [Metrics!Results -> Nat]
    <3>1. a \in [requests : Nat, results : [Metrics!Results -> Nat]]
      BY <1>1, <2>1, AggregateTotals
    <3>2. QED
      BY <3>1
  <2>4. a.requests = SumFunction(a.results)
    BY <2>2, <2>3, SumOfAll
  <2>5. QED
    BY <2>4 DEF a
<1> DEFINE widest == page'.windows[Ring]
           hosts == page'.hosts
<1>4. t \subseteq Metrics!Slots /\ IsFiniteSet(t)
  BY TakenFinite DEF Shows
<1>5. hosts = Metrics!AggregateHosts(buckets, t, order) /\ order \in Metrics!Orders
  BY DEF Shows
<1>6. widest = Metrics!Aggregate(buckets, page.now, Ring) /\ Ring \in 1 .. Ring
      /\ t = Metrics!Taken(buckets, page.now, Ring)
  BY <1>2, MetricsConstants DEF Shows
<1>7. hosts \in [Metrics!Names -> [requests : Nat, errors : Nat]]
  BY <1>1, <1>4, <1>5, RowTotals
<1>8. /\ widest.requests = SumFunctionOnSet([i \in t |-> buckets[i].requests], t)
      /\ widest.results["failed"] = FailedOf(t)
  <2>1. /\ widest.requests = SumFunctionOnSet([i \in t |-> buckets[i].requests], t)
        /\ \A r \in Metrics!Results :
             widest.results[r] = SumFunctionOnSet([i \in t |-> buckets[i].results[r]], t)
    BY <1>1, <1>6, AggregateTotals
  <2>2. "failed" \in Metrics!Results
    BY DEF Metrics!Results
  <2>3. QED
    BY <2>1, <2>2 DEF FailedOf
<1> HIDE DEF widest, hosts
<1>9. /\ SumFunctionOnSet([h \in Metrics!Names |-> hosts[h].requests], Metrics!Names)
           = SumFunctionOnSet([i \in t |-> buckets[i].requests], t)
      /\ SumFunctionOnSet([h \in Metrics!Names |-> hosts[h].errors], Metrics!Names) = FailedOf(t)
      /\ \A h \in Metrics!Names : hosts[h].errors <= hosts[h].requests
  BY <1>1, <1>4, <1>5, HostsAddUp DEF FailedOf
<1>10. /\ SumFunction([h \in Metrics!Names |-> hosts[h].requests])
            = SumFunctionOnSet([h \in Metrics!Names |-> hosts[h].requests], Metrics!Names)
       /\ SumFunction([h \in Metrics!Names |-> hosts[h].errors])
            = SumFunctionOnSet([h \in Metrics!Names |-> hosts[h].errors], Metrics!Names)
  BY SumOfAll
<1>11. ASSUME widest.results["failed"] > 0
       PROVE  \E h \in page'.listed : hosts[h].errors > 0
  <2>1. page'.listed \in Metrics!ListedHosts(hosts)
    BY DEF Shows, hosts
  <2>2. SumFunctionOnSet([h \in Metrics!Names |-> hosts[h].errors], Metrics!Names) > 0
    BY <1>8, <1>9, <1>11
  <2>3. QED
    BY <1>7, <1>9, <2>1, <2>2, FailureListed
<1>12. QED
  BY <1>3, <1>8, <1>9, <1>10, <1>11 DEF widest, hosts

\* PageAgrees of the specification: whatever one page of snapshot shows is of one state.
\* Its results and its hosts add up to its requests, the recent errors are the failures it
\* counts, a host that failed is among those it lists, and no line is in the log whose
\* failure it does not count.
THEOREM PagesAgree == ObsSpec => PageAgrees
<1> DEFINE Agree ==
      page'.op = "shown" /\ page' # page =>
       LET widest == page'.windows[Ring]
           failed == widest.results["failed"]
           listed(seconds) == {i \in DOMAIN page'.recent : page'.recent[i].now \in seconds}
           logged == {k \in Keys : accounted[k] > 0 /\ written[k] \in StillKept(page.now, Ring)}
       IN /\ \A n \in Windows :
               page'.windows[n].requests =
                 SumFunction(page'.windows[n].results)
          /\ SumFunction([h \in Metrics!Names |-> page'.hosts[h].requests]) = widest.requests
          /\ SumFunction([h \in Metrics!Names |-> page'.hosts[h].errors]) = failed
          /\ failed > 0 => \E h \in page'.listed : page'.hosts[h].errors > 0
          /\ Cardinality(listed(StillKept(page.now, Ring))) <= failed
          /\ Len(page'.recent) < MaxRecent =>
               failed <= Cardinality(listed(FirstSecond(page.now, Ring) .. page.now))
          /\ Cardinality(logged) <= failed
<1>1. ObsInv /\ CountsOK /\ [ObsNext]_obsVars => [Agree]_obsVars
  <2> SUFFICES ASSUME ObsInv, CountsOK, ObsNext PROVE Agree
    OBVIOUS
  <2>1. CASE Snapshot
    <3>1. PICK t, order : Shows(t, order)
      BY <2>1, SnapshotStep DEF ObsInv
    <3>2. MetricsOK /\ RequestsOK /\ TypeOK /\ clock \in Nat /\ BucketsAddUp /\ ErrorsCounted
          /\ page.now \in Nat /\ page'.recent = recent
          /\ t = Metrics!Taken(buckets, page.now, Ring)
      BY <3>1 DEF ObsInv, IInv, TypeOK, CountsOK, Shows
    <3>3. Cardinality({i \in DOMAIN recent : recent[i].now \in StillKept(page.now, Ring)}) <= FailedOf(t)
      BY <3>2, KeptErrorsWithin
    <3>4. Len(recent) < MaxRecent =>
            FailedOf(t) <= Cardinality({i \in DOMAIN recent :
                                          recent[i].now \in FirstSecond(page.now, Ring) .. page.now})
      BY <3>2, WindowListed
    <3>5. Cardinality({k \in Keys : accounted[k] > 0 /\ written[k] \in StillKept(page.now, Ring)})
            <= FailedOf(t)
      BY <3>2, LinesWithin
    <3>6. QED
      BY <3>1, <3>2, <3>3, <3>4, <3>5, PageFigures
  <2>2. CASE ~Snapshot
    <3>1. page' = page \/ page'.op # "shown"
      <4>1. CASE Ask
        BY <4>1 DEF Ask
      <4>2. CASE Summarize
        BY <4>2 DEF Summarize
      <4>3. CASE ~(Ask \/ Summarize)
        BY <2>2, <4>3 DEF ObsNext, CompleteFailed, CompleteOther, CompleteWith, Record, Log, ObsTick
      <4>4. QED
        BY <4>1, <4>2, <4>3
    <3>2. QED
      BY <3>1
  <2>3. QED
    BY <2>1, <2>2
<1>2. QED
  BY <1>1, InitiallyObsInv, StepKeepsObsInv, InitiallyLines, StepKeepsLines, PTL
     DEF ObsSpec, PageAgrees
===============================================================================
