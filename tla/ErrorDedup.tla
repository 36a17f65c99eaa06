------------------------------ MODULE ErrorDedup ------------------------------
(***************************************************************************)
(* Which failures get a line in the log: shouldEmitFailure of               *)
(* internal/proxy/observability.go with its table of recent error keys.     *)
(* The first failure of a key gets a line; the next ones are counted and    *)
(* reported as repeats_suppressed by the first line after the interval.     *)
(* The table holds maxDedupKeys keys: a new key in a full table takes the   *)
(* place of the one whose line is the oldest.                               *)
(*                                                                         *)
(* The stamp is the observation's time, read in completeRequest before      *)
(* dedupMu is taken, so the sections may run in another order than their    *)
(* stamps.  A key stands for the text of failureDedupKey.                   *)
(***************************************************************************)
EXTENDS Naturals, FiniteSets

CONSTANTS Keys,
          Workers,     \* the goroutines that end with a failure
          Interval,    \* errorDedupInterval; 0 switches the suppression off
          MaxKeys,     \* maxDedupKeys
          MaxClock,    \* bound on the clock, for model checking only
          MaxRepeats   \* bound on the failures of a key, for model checking only

ASSUME ConstantsAssumption ==
  /\ Interval \in Nat
  /\ MaxKeys \in Nat \ {0}
  /\ MaxClock \in Nat
  /\ MaxRepeats \in Nat
  /\ IsFiniteSet(Keys)
  /\ IsFiniteSet(Workers)

VARIABLES clock,      \* what s.now() returns
          known,      \* the keys in s.dedup
          last,       \* dedupState.last of the known keys
          suppressed, \* dedupState.suppressed of the known keys
          call,       \* the failure a goroutine is about to log
          failures,   \* history: the failures of each key
          accounted,  \* history: those that a line stands for, itself or as a repeat
          dropped,    \* history: those whose count went with an evicted entry
          written     \* history: the stamp of each key's last line

table == <<known, last, suppressed>>
history == <<failures, accounted, dropped, written>>
vars == <<clock, table, call, history>>

Idle == [op |-> "idle"]

Calls == {Idle} \cup [op : {"emit"}, key : Keys, now : Nat]

\* The types, and the limit of the table: between two calls shouldEmitFailure
\* leaves no more than maxDedupKeys entries.
TypeOK == /\ clock \in Nat
          /\ known \subseteq Keys /\ Cardinality(known) <= MaxKeys
          /\ last \in [Keys -> 0 .. clock]
          /\ suppressed \in [Keys -> Nat]
          /\ call \in [Workers -> Calls]
          /\ failures \in [Keys -> Nat]
          /\ accounted \in [Keys -> Nat]
          /\ dropped \in [Keys -> Nat]
          /\ written \in [Keys -> 0 .. clock]

Init == /\ clock = 0
        /\ known = {}
        /\ last = [k \in Keys |-> 0]
        /\ suppressed = [k \in Keys |-> 0]
        /\ call = [w \in Workers |-> Idle]
        /\ failures = [k \in Keys |-> 0]
        /\ accounted = [k \in Keys |-> 0]
        /\ dropped = [k \in Keys |-> 0]
        /\ written = [k \in Keys |-> 0]

-------------------------------------------------------------------------------
\* completeRequest takes the time of the failure.
Begin(w) ==
  /\ call[w] = Idle
  /\ \E k \in Keys :
       /\ failures[k] < MaxRepeats
       /\ call' = [call EXCEPT ![w] = [op |-> "emit", key |-> k, now |-> clock]]
       /\ failures' = [failures EXCEPT ![k] = @ + 1]
  /\ UNCHANGED <<clock, table, accounted, dropped, written>>

Emitting(w, k) == call[w] # Idle /\ call[w].key = k

\* A line with the repeats since the key's last one.
WriteLine(k, now, repeats) ==
  /\ accounted' = [accounted EXCEPT ![k] = @ + 1 + repeats]
  /\ written' = [written EXCEPT ![k] = now]

Oldest == {k \in known : \A other \in known : last[k] <= last[other]}

\* The table makes room; of several oldest keys the order of the map decides.
Enter(k) ==
  IF Cardinality(known) >= MaxKeys
  THEN \E old \in Oldest : /\ known' = (known \ {old}) \cup {k}
                           /\ dropped' = [dropped EXCEPT ![old] = @ + suppressed[old]]
  ELSE known' = known \cup {k} /\ UNCHANGED dropped

\* A key that is not in the table.
EmitNew(w, k) ==
  /\ Emitting(w, k)
  /\ k \notin known
  /\ Enter(k)
  /\ last' = [last EXCEPT ![k] = call[w].now]
  /\ suppressed' = [suppressed EXCEPT ![k] = 0]
  /\ WriteLine(k, call[w].now, 0)
  /\ call' = [call EXCEPT ![w] = Idle]
  /\ UNCHANGED <<clock, failures>>

Due(k, now) == Interval = 0 \/ now >= last[k] + Interval

EmitAgainKeepsCount(w, k) ==
  /\ Emitting(w, k)
  /\ k \in known
  /\ Due(k, call[w].now)
  /\ last' = [last EXCEPT ![k] = call[w].now]
  /\ WriteLine(k, call[w].now, suppressed[k])
  /\ call' = [call EXCEPT ![w] = Idle]
  /\ UNCHANGED <<clock, known, suppressed, failures, dropped>>

\* A key whose last line is old enough.
EmitAgain(w, k) ==
  /\ Emitting(w, k)
  /\ k \in known
  /\ Due(k, call[w].now)
  /\ last' = [last EXCEPT ![k] = call[w].now]
  /\ suppressed' = [suppressed EXCEPT ![k] = 0]
  /\ WriteLine(k, call[w].now, suppressed[k])
  /\ call' = [call EXCEPT ![w] = Idle]
  /\ UNCHANGED <<clock, known, failures, dropped>>

SuppressTouches(w, k) ==
  /\ Emitting(w, k)
  /\ k \in known
  /\ ~Due(k, call[w].now)
  /\ last' = [last EXCEPT ![k] = call[w].now]
  /\ suppressed' = [suppressed EXCEPT ![k] = @ + 1]
  /\ call' = [call EXCEPT ![w] = Idle]
  /\ UNCHANGED <<clock, known, history>>

\* A repeat within the interval, or one whose stamp is older than the line.
Suppress(w, k) ==
  /\ Emitting(w, k)
  /\ k \in known
  /\ ~Due(k, call[w].now)
  /\ suppressed' = [suppressed EXCEPT ![k] = @ + 1]
  /\ call' = [call EXCEPT ![w] = Idle]
  /\ UNCHANGED <<clock, known, last, history>>

Tick == /\ clock < MaxClock
        /\ clock' = clock + 1
        /\ UNCHANGED <<table, call, history>>

Next == \/ \E w \in Workers : \/ Begin(w)
                              \/ \E k \in Keys : EmitNew(w, k) \/ EmitAgain(w, k) \/ Suppress(w, k)
        \/ Tick

Spec == Init /\ [][Next]_vars

-------------------------------------------------------------------------------
InFlight(k) == {w \in Workers : Emitting(w, k)}

\* Every failure is accounted for: a line stands for it, or its key's entry still
\* counts it, or it went when a full table evicted the entry, or its goroutine has
\* yet to log it.  repeats_suppressed never reports one twice.
FailuresAccounted ==
  \A k \in Keys :
    failures[k] = accounted[k] + dropped[k]
                  + (IF k \in known THEN suppressed[k] ELSE 0) + Cardinality(InFlight(k))

\* With the suppression on, two lines of one key are the interval apart, by
\* their stamps, whatever order the goroutines come in and whatever was
\* suppressed between them, unless the key was evicted in between.
LinesApart ==
  [][\A k \in known : Interval > 0 /\ accounted'[k] > accounted[k]
                      => written'[k] >= written[k] + Interval]_vars
===============================================================================
