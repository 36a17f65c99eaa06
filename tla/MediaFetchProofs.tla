---------------------------- MODULE MediaFetchProofs ---------------------------
(***************************************************************************)
(* For any number of media requests that walk their lists side by side,     *)
(* whatever the lists are, what their candidates answer and when their      *)
(* clients leave: a player is served the first acceptable answer, and the   *)
(* diagnostics tell the story of each fetch as it went.                     *)
(***************************************************************************)
EXTENDS MediaFetch, TLAPS

\* Every request has its place, its list, its history and what was noted of it.
Domains ==
  /\ DOMAIN pc = Requests /\ DOMAIN list = Requests
  /\ DOMAIN tried = Requests /\ DOMAIN selected = Requests

\* The history is a sequence, whatever the list has put into it.
Recorded(r) == \E S : tried[r] \in Seq(S)

\* The attempts followed the list, and none but the last was acceptable.
Walked(r) ==
  /\ pc[r] \in {"new", "fetch", "served", "failed"}
  /\ pc[r] = "new" => tried[r] = <<>>
  /\ \A i \in 1 .. Len(tried[r]) :
       /\ tried[r][i].url = list[r][i]
       /\ Acceptable(tried[r][i]) => Done(r) /\ i = Len(tried[r])

\* The fetch has ended for one of three reasons, and was noted then.
Noted(r) ==
  LET last == tried[r][Len(tried[r])]
  IN IF Done(r)
     THEN /\ \/ Acceptable(last)
             \/ Len(tried[r]) = Len(list[r])
             \/ r \in cancelled
          /\ selected[r] = <<[attempts  |-> Len(tried[r]),
                              recovered |-> Len(tried[r]) > 1 /\ last.status = 200,
                              exhausted |-> /\ Len(tried[r]) = Len(list[r])
                                            /\ ~Acceptable(last)]>>
     ELSE selected[r] = <<>>

Story(r) == Recorded(r) /\ Walked(r) /\ Noted(r)

Inv == Domains /\ \A r \in Requests : Story(r)

-------------------------------------------------------------------------------
\* What one more element makes of a sequence.
LEMMA AppendMakes ==
  ASSUME NEW S, NEW s \in Seq(S), NEW x
  PROVE  /\ Append(s, x) \in Seq(S \cup {x})
         /\ Len(s) \in Nat /\ Len(Append(s, x)) = Len(s) + 1
         /\ Append(s, x)[Len(s) + 1] = x
         /\ \A i \in 1 .. Len(s) : Append(s, x)[i] = s[i]
  OBVIOUS

\* A step of one request, of its client or of the clock leaves the others alone.
LEMMA OthersGoOn ==
  ASSUME Domains, NEW q \in Requests, Story(q),
         pc'[q] = pc[q], list'[q] = list[q], tried'[q] = tried[q],
         selected'[q] = selected[q], cancelled \subseteq cancelled'
  PROVE  Story(q)'
<1>1. Recorded(q)'
  BY DEF Story, Recorded
<1>2. Done(q)' <=> Done(q)
  BY DEF Done
<1>3. Walked(q)'
  BY <1>2 DEF Story, Walked
<1>4. Noted(q)'
  BY <1>2 DEF Story, Noted
<1>5. QED
  BY <1>1, <1>3, <1>4 DEF Story

\* An attempt adds itself to the history, with the URL whose turn it was.
LEMMA AttemptAdds ==
  ASSUME Domains, NEW r \in Requests, Story(r), pc[r] = "fetch",
         NEW final, NEW status, Ended(r, final, status), UNCHANGED list
  PROVE  /\ Recorded(r)' /\ Len(tried[r]) \in Nat
         /\ Len(tried'[r]) = Index(r)
         /\ tried'[r][Index(r)].url = list'[r][Index(r)]
         /\ tried'[r][Index(r)].status = status
         /\ (Acceptable(tried'[r][Index(r)]) <=> ~Retryable(status) /\ status \notin {0, 499})
         /\ \A i \in 1 .. Len(tried[r]) : /\ tried'[r][i].url = list'[r][i]
                                          /\ ~Acceptable(tried'[r][i])
         /\ selected[r] = <<>>
<1> DEFINE a == [url |-> Target(r), final |-> final, status |-> status]
<1>1. PICK S : tried[r] \in Seq(S)
  BY DEF Story, Recorded
<1>2. tried'[r] = Append(tried[r], a)
  BY DEF Domains, Ended
<1>3. ~Done(r)
  BY DEF Done
<1> HIDE DEF a
<1>4. /\ tried'[r] \in Seq(S \cup {a})
      /\ Len(tried[r]) \in Nat /\ Len(tried'[r]) = Len(tried[r]) + 1
      /\ tried'[r][Len(tried[r]) + 1] = a
      /\ \A i \in 1 .. Len(tried[r]) : tried'[r][i] = tried[r][i]
  BY <1>1, <1>2, AppendMakes
<1>5. Recorded(r)'
  BY <1>4 DEF Recorded
<1>6. \A i \in 1 .. Len(tried[r]) : tried'[r][i].url = list'[r][i] /\ ~Acceptable(tried'[r][i])
  BY <1>3, <1>4 DEF Story, Walked
<1>7. a.url = list'[r][Index(r)]
  BY DEF a, Target
<1>8. selected[r] = <<>>
  BY <1>3 DEF Story, Noted
<1>9. a.status = status
  BY DEF a
<1>10. Acceptable(a) <=> ~Retryable(status) /\ status \notin {0, 499}
  BY <1>9 DEF Acceptable
<1>11. QED
  BY <1>4, <1>5, <1>6, <1>7, <1>8, <1>9, <1>10 DEF Index

\* An attempt that is not acceptable and after which the loop goes on.
LEMMA ContinueGoesOn ==
  ASSUME Domains, NEW r \in Requests, Story(r), pc[r] = "fetch",
         NEW final, NEW status, Ended(r, final, status), UNCHANGED list, Continue(r),
         Retryable(status) \/ status \in {0, 499}
  PROVE  Story(r)'
<1>1. pc'[r] = "fetch" /\ selected'[r] = selected[r]
  BY DEF Continue
<1>2. ~Done(r)'
  BY <1>1 DEF Done
<1>3. /\ Recorded(r)' /\ Len(tried[r]) \in Nat
      /\ Len(tried'[r]) = Index(r)
      /\ tried'[r][Index(r)].url = list'[r][Index(r)]
      /\ ~Acceptable(tried'[r][Index(r)])
      /\ \A i \in 1 .. Len(tried[r]) : /\ tried'[r][i].url = list'[r][i]
                                       /\ ~Acceptable(tried'[r][i])
      /\ selected[r] = <<>>
  BY AttemptAdds
<1>4. \A i \in 1 .. Len(tried'[r]) : tried'[r][i].url = list'[r][i] /\ ~Acceptable(tried'[r][i])
  BY <1>3 DEF Index
<1>5. Walked(r)'
  BY <1>1, <1>4 DEF Walked
<1>6. Noted(r)'
  BY <1>1, <1>2, <1>3 DEF Noted
<1>7. QED
  BY <1>3, <1>5, <1>6 DEF Story

\* An attempt with which the fetch ends, for a reason, and which is noted as it was.
LEMMA FinishGoesOn ==
  ASSUME Domains, NEW r \in Requests, Story(r), pc[r] = "fetch",
         NEW final, NEW status, Ended(r, final, status), UNCHANGED <<list, cancelled>>,
         NEW how \in {"served", "failed"}, NEW recovered, NEW exhausted,
         Finish(r, how, recovered, exhausted),
         recovered = (Index(r) > 1 /\ status = 200),
         exhausted = (AtLast(r) /\ (Retryable(status) \/ status \in {0, 499})),
         (~Retryable(status) /\ status \notin {0, 499}) \/ AtLast(r) \/ r \in cancelled
  PROVE  Story(r)'
<1>1. pc'[r] = how /\ Done(r)'
  BY DEF Domains, Finish, Done
<1>2. /\ Recorded(r)' /\ Len(tried[r]) \in Nat
      /\ Len(tried'[r]) = Index(r)
      /\ tried'[r][Index(r)].url = list'[r][Index(r)]
      /\ tried'[r][Index(r)].status = status
      /\ (Acceptable(tried'[r][Index(r)]) <=> ~Retryable(status) /\ status \notin {0, 499})
      /\ \A i \in 1 .. Len(tried[r]) : /\ tried'[r][i].url = list'[r][i]
                                       /\ ~Acceptable(tried'[r][i])
      /\ selected[r] = <<>>
  BY AttemptAdds
<1>3. selected'[r] = <<[attempts |-> Index(r), recovered |-> recovered,
                        exhausted |-> exhausted]>>
  <2>1. selected'[r] = Append(<<>>, [attempts |-> Index(r), recovered |-> recovered,
                                     exhausted |-> exhausted])
    BY <1>2 DEF Domains, Finish
  <2>2. \A x : Append(<<>>, x) = <<x>>
    OBVIOUS
  <2>3. QED
    BY <2>1, <2>2
<1>4. Walked(r)'
  <2>1. \A i \in 1 .. Len(tried'[r]) :
          /\ tried'[r][i].url = list'[r][i]
          /\ Acceptable(tried'[r][i]) => i = Len(tried'[r])
    BY <1>2 DEF Index
  <2>2. QED
    BY <1>1, <2>1 DEF Walked
<1>5. AtLast(r) <=> Len(tried'[r]) = Len(list'[r])
  BY <1>2 DEF AtLast
<1>6. Noted(r)'
  <2> DEFINE last == tried'[r][Index(r)]
  <2>1. \/ Acceptable(last)
        \/ Len(tried'[r]) = Len(list'[r])
        \/ r \in cancelled'
    BY <1>2, <1>5
  <2>2. recovered = (Len(tried'[r]) > 1 /\ last.status = 200)
    BY <1>2
  <2>3. exhausted = (Len(tried'[r]) = Len(list'[r]) /\ ~Acceptable(last))
    BY <1>2, <1>5
  <2>4. selected'[r] = <<[attempts |-> Len(tried'[r]),
                          recovered |-> (Len(tried'[r]) > 1 /\ last.status = 200),
                          exhausted |-> (Len(tried'[r]) = Len(list'[r]) /\ ~Acceptable(last))]>>
    BY <1>2, <1>3, <2>2, <2>3
  <2> HIDE DEF last
  <2>5. last = tried'[r][Len(tried'[r])]
    BY <1>2 DEF last
  <2>6. QED
    BY <1>1, <2>1, <2>4, <2>5 DEF Noted
<1>7. QED
  BY <1>2, <1>4, <1>6 DEF Story

-------------------------------------------------------------------------------
LEMMA StatusesAre == \A status \in Statuses : status \notin {0, 499}
  BY DEF Statuses

LEMMA ErrorsAreNotRetryable == ~Retryable(0) /\ ~Retryable(499)
  BY DEF Retryable

\* A request that starts has tried nothing.
LEMMA StartGoesOn ==
  ASSUME Domains, NEW r \in Requests, Story(r), pc[r] = "new", pc'[r] = "fetch",
         tried' = tried, selected' = selected
  PROVE  Story(r)'
<1>1. tried'[r] = <<>> /\ selected'[r] = <<>> /\ ~Done(r)'
  BY DEF Story, Walked, Noted, Done
<1>2. QED
  BY <1>1 DEF Story, Recorded, Walked, Noted

\* The step of a fetch is its own.
LEMMA OthersKept ==
  ASSUME Inv, NEW r \in Requests, NEW final, NEW status, Ended(r, final, status),
         UNCHANGED <<list, cancelled>>,
         NEW how, NEW recovered, NEW exhausted,
         Continue(r) \/ Finish(r, how, recovered, exhausted)
  PROVE  Domains' /\ \A q \in Requests \ {r} : Story(q)'
<1>1. /\ DOMAIN pc' = Requests /\ DOMAIN selected' = Requests
      /\ \A q \in Requests \ {r} : pc'[q] = pc[q] /\ selected'[q] = selected[q]
  BY DEF Inv, Domains, Continue, Finish
<1>2. /\ DOMAIN tried' = Requests
      /\ \A q \in Requests \ {r} : tried'[q] = tried[q]
  BY DEF Inv, Domains, Ended
<1>3. QED
  BY <1>1, <1>2, OthersGoOn DEF Inv, Domains

LEMMA Invariance == Spec => []Inv
<1>1. ASSUME Init PROVE Inv
  <2>1. Domains
    BY <1>1 DEF Init, Domains
  <2>2. ASSUME NEW r \in Requests
        PROVE  pc[r] = "new" /\ tried[r] = <<>> /\ selected[r] = <<>>
    BY <1>1 DEF Init
  <2>3. ASSUME NEW r \in Requests PROVE Story(r)
    <3>1. <<>> \in Seq({}) /\ Len(<<>>) = 0
      OBVIOUS
    <3>2. Recorded(r)
      BY <2>2, <3>1 DEF Recorded
    <3>3. Walked(r)
      BY <2>2, <3>1 DEF Walked
    <3>4. Noted(r)
      BY <2>2 DEF Noted, Done
    <3>5. QED
      BY <3>2, <3>3, <3>4 DEF Story
  <2>4. QED
    BY <2>1, <2>3 DEF Inv
<1>2. ASSUME Inv, [Next]_vars PROVE Inv'
  <2>1. ASSUME NEW r \in Requests,
               \E preferred \in 1 .. Len(Urls) : Start(r, preferred)
        PROVE  Inv'
    <3>1. /\ pc[r] = "new" /\ pc' = [pc EXCEPT ![r] = "fetch"]
          /\ tried' = tried /\ selected' = selected /\ cancelled' = cancelled
          /\ \E x : list' = [list EXCEPT ![r] = x]
      BY <2>1 DEF Start
    <3>2. Domains'
      BY <1>2, <3>1 DEF Inv, Domains
    <3>3. Story(r)'
      BY <1>2, <3>1, StartGoesOn DEF Inv, Domains
    <3>4. \A q \in Requests \ {r} : Story(q)'
      BY <1>2, <3>1, OthersGoOn DEF Inv, Domains
    <3>5. QED
      BY <3>2, <3>3, <3>4 DEF Inv
  <2>2. ASSUME NEW r \in Requests, StartDirect(r) PROVE Inv'
    <3>1. /\ pc[r] = "new" /\ pc' = [pc EXCEPT ![r] = "fetch"]
          /\ tried' = tried /\ selected' = selected /\ cancelled' = cancelled
          /\ \E x : list' = [list EXCEPT ![r] = x]
      BY <2>2 DEF StartDirect
    <3>2. Domains'
      BY <1>2, <3>1 DEF Inv, Domains
    <3>3. Story(r)'
      BY <1>2, <3>1, StartGoesOn DEF Inv, Domains
    <3>4. \A q \in Requests \ {r} : Story(q)'
      BY <1>2, <3>1, OthersGoOn DEF Inv, Domains
    <3>5. QED
      BY <3>2, <3>3, <3>4 DEF Inv
  <2>3. ASSUME NEW r \in Requests, AttemptError(r) PROVE Inv'
    <3>1. PICK why \in {0, 499} : Ended(r, Target(r), why)
      BY <2>3 DEF AttemptError
    <3>2. /\ pc[r] = "fetch" /\ list' = list /\ cancelled' = cancelled
          /\ IF r \in cancelled \/ AtLast(r)
             THEN Finish(r, "failed", FALSE, AtLast(r))
             ELSE Continue(r)
      BY <2>3 DEF AttemptError
    <3>3. CASE Continue(r)
      <4>1. Domains' /\ \A q \in Requests \ {r} : Story(q)'
        BY <1>2, <3>1, <3>2, <3>3, OthersKept
      <4>2. Story(r)'
        BY <1>2, <3>1, <3>2, <3>3, ContinueGoesOn DEF Inv
      <4>3. QED
        BY <4>1, <4>2 DEF Inv
    <3>4. CASE (r \in cancelled \/ AtLast(r)) /\ Finish(r, "failed", FALSE, AtLast(r))
      <4>1. PICK recovered \in BOOLEAN, exhausted \in BOOLEAN :
              /\ recovered = FALSE /\ (exhausted <=> AtLast(r))
              /\ Finish(r, "failed", recovered, exhausted)
        <5>1. AtLast(r) \in BOOLEAN /\ FALSE \in BOOLEAN
          BY DEF AtLast
        <5>2. QED
          BY <3>4, <5>1, Zenon
      <4>2. /\ recovered = (Index(r) > 1 /\ why = 200)
            /\ exhausted = (AtLast(r) /\ (Retryable(why) \/ why \in {0, 499}))
        BY <4>1
      <4>3. Domains' /\ \A q \in Requests \ {r} : Story(q)'
        BY <1>2, <3>1, <3>2, <4>1, OthersKept
      <4>4. Story(r)'
        BY <1>2, <3>1, <3>2, <3>4, <4>1, <4>2, FinishGoesOn DEF Inv
      <4>5. QED
        BY <4>3, <4>4 DEF Inv
    <3>5. QED
      BY <3>2, <3>3, <3>4
  <2>4. ASSUME NEW r \in Requests, AttemptServed(r) PROVE Inv'
    <3>1. PICK status \in Statuses, final \in {Target(r)} \cup Redirected,
               latency \in Latencies :
            /\ ~Retryable(status) \/ AtLast(r)
            /\ Ended(r, final, status)
            /\ Finish(r, "served", Index(r) > 1 /\ status = 200,
                      AtLast(r) /\ Retryable(status))
      BY <2>4 DEF AttemptServed
    <3>2. pc[r] = "fetch" /\ list' = list /\ cancelled' = cancelled
      BY <2>4 DEF AttemptServed
    <3>3. Domains' /\ \A q \in Requests \ {r} : Story(q)'
      BY <1>2, <3>1, <3>2, OthersKept
    <3>4. Story(r)'
      BY <1>2, <3>1, <3>2, StatusesAre, FinishGoesOn DEF Inv
    <3>5. QED
      BY <3>3, <3>4 DEF Inv
  <2>5. ASSUME NEW r \in Requests, AttemptRetried(r) PROVE Inv'
    <3>1. PICK status \in Statuses, final \in {Target(r)} \cup Redirected :
            Retryable(status) /\ Ended(r, final, status)
      BY <2>5 DEF AttemptRetried
    <3>2. pc[r] = "fetch" /\ list' = list /\ cancelled' = cancelled /\ Continue(r)
      BY <2>5 DEF AttemptRetried
    <3>3. Domains' /\ \A q \in Requests \ {r} : Story(q)'
      BY <1>2, <3>1, <3>2, OthersKept
    <3>4. Story(r)'
      BY <1>2, <3>1, <3>2, ContinueGoesOn DEF Inv
    <3>5. QED
      BY <3>3, <3>4 DEF Inv
  <2>6. ASSUME \/ \E r \in Requests : Cancel(r)
               \/ Tick
               \/ UNCHANGED vars
        PROVE  Inv'
    <3>1. /\ pc' = pc /\ list' = list /\ tried' = tried /\ selected' = selected
          /\ cancelled \subseteq cancelled'
      BY <2>6 DEF Cancel, Tick, vars
    <3>2. QED
      BY <1>2, <3>1, OthersGoOn DEF Inv, Domains
  <2>7. QED
    BY <1>2, <2>1, <2>2, <2>3, <2>4, <2>5, <2>6 DEF Next
<1>3. QED
  BY <1>1, <1>2, PTL DEF Spec

-------------------------------------------------------------------------------
\* A player is served the first acceptable answer of its list, and sees a failure of
\* a candidate only after all of them or when it has left (fetchMediaCandidates).
THEOREM FirstAcceptableIsServed == Spec => []ServedFirstAcceptable
<1>1. ASSUME Inv, NEW r \in Requests
      PROVE  /\ \A i \in DOMAIN tried[r] : tried[r][i].url = list[r][i]
             /\ \A i \in DOMAIN tried[r] :
                  Acceptable(tried[r][i]) => Done(r) /\ i = Len(tried[r])
             /\ Done(r) => \/ Acceptable(tried[r][Len(tried[r])])
                           \/ Len(tried[r]) = Len(list[r])
                           \/ r \in cancelled
  <2>1. Recorded(r) /\ Walked(r) /\ Noted(r)
    BY <1>1 DEF Inv, Story
  <2>2. DOMAIN tried[r] = 1 .. Len(tried[r])
    BY <2>1 DEF Recorded
  <2>3. QED
    BY <2>1, <2>2 DEF Walked, Noted
<1>2. Inv => ServedFirstAcceptable
  BY <1>1 DEF ServedFirstAcceptable
<1>3. QED
  BY <1>2, Invariance, PTL

\* What recordCandidateSelection is told of a fetch is what has happened in it, once
\* and at its end.
THEOREM SelectionsAreHonest == Spec => []SelectionHonest
<1>1. Inv => SelectionHonest
  BY DEF Inv, Story, Noted, SelectionHonest
<1>2. QED
  BY <1>1, Invariance, PTL
-------------------------------------------------------------------------------
\* What is proved of the table and of the order of a list is about constants only:
\* it holds here as well, where there is no Workers' call to follow.
Ranking == INSTANCE CandidateHealthProofs
             WITH Workers <- {}, MaxCalls <- 0, call <- <<>>, calls <- 0

\* No attempt without a candidate; and the list of a request for the group has every
\* URL of the group in it, none before one of a lower risk.
InOrder(r) ==
  /\ list[r] \in Seq(Candidates)
  /\ Len(tried[r]) <= Len(list[r])
  /\ pc[r] = "fetch" => Len(tried[r]) < Len(list[r])
  /\ pc[r] # "new" /\ Len(list[r]) = Len(Urls) /\ Len(Urls) > 1
     => /\ \A i \in 1 .. Len(Urls) : \E p \in 1 .. Len(Urls) : list[r][p] = Urls[i]
        /\ \A p, q \in 1 .. Len(Urls) : p < q => Risk[list[r][p]] <= Risk[list[r][q]]

Orders == /\ clock \in Nat
          /\ DOMAIN table = Candidates /\ Ranking!Readable(table)
          /\ \A r \in Requests : InOrder(r)

LEMMA Assumed == Ranking!TableAssumption /\ Ranking!ConstantsAssumption
  BY TableAssumption, ConstantsAssumption
  DEF Ranking!TableAssumption, Ranking!ConstantsAssumption, IsFiniteSet, Ranking!IsFiniteSet

\* RankedGroup of CandidateHealthProofs, of the list that Start makes.
LEMMA RankedGroup ==
  ASSUME NEW t, Ranking!Readable(t), NEW now \in Nat, NEW preferred \in 1 .. Len(Urls)
  PROVE  LET ranked == Rank(t, now, MediaOrder(Urls, preferred))
         IN /\ ranked \in Seq(Candidates) /\ Len(ranked) = Len(Urls)
            /\ \A i \in 1 .. Len(Urls) : \E p \in 1 .. Len(Urls) : ranked[p] = Urls[i]
            /\ \A p, q \in 1 .. Len(Urls) : p < q => Risk[ranked[p]] <= Risk[ranked[q]]
<1>1. Ranking!MediaOrder(Urls, preferred) = MediaOrder(Urls, preferred)
  BY DEF Ranking!MediaOrder, MediaOrder, Ranking!Sorted, Sorted, Ranking!Appended, Appended,
         Ranking!LikelyCOS, LikelyCOS, Ranking!Cardinality, Cardinality
<1>2. \A urls : Ranking!Rank(t, now, urls) = Rank(t, now, urls)
  BY DEF Ranking!Rank, Rank, Ranking!Sorted, Sorted, Ranking!Less, Less,
         Ranking!Penalized, Penalized, Ranking!Cardinality, Cardinality
<1>3. Urls \in Seq(Candidates)
  BY ConstantsAssumption
<1> DEFINE listed == Ranking!MediaOrder(Urls, preferred)
           ranked == Ranking!Rank(t, now, listed)
<1>4. /\ ranked \in Seq(Candidates) /\ Len(ranked) = Len(Urls)
      /\ \A i \in 1 .. Len(Urls) : \E p \in 1 .. Len(Urls) : ranked[p] = Urls[i]
      /\ \A p, q \in 1 .. Len(Urls) : p < q => Risk[ranked[p]] <= Risk[ranked[q]]
  BY <1>3, Assumed, Ranking!RankedGroup
<1>5. ranked = Rank(t, now, MediaOrder(Urls, preferred))
  BY <1>1, <1>2
<1> HIDE DEF ranked
<1>6. QED
  BY <1>4, <1>5

\* The table stays readable, whatever is recorded in it and pruned from it.
LEMMA RecordsAreReadable ==
  ASSUME NEW t, DOMAIN t = Candidates, Ranking!Readable(t), NEW now,
         NEW left \in PrunedHealth(t, now)
  PROVE  DOMAIN left = Candidates /\ Ranking!Readable(left)
<1>1. PICK kept : left = [c \in Candidates |-> IF c \in kept THEN t[c] ELSE Unobserved]
  BY DEF PrunedHealth
<1>2. QED
  BY <1>1 DEF Ranking!Readable, Unobserved

\* A recorded success or failure leaves a readable table before and after the prune.
LEMMA FailuresAreReadable ==
  ASSUME Orders, NEW c, NEW status, RecordFailure(c, status)
  PROVE  DOMAIN table' = Candidates /\ Ranking!Readable(table')
<1> DEFINE t == [table EXCEPT ![c] = AfterFailure(@, status, clock)]
<1>1. DOMAIN t = Candidates /\ Ranking!Readable(t)
  BY DEF Orders, Ranking!Readable, AfterFailure
<1>2. table' \in PrunedHealth(t, clock)
  BY DEF RecordFailure
<1> HIDE DEF t
<1>3. QED
  BY <1>1, <1>2, RecordsAreReadable

LEMMA SuccessesAreReadable ==
  ASSUME Orders, NEW c, NEW latency \in Latencies, RecordSuccess(c, latency)
  PROVE  DOMAIN table' = Candidates /\ Ranking!Readable(table')
<1> DEFINE t == [table EXCEPT ![c] = AfterSuccess(@, latency, clock)]
<1>1. \A d \in Candidates : Ewma(table[d].ewma, latency) \in Nat
  BY TableAssumption DEF Orders, Ranking!Readable, Ewma
<1>2. DOMAIN t = Candidates /\ Ranking!Readable(t)
  BY <1>1 DEF Orders, Ranking!Readable, AfterSuccess
<1>3. table' \in PrunedHealth(t, clock)
  BY DEF RecordSuccess
<1> HIDE DEF t
<1>4. QED
  BY <1>2, <1>3, RecordsAreReadable

\* What an attempt does to the place of a request in its list.
LEMMA AttemptKeepsOrder ==
  ASSUME Inv, Orders, NEW r \in Requests, pc[r] = "fetch", NEW final, NEW status,
         Ended(r, final, status), UNCHANGED list,
         NEW how \in {"served", "failed"}, NEW recovered, NEW exhausted,
         \/ ~AtLast(r) /\ Continue(r)
         \/ Finish(r, how, recovered, exhausted)
  PROVE  \A q \in Requests : InOrder(q)'
<1>1. /\ Len(tried[r]) \in Nat /\ Len(tried'[r]) = Len(tried[r]) + 1
      /\ \A q \in Requests \ {r} : tried'[q] = tried[q] /\ pc'[q] = pc[q]
  <2>1. Len(tried[r]) \in Nat /\ Len(tried'[r]) = Index(r)
    BY AttemptAdds DEF Inv
  <2>2. \A q \in Requests \ {r} : tried'[q] = tried[q] /\ pc'[q] = pc[q]
    BY DEF Inv, Domains, Ended, Continue, Finish
  <2>3. QED
    BY <2>1, <2>2 DEF Index
<1>2. \A q \in Requests \ {r} : InOrder(q)'
  BY <1>1 DEF Orders, InOrder
<1>3. Len(tried'[r]) <= Len(list'[r]) /\ (pc'[r] = "fetch" => Len(tried'[r]) < Len(list'[r]))
  <2>1. Len(list[r]) \in Nat /\ Len(tried[r]) < Len(list[r])
    BY DEF Orders, InOrder
  <2>2. CASE ~AtLast(r) /\ Continue(r)
    BY <1>1, <2>1, <2>2 DEF AtLast, Index
  <2>3. CASE Finish(r, how, recovered, exhausted)
    <3>1. pc'[r] # "fetch"
      BY <2>3 DEF Inv, Domains, Finish
    <3>2. QED
      BY <1>1, <2>1, <3>1
  <2>4. QED
    BY <2>2, <2>3
<1>4. InOrder(r)'
  BY <1>3 DEF Orders, InOrder
<1>5. QED
  BY <1>2, <1>4

LEMMA OrderInvariance == Spec => []Orders
<1>1. ASSUME Init PROVE Orders
  <2>1. clock \in Nat /\ DOMAIN table = Candidates /\ Ranking!Readable(table)
    BY <1>1 DEF Init, Ranking!Readable, Unobserved
  <2>2. ASSUME NEW r \in Requests PROVE InOrder(r)
    BY <1>1 DEF Init, InOrder
  <2>3. QED
    BY <2>1, <2>2 DEF Orders
<1>2. ASSUME Inv, Orders, [Next]_vars PROVE Orders'
  <2> clock \in Nat
    BY <1>2 DEF Orders
  <2>1. ASSUME NEW r \in Requests, NEW preferred \in 1 .. Len(Urls), Start(r, preferred)
        PROVE  Orders'
    <3>1. DOMAIN table' = Candidates /\ Ranking!Readable(table')
      <4>1. table' \in PrunedHealth(table, clock)
        BY <2>1 DEF Start
      <4>2. QED
        BY <1>2, <4>1, RecordsAreReadable DEF Orders
    <3> DEFINE ranked == Rank(table', clock, MediaOrder(Urls, preferred))
    <3>2. /\ ranked \in Seq(Candidates) /\ Len(ranked) = Len(Urls)
          /\ \A i \in 1 .. Len(Urls) : \E p \in 1 .. Len(Urls) : ranked[p] = Urls[i]
          /\ \A p, q \in 1 .. Len(Urls) : p < q => Risk[ranked[p]] <= Risk[ranked[q]]
      BY <3>1, RankedGroup
    <3>3. /\ list' = [list EXCEPT ![r] = ranked] /\ tried' = tried /\ clock' = clock
          /\ pc[r] = "new" /\ pc' = [pc EXCEPT ![r] = "fetch"]
      BY <2>1 DEF Start
    <3> HIDE DEF ranked
    <3>4. list'[r] = ranked /\ Len(tried'[r]) = 0 /\ Len(Urls) \in Nat \ {0}
      BY <1>2, <3>3, ConstantsAssumption DEF Inv, Domains, Story, Walked
    <3>5. InOrder(r)'
      <4>1. /\ list'[r] \in Seq(Candidates) /\ Len(list'[r]) = Len(Urls)
            /\ Len(tried'[r]) < Len(list'[r])
        BY <3>2, <3>4
      <4>2. /\ \A i \in 1 .. Len(Urls) : \E p \in 1 .. Len(Urls) : list'[r][p] = Urls[i]
            /\ \A p, q \in 1 .. Len(Urls) :
                 p < q => Risk[list'[r][p]] <= Risk[list'[r][q]]
        BY <3>2, <3>4
      <4>3. Len(tried'[r]) <= Len(list'[r])
        BY <3>4, <4>1
      <4>4. QED
        BY <4>1, <4>2, <4>3 DEF InOrder
    <3>6. \A q \in Requests \ {r} : InOrder(q)'
      BY <1>2, <3>3 DEF Inv, Domains, Orders, InOrder
    <3>7. QED
      BY <3>1, <3>3, <3>5, <3>6 DEF Orders
  <2>2. ASSUME NEW r \in Requests, StartDirect(r) PROVE Orders'
    <3>1. PICK c \in Direct : list' = [list EXCEPT ![r] = <<c>>]
      BY <2>2 DEF StartDirect
    <3>2. /\ table' = table /\ tried' = tried /\ clock' = clock
          /\ pc[r] = "new" /\ pc' = [pc EXCEPT ![r] = "fetch"]
      BY <2>2 DEF StartDirect
    <3>3. list'[r] = <<c>> /\ c \in Candidates /\ Len(tried'[r]) = 0
      BY <1>2, <3>1, <3>2, ConstantsAssumption DEF Inv, Domains, Story, Walked
    <3>4. InOrder(r)'
      <4>1. list'[r] \in Seq(Candidates) /\ Len(list'[r]) = 1
        BY <3>3
      <4>2. ~(Len(list'[r]) = Len(Urls) /\ Len(Urls) > 1)
        <5> SUFFICES ASSUME Len(Urls) = 1, Len(Urls) > 1 PROVE FALSE
          BY <4>1
        <5>1. 1 > 1
          BY Zenon
        <5>2. QED
          BY <5>1
      <4>3. Len(tried'[r]) <= Len(list'[r]) /\ Len(tried'[r]) < Len(list'[r])
        BY <3>3, <4>1
      <4>4. QED
        BY <4>1, <4>2, <4>3 DEF InOrder
    <3>5. \A q \in Requests \ {r} : InOrder(q)'
      BY <1>2, <3>1, <3>2 DEF Inv, Domains, Orders, InOrder
    <3>6. QED
      BY <1>2, <3>2, <3>4, <3>5 DEF Orders
  <2>3. ASSUME NEW r \in Requests, AttemptError(r) PROVE Orders'
    <3>1. PICK why \in {0, 499} : Ended(r, Target(r), why)
      BY <2>3 DEF AttemptError
    <3>2. /\ pc[r] = "fetch" /\ list' = list /\ clock' = clock
          /\ RecordFailure(Target(r), 0)
          /\ \/ ~AtLast(r) /\ Continue(r)
             \/ Finish(r, "failed", FALSE, AtLast(r))
      BY <2>3 DEF AttemptError
    <3>3. DOMAIN table' = Candidates /\ Ranking!Readable(table')
      BY <1>2, <3>2, FailuresAreReadable
    <3>4. \A q \in Requests : InOrder(q)'
      <4>1. PICK exhausted \in BOOLEAN : \/ ~AtLast(r) /\ Continue(r)
                                        \/ Finish(r, "failed", FALSE, exhausted)
        <5>1. AtLast(r) \in BOOLEAN
          BY DEF AtLast
        <5>2. QED
          BY <3>2, <5>1, Zenon
      <4>2. PICK recovered \in BOOLEAN : \/ ~AtLast(r) /\ Continue(r)
                                        \/ Finish(r, "failed", recovered, exhausted)
        BY <4>1, Zenon
      <4>3. QED
        BY <1>2, <3>1, <3>2, <4>2, AttemptKeepsOrder
    <3>5. QED
      BY <3>2, <3>3, <3>4 DEF Orders
  <2>4. ASSUME NEW r \in Requests, AttemptServed(r) PROVE Orders'
    <3>1. PICK status \in Statuses, final \in {Target(r)} \cup Redirected,
               latency \in Latencies :
            /\ ~Retryable(status) \/ AtLast(r)
            /\ Ended(r, final, status)
            /\ IF status = 200
               THEN RecordSuccess(final, latency)
               ELSE UNCHANGED table
            /\ Finish(r, "served", Index(r) > 1 /\ status = 200,
                      AtLast(r) /\ Retryable(status))
      BY <2>4 DEF AttemptServed
    <3>2. pc[r] = "fetch" /\ list' = list /\ clock' = clock
      BY <2>4 DEF AttemptServed
    <3>3. DOMAIN table' = Candidates /\ Ranking!Readable(table')
      BY <1>2, <3>1, SuccessesAreReadable DEF Orders
    <3>4. \A q \in Requests : InOrder(q)'
      BY <1>2, <3>1, <3>2, AttemptKeepsOrder
    <3>5. QED
      BY <3>2, <3>3, <3>4 DEF Orders
  <2>5. ASSUME NEW r \in Requests, AttemptRetried(r) PROVE Orders'
    <3>1. PICK status \in Statuses, final \in {Target(r)} \cup Redirected :
            /\ Retryable(status)
            /\ Ended(r, final, status)
            /\ RecordFailure(final, IF status = 403 THEN 403 ELSE 0)
      BY <2>5 DEF AttemptRetried
    <3>2. pc[r] = "fetch" /\ list' = list /\ clock' = clock /\ ~AtLast(r) /\ Continue(r)
      BY <2>5 DEF AttemptRetried
    <3>3. DOMAIN table' = Candidates /\ Ranking!Readable(table')
      BY <1>2, <3>1, FailuresAreReadable
    <3>4. \A q \in Requests : InOrder(q)'
      BY <1>2, <3>1, <3>2, AttemptKeepsOrder
    <3>5. QED
      BY <3>2, <3>3, <3>4 DEF Orders
  <2>6. ASSUME \/ \E r \in Requests : Cancel(r)
               \/ Tick
               \/ UNCHANGED vars
        PROVE  Orders'
    <3>1. /\ table' = table /\ pc' = pc /\ list' = list /\ tried' = tried
          /\ clock' \in Nat
      BY <2>6 DEF Cancel, Tick, vars
    <3>2. QED
      BY <1>2, <3>1 DEF Orders, InOrder
  <2>7. QED
    BY <1>2, <2>1, <2>2, <2>3, <2>4, <2>5, <2>6 DEF Next
<1>3. QED
  BY <1>1, <1>2, Invariance, PTL DEF Spec

\* No request touches a COS mirror of its group before it has tried everything else in
\* the group, whatever the requests around it have recorded meanwhile
\* (mediaGroupCandidates, rankMediaCandidates and the loop of fetchMediaCandidates).
\* In a group of one there is nothing else.
THEOREM CosComesLast ==
  ASSUME Len(Urls) > 1
  PROVE  Spec => []CosIsLastResort
<1>1. ASSUME Inv, Orders, NEW r \in Requests, Len(list[r]) = Len(Urls),
             NEW i \in DOMAIN tried[r], LikelyCOS(tried[r][i].url),
             NEW k \in DOMAIN Urls, ~LikelyCOS(Urls[k])
      PROVE  \E j \in 1 .. i - 1 : tried[r][j].url = Urls[k]
  <2> DEFINE P == 1 .. Len(Urls)
  <2>1. Urls \in Seq(Candidates) /\ Len(Urls) \in Nat /\ k \in P
    BY ConstantsAssumption
  <2>2. /\ DOMAIN tried[r] = 1 .. Len(tried[r]) /\ Len(tried[r]) \in Nat
        /\ \A j \in 1 .. Len(tried[r]) : tried[r][j].url = list[r][j]
    BY <1>1 DEF Inv, Story, Recorded, Walked
  <2>3. i \in P /\ i \in 1 .. Len(tried[r])
    BY <1>1, <2>1, <2>2 DEF Orders, InOrder
  <2>4. pc[r] # "new"
    BY <1>1, <2>2, <2>3 DEF Inv, Story, Walked
  <2>5. /\ list[r] \in Seq(Candidates)
        /\ \E p \in P : list[r][p] = Urls[k]
        /\ \A p, q \in P : p < q => Risk[list[r][p]] <= Risk[list[r][q]]
    BY <1>1, <2>1, <2>4 DEF Orders, InOrder
  <2>6. PICK p \in P : list[r][p] = Urls[k]
    BY <2>5
  <2>7. Risk[list[r][i]] = 2 /\ Risk[list[r][p]] \in 0 .. 1
    <3>1. list[r][p] \in Candidates
      BY <1>1, <2>1, <2>5
    <3>2. QED
      BY <1>1, <2>2, <2>3, <2>6, <3>1, TableAssumption DEF LikelyCOS
  <2>8. p < i
    <3>1. p # i /\ ~(i < p)
      BY <2>3, <2>5, <2>7
    <3>2. QED
      BY <2>1, <2>3, <3>1
  <2>9. p \in 1 .. i - 1 /\ p \in 1 .. Len(tried[r])
    BY <2>1, <2>2, <2>3, <2>8
  <2>10. QED
    BY <2>2, <2>6, <2>9
<1>2. Inv /\ Orders => CosIsLastResort
  BY <1>1 DEF CosIsLastResort
<1>3. QED
  BY <1>2, Invariance, OrderInvariance, PTL
================================================================================
