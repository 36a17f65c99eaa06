----------------------------- MODULE QualityRequest ---------------------------
(***************************************************************************)
(* The request that handlePlayurl sends on: highestQualityTarget of           *)
(* internal/proxy/quality.go asks for the best quality and, where the client  *)
(* has signed its query, signs it anew with signWBI.                         *)
(*                                                                         *)
(* A query gives each of its names a sequence of values.  encodeQuery writes  *)
(* the names in their order and escapes what it must, so that two queries     *)
(* have one text if and only if they are equal: a query stands for its text,  *)
(* and a signature for the text and the key that were hashed.                *)
(***************************************************************************)
EXTENDS Integers, Sequences, Functions

CONSTANTS Queries, \* the queries that a client may send
          Now      \* the time of the signature

Paths == {"video", "wbi", "live", "legacyLive", "other"}

Text(value) == [text |-> value, mark |-> FALSE, signed |-> <<>>]

Signature(query, key) == [text |-> key, mark |-> FALSE, signed |-> <<query>>]

Values == [text : STRING, mark : BOOLEAN, signed : {<<>>}]

ASSUME QueriesAssumption ==
  /\ \A q \in Queries : q \in [DOMAIN q -> Seq(Values)]
  /\ Now \in STRING

VARIABLES path,  \* what the target is
          query, \* the query of the client
          asked  \* what goes to upstream, and meta.qualityParams

quality == <<path, query, asked>>

NoQuery == <<>>

NotAsked == [query |-> NoQuery, params |-> ""]

-------------------------------------------------------------------------------
Set(q, name, value) ==
  [n \in DOMAIN q \cup {name} |-> IF n = name THEN <<value>> ELSE q[n]]

\* What Get sees of a name: nothing, or the first of its values.
Given(q, name) == name \in DOMAIN q /\ q[name] # <<>> /\ q[name][1].text # ""

\* The values lose the characters that a signature must not have, "!'()*"; mark
\* says that there are some.
Stripped(q) ==
  [n \in DOMAIN q |-> [i \in DOMAIN q[n] |-> [q[n][i] EXCEPT !.mark = FALSE]]]

SignWithOld(q, key) ==
  LET signed == Stripped(Set(q, "wts", Text(Now)))
  IN Set(signed, "w_rid", Signature(signed, key))

\* signWBI
Sign(q, key) ==
  LET signed == Stripped(Set(Restrict(q, DOMAIN q \ {"w_rid"}), "wts", Text(Now)))
  IN Set(signed, "w_rid", Signature(signed, key))

Best(q) == Set(Set(Set(Set(q, "qn", Text("127")), "fnver", Text("0")),
                   "fnval", Text("4048")), "fourk", Text("1"))

MustSign(p, q) == p = "wbi" \/ Given(q, "w_rid")

-------------------------------------------------------------------------------
QualityInit == path \in Paths /\ query \in Queries /\ asked = NotAsked

Ask(q, params) == asked' = [query |-> q, params |-> params] /\ UNCHANGED <<path, query>>

\* highestQualityTarget, for each kind of target; the key of a query that must be
\* signed may not be had, and then all stays as the client wrote it.
AskVideo ==
  /\ path \in {"video", "wbi"}
  /\ IF MustSign(path, query)
     THEN \/ Ask(Sign(Best(query), "key"), "upgraded")
          \/ Ask(query, "failed")
     ELSE Ask(Best(query), "upgraded")

AskLive ==
  \/ path = "live" /\ Ask(Set(query, "qn", Text("10000")), "upgraded")
  \/ path = "legacyLive" /\ Ask(Set(query, "quality", Text("4")), "upgraded")

AskOther == path = "other" /\ Ask(query, "unchanged")

QualityNext == asked = NotAsked /\ (AskVideo \/ AskLive \/ AskOther)

-------------------------------------------------------------------------------
\* A query goes out as the client signed it, or with one signature that the proxy
\* made, over everything else in it and with this time, whatever signatures and
\* times the client's had; and what it asks of upstream besides quality stays.
SignatureCovers ==
  asked # NotAsked =>
    LET q == asked.query
        rest == Restrict(q, DOMAIN q \ {"w_rid"})
        ours == {"qn", "fnver", "fnval", "fourk", "quality", "wts", "w_rid"}
    IN /\ asked.params # "upgraded" => q = query
       /\ asked.params = "upgraded" /\ path \in {"video", "wbi"} /\ MustSign(path, query) =>
            /\ q["w_rid"] = <<Signature(rest, "key")>>
            /\ q["wts"] = <<Text(Now)>>
            /\ \A n \in DOMAIN rest : \A i \in DOMAIN rest[n] : ~rest[n][i].mark
       /\ Restrict(q, DOMAIN q \ ours) \in {Restrict(query, DOMAIN query \ ours),
                                            Stripped(Restrict(query, DOMAIN query \ ours))}
===============================================================================
