---------------------------- MODULE PlayurlRewrite ----------------------------
(***************************************************************************)
(* What becomes of a playurl answer: rewritePlayurlResponse of               *)
(* internal/proxy/playurl.go, called by handlePlayurl.  It reads the JSON     *)
(* document, sums up what it says of qualities, registers the addresses of    *)
(* each media item as a group and puts a link to its group in the place of    *)
(* each.                                                                    *)
(*                                                                         *)
(* A document is the row of its JSON objects, the root first.  walkJSON      *)
(* visits an object before the ones in it; those that are values of a map it *)
(* takes in the order of Go's map iteration, which is any.  Of an object is   *)
(* kept what the code reads: its five address fields, each a text or an array *)
(* (a missing field is an empty array), the current quality, the acceptable   *)
(* qualities, the labels it gives to qualities, its id and its codec, and one *)
(* number that nobody reads.                                               *)
(***************************************************************************)
EXTENDS Integers, SequencesExt, Functions, Subsequences

CONSTANTS Documents, \* the documents that upstream may send
          Media,     \* the addresses that pass the check of appendPlayurlCandidate
          Unusable   \* what else may stand in an address field

AddressFields == {"baseUrl", "base_url", "url", "backupUrl", "backup_url"}

IsObject(o) ==
  /\ o = [at |-> o.at, quality |-> o.quality, accept |-> o.accept, labels |-> o.labels,
          id |-> o.id, codec |-> o.codec, number |-> o.number]
  /\ o.at \in [AddressFields -> [array : BOOLEAN, items : Seq(Media \cup Unusable)]]
  /\ o.quality \in Nat /\ o.accept \in SUBSET Nat /\ o.id \in Nat

\* An address is no link of the proxy's yet.
ASSUME DocumentsAssumption ==
  /\ \A d \in Documents : /\ d.objects \in Seq(ToSet(d.objects))
                          /\ \A o \in ToSet(d.objects) : IsObject(o)
  /\ \A url \in Media \cup Unusable : url \notin [id : Nat, index : Int]

VARIABLES document,  \* what upstream sent
          publicURL, \* the proxy's own address is set
          table,     \* the groups registered, by their ids
          played     \* the answer to the client and the summary for the log

playurl == <<document, publicURL, table, played>>

NoSummary == [quality |-> 0, label |-> "", accept |-> {}, qualities |-> {}, codecs |-> {},
              groups |-> 0]

NoDocument == [json |-> FALSE, objects |-> <<>>]

NotPlayed == [objects |-> <<>>, summary |-> NoSummary, answered |-> FALSE]

-------------------------------------------------------------------------------
\* The places of an object's addresses in the order in which they are collected:
\* the field and the place in its array.
Places(object) ==
  LET placesIn(field) == [i \in DOMAIN object.at[field].items |-> <<field, i>>]
  IN placesIn("baseUrl") \o placesIn("base_url") \o placesIn("url") \o placesIn("backupUrl")
     \o placesIn("backup_url")

At(object, place) == object.at[place[1]].items[place[2]]

\* appendPlayurlCandidate: the places with a usable address.
References(object) ==
  Chosen(Places(object), {p \in DOMAIN Places(object) : At(object, Places(object)[p]) \in Media})

CandidatesRepeated(object) ==
  [r \in DOMAIN References(object) |-> At(object, References(object)[r])]

\* The addresses of the group, each once.
Candidates(object) ==
  LET all == CandidatesRepeated(object)
  IN Chosen(all, {r \in DOMAIN all : \A q \in 1 .. r - 1 : all[q] # all[r]})

\* An object makes a group if there is a choice.
IsGroup(object) == Len(Candidates(object)) > 1

LinkByPlace(object, id, place) ==
  [id |-> id, index |-> SelectInSeq(References(object), LAMBDA p : p = place) - 1]

\* The link that takes an address's place: its group and its number there.
Link(object, id, place) ==
  [id |-> id,
   index |-> SelectInSeq(Candidates(object), LAMBDA url : url = At(object, place)) - 1]

Linked(object, id) ==
  LET referenced == ToSet(References(object))
  IN [object EXCEPT !.at = [field \in DOMAIN object.at |->
        [object.at[field] EXCEPT !.items = [i \in DOMAIN object.at[field].items |->
           IF <<field, i>> \in referenced THEN Link(object, id, <<field, i>>)
                                          ELSE object.at[field].items[i]]]]]

\* json.Marshal writes the float64 that json.Unmarshal has made of a number.
Recoded(object) ==
  [object EXCEPT !.number = IF @ = "above 2^53" THEN "rounded" ELSE @]

-------------------------------------------------------------------------------
\* The visits of walkJSON; a document here is a map of objects, or an array of
\* them, in the root.
Orders(objects) ==
  IF objects = <<>> THEN {<<>>}
  ELSE {order \in Bijection(DOMAIN objects, DOMAIN objects) : order[1] = 1}

Visited(objects, order) == [n \in DOMAIN order |-> objects[order[n]]]

HasMediaURL(object) ==
  \E field \in {"baseUrl", "base_url", "url"} :
    ~object.at[field].array /\ object.at[field].items # <<>>

LabelMet(visited, quality) ==
  LET q == SelectInSeq(visited, LAMBDA object : object.quality = quality)
      n == SelectLastInSubSeq(visited, 1, q, LAMBDA object : quality \in DOMAIN object.labels)
  IN IF n = 0 THEN "" ELSE visited[n].labels[quality]

\* The label that was given to a quality last, when the walk is over.
LabelOf(visited, quality) ==
  LET n == SelectLastInSeq(visited, LAMBDA object : quality \in DOMAIN object.labels)
  IN IF n = 0 THEN "" ELSE visited[n].labels[quality]

\* summarizePlayurl: the first quality and the first list that the walk meets, and
\* the labels, ids and codecs of all.
Summarized(visited) ==
  LET q == SelectInSeq(visited, LAMBDA object : object.quality > 0)
      a == SelectInSeq(visited, LAMBDA object : object.accept # {})
      quality == IF q = 0 THEN 0 ELSE visited[q].quality
      shown == {n \in DOMAIN visited : HasMediaURL(visited[n])}
  IN [quality |-> quality,
      label |-> LabelOf(visited, quality),
      accept |-> IF a = 0 THEN {} ELSE visited[a].accept,
      qualities |-> {visited[n].id : n \in shown} \ {0},
      codecs |-> {visited[n].codec : n \in shown} \ {""},
      groups |-> 0]

-------------------------------------------------------------------------------
PlayurlInit ==
  /\ document \in Documents
  /\ publicURL \in BOOLEAN
  /\ table = <<>>
  /\ played = NotPlayed

Answer(objects, summary) ==
  played' = [objects |-> objects, summary |-> summary, answered |-> TRUE]

\* Text that is no JSON goes on as it is, without a summary.
PassOnUnread ==
  /\ ~played.answered
  /\ ~document.json
  /\ Answer(document.objects, NoSummary)
  /\ UNCHANGED <<document, publicURL, table>>

Grouped(order) ==
  Chosen(order, {p \in DOMAIN order : IsGroup(document.objects[order[p]])})

\* So does a document with nothing to register, and one whose registration fails:
\* the groups that were registered before it failed stay.
PassOn(order) ==
  /\ Answer(document.objects, Summarized(Visited(document.objects, order)))
  /\ \/ (~publicURL \/ Grouped(order) = <<>>) /\ UNCHANGED table
     \/ /\ publicURL
        /\ \E n \in 0 .. Len(Grouped(order)) - 1 :
             table' = [id \in 1 .. n |-> Candidates(document.objects[Grouped(order)[id]])]

\* The ids are the groups' numbers in the order of their registration.
Rewrite(order) ==
  LET groups == Grouped(order)
  IN /\ publicURL /\ groups # <<>>
     /\ table' = [id \in DOMAIN groups |-> Candidates(document.objects[groups[id]])]
     /\ Answer([n \in DOMAIN document.objects |->
                  LET id == SelectInSeq(groups, LAMBDA g : g = n)
                      object == document.objects[n]
                  IN Recoded(IF id = 0 THEN object ELSE Linked(object, id))],
               [Summarized(Visited(document.objects, order)) EXCEPT !.groups = Len(groups)])

ReadDocument ==
  /\ ~played.answered
  /\ document.json
  /\ \E order \in Orders(document.objects) : PassOn(order) \/ Rewrite(order)
  /\ UNCHANGED <<document, publicURL>>

PlayurlNext == PassOnUnread \/ ReadDocument

-------------------------------------------------------------------------------
IsLink(value) == value \notin Media \cup Unusable

\* Every link leads to the address that stood in its place: its group is in the
\* table and has it under the link's number.  Nothing else of the answer changes,
\* but that numbers beyond 2^53 are rounded in a document with links; and an object
\* gets links for all of its usable addresses or for none.
ReferencesResolve ==
  played.answered =>
    /\ DOMAIN played.objects = DOMAIN document.objects
    /\ \A n \in DOMAIN played.objects :
         LET old == document.objects[n]
             new == played.objects[n]
             links == {place \in ToSet(Places(new)) : IsLink(At(new, place))}
         IN /\ Places(new) = Places(old)
            /\ \A place \in ToSet(Places(new)) :
                 IF place \in links
                 THEN LET link == At(new, place)
                      IN link.index < Len(table[link.id])
                         /\ table[link.id][link.index + 1] = At(old, place)
                 ELSE At(new, place) = At(old, place)
            /\ links \in {{}, ToSet(References(old))}
            /\ new # [old EXCEPT !.at = new.at] => played.summary.groups > 0
            /\ new.number # old.number => old.number = "above 2^53"

\* A document that says each thing once is summed up in one way, in whatever order
\* the maps are walked: the quality it states, the label that belongs to it and the
\* qualities, wherever in the document they stand.
SaysOnce(objects) ==
  /\ \A m, n \in DOMAIN objects :
       m # n => /\ objects[m].quality = 0 \/ objects[n].quality = 0
                /\ objects[m].accept = {} \/ objects[n].accept = {}
                /\ DOMAIN objects[m].labels \cap DOMAIN objects[n].labels = {}

SummaryStable ==
  played.answered /\ document.json /\ SaysOnce(document.objects) =>
    LET all == ToSet(document.objects)
        summary == played.summary
    IN /\ \A object \in all : object.quality > 0 => summary.quality = object.quality
       /\ \A object \in all : summary.quality \in DOMAIN object.labels =>
            summary.label = object.labels[summary.quality]
       /\ summary.accept = UNION {object.accept : object \in all}
       /\ summary.qualities = {object.id : object \in {o \in all : HasMediaURL(o)}} \ {0}
===============================================================================
