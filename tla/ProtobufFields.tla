---------------------------- MODULE ProtobufFields ----------------------------
(***************************************************************************)
(* removeProtobufField of internal/proxy/headers.go and the way it reads a   *)
(* message: a row of fields, each a tag and what the tag's wire type says.   *)
(* A message is a sequence of bytes, taken from its first place.            *)
(***************************************************************************)
EXTENDS Integers, SequencesExt, Subsequences

Bytes == 0 .. 255

\* No message is longer than 2 MiB, so that a number from 2^28 on is a length that
\* no message has and a tag of no field that is asked for: one such number stands
\* for all.
Huge == 128 * 128 * 128 * 128

NotRead == [ok |-> FALSE, value |-> 0, next |-> 0]

\* readProtobufVarint: seven bits of each byte, the low ones first, up to a byte
\* without the top bit; at most ten bytes, and of the tenth one bit.
ReadVarint(message, first) ==
  LET last == SelectInSubSeq(message, first, Len(message), LAMBDA b : b < 128)
      digits == last - first + 1
      digit(n) == IF n < digits THEN message[first + n] % (IF n = 9 THEN 2 ELSE 128) ELSE 0
      low == digit(0) + 128 * (digit(1) + 128 * (digit(2) + 128 * digit(3)))
      high == \E n \in 4 .. 9 : digit(n) # 0
  IN IF last = 0 \/ digits > 10 THEN NotRead
     ELSE [ok |-> TRUE, value |-> low + (IF high THEN Huge ELSE 0), next |-> last + 1]

\* Where the field ends that begins at first, 0 if none does or it does not fit.
\* numbers gives the number that is read at each place.
End(message, numbers, first) ==
  LET tag == numbers[first]
      content == numbers[tag.next]
      end == CASE tag.value % 8 = 0 -> content.next
               [] tag.value % 8 = 1 -> tag.next + 8
               [] tag.value % 8 = 5 -> tag.next + 4
               [] tag.value % 8 = 2 -> content.next + content.value
               [] OTHER -> 0
  IN IF tag.ok /\ tag.value # 0 /\ end <= Len(message) + 1 THEN end ELSE 0

\* removeProtobufField
RemoveField(message, removeNumber) ==
  LET places == 1 .. Len(message) + 1
      numbers == [first \in places |-> ReadVarint(message, first)]
      ends == [first \in places |-> End(message, numbers, first)]
      Kept(first) == IF numbers[first].value \div 8 = removeNumber THEN <<>>
                     ELSE SubSeq(message, first, ends[first] - 1)
      from[first \in places] ==
        CASE first = Len(message) + 1 -> [ok |-> TRUE, output |-> <<>>]
          [] first <= Len(message) /\ ends[first] = 0 -> [ok |-> FALSE, output |-> <<>>]
          [] OTHER -> LET rest == from[ends[first]]
                      IN [rest EXCEPT !.output = Kept(first) \o @]
  IN from[1]

-------------------------------------------------------------------------------
(* What the message format says a field is, and the ways to cut a message into  *)
(* fields: every end of a field is tried, whatever its length says.             *)

IsNumber(bytes) ==
  /\ Len(bytes) \in 1 .. 10
  /\ \A n \in DOMAIN bytes : bytes[n] >= 128 <=> n < Len(bytes)

NumberOf(bytes) == ReadVarint(bytes, 1).value

\* What follows a tag of this wire type.
IsContent(wireType, bytes) ==
  \/ wireType = 0 /\ IsNumber(bytes)
  \/ wireType = 1 /\ Len(bytes) = 8
  \/ wireType = 5 /\ Len(bytes) = 4
  \/ wireType = 2 /\ \E n \in 1 .. Len(bytes) :
       /\ IsNumber(SubSeq(bytes, 1, n))
       /\ NumberOf(SubSeq(bytes, 1, n)) = Len(bytes) - n

\* The tag of a field; of bytes that are no field there is none.
TagsOf(bytes) ==
  {NumberOf(SubSeq(bytes, 1, n)) : n \in
     {n \in 1 .. Len(bytes) :
        LET tag == SubSeq(bytes, 1, n)
        IN /\ IsNumber(tag) /\ NumberOf(tag) # 0
           /\ IsContent(NumberOf(tag) % 8, SubSeq(bytes, n + 1, Len(bytes)))}}

\* The ways to cut a message into fields.
Readings(message) ==
  LET from[first \in 1 .. Len(message) + 1] ==
        IF first = Len(message) + 1 THEN {<<>>}
        ELSE UNION {{<<SubSeq(message, first, last)>> \o rest : rest \in from[last + 1]} :
                      last \in {l \in first .. Len(message) :
                                 TagsOf(SubSeq(message, first, l)) # {}}}
  IN from[1]

Without(fields, number) ==
  FlattenSeq(Chosen(fields,
    {f \in DOMAIN fields : \A tag \in TagsOf(fields[f]) : tag \div 8 # number}))
===============================================================================
