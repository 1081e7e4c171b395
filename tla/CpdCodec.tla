-------------------------------- MODULE CpdCodec --------------------------------
(***************************************************************************)
(* The codec of the tokens of copy-paste detection in the cache.  A token   *)
(* is four numbers and an index into a table of images; numbers are written *)
(* in groups of bits, lowest group first, each in a byte that also says     *)
(* whether another follows.  Integers have Width bits and bytes Group bits  *)
(* of payload, where the code has 32 and 7; as there, Group does not divide *)
(* Width.  What was written is read back whole, or cut short.               *)
(***************************************************************************)
EXTENDS Integers, Sequences, SequencesExt, FiniteSets

CONSTANTS
  Width,      \* the bits of an integer
  Group,      \* the bits of an integer that a byte holds
  Locations,  \* the locations of tokens, four integers each
  Images,     \* the images of tokens, sequences of bytes, or Null
  MaxTokens,  \* how many tokens a file has at most
  Cuts,       \* whether entries of the cache may come back cut short
  Null        \* no image

WidthAssumption == Width \in Nat \ {0} /\ Group \in Nat \ {0}

VARIABLES
  cpdTokens,  \* the tokens that are stored
  pc,         \* what happens next
  index,      \* the tokens written, or read, so far
  byIndex,    \* the string table: of the writer, then of the reader
  data,       \* the entry with the tokens
  table,      \* the entry with the string table
  whole,      \* whether both entries came back as they were written
  position,   \* how many bytes of data are read
  size,       \* the number of tokens that data announces
  read,       \* the tokens that are read
  outcome     \* "none", "ok", "IOException" or "unchecked"

vars == <<cpdTokens, pc, index, byIndex, data, table, whole, position, size, read, outcome>>

Unsigned(value) == value % 2^Width

Signed(bits) == IF bits < 2^(Width - 1) THEN bits ELSE bits - 2^Width

\* The byte after one without the continuation bit is another number's.
groups[value \in 0 .. 2^Width - 1] ==
  LET rest == value \div 2^Group
      bits == value % 2^Group
  IN IF rest = 0 THEN <<bits>> ELSE <<bits + 2^Group>> \o groups[rest]

writeInt(value) == groups[Unsigned(value)]

writeUTF(string) ==
  LET bytes == IF string = Null THEN <<>> ELSE string
  IN writeInt(Len(bytes)) \o bytes

END == <<5, 6, 7>>

\* What reading at a place of the bytes gives: the value and the next place,
\* or no place when the bytes end first (an EOFException).
Eof == [value |-> 0, next |-> -1]

readInt(bytes, from) ==
  LET Ends == IF from = -1 THEN {} ELSE {k \in from + 1 .. Len(bytes) : bytes[k] < 2^Group}
      last == CHOOSE k \in Ends : \A l \in Ends : k <= l
      sum[k \in from .. Len(bytes)] ==
        IF k = from THEN 0 ELSE sum[k - 1] + (bytes[k] % 2^Group) * 2^(Group * (k - from - 1))
  IN IF Ends = {} THEN Eof ELSE [value |-> Signed(sum[last] % 2^Width), next |-> last]

readUTF(bytes, from) ==
  LET length == readInt(bytes, from)
  IN IF length.next = -1 \/ length.next + length.value > Len(bytes) THEN [value |-> <<>>, next |-> -1]
     ELSE [value |-> SubSeq(bytes, length.next + 1, length.next + length.value),
           next |-> length.next + length.value]

getIndex(string) ==
  IF Contains(byIndex, string) THEN CHOOSE k \in DOMAIN byIndex : byIndex[k] = string
  ELSE Len(byIndex) + 1

Tokens == [location : Locations, image : Images]

Init ==
  /\ cpdTokens \in SeqOf(Tokens, MaxTokens)
  /\ pc = "write"
  /\ index = 0
  /\ byIndex = <<>>
  /\ data = writeInt(Len(cpdTokens))
  /\ table = <<>>
  /\ whole = TRUE
  /\ position = 0
  /\ size = 0
  /\ read = <<>>
  /\ outcome = "none"

Write ==
  /\ pc = "write" /\ index < Len(cpdTokens)
  /\ LET token == cpdTokens[index + 1]
         location == token.location
         at == getIndex(token.image)
     IN /\ byIndex' = IF at > Len(byIndex) THEN Append(byIndex, token.image) ELSE byIndex
        /\ data' = data \o writeInt(location[1]) \o writeInt(location[2]) \o writeInt(location[3])
                   \o writeInt(location[4]) \o writeInt(at - 1)
  /\ index' = index + 1
  /\ UNCHANGED <<cpdTokens, pc, table, whole, position, size, read, outcome>>

writeStringTable == writeInt(Len(byIndex)) \o FlattenSeq([k \in DOMAIN byIndex |-> writeUTF(byIndex[k])]) \o writeUTF(END)

Close ==
  /\ pc = "write" /\ index = Len(cpdTokens)
  /\ data' = data \o writeUTF(END)
  /\ table' = writeStringTable
  /\ pc' = "stored"
  /\ index' = 0
  /\ byIndex' = <<>>
  /\ UNCHANGED <<cpdTokens, whole, position, size, read, outcome>>

\* External: the cache gives back a prefix of an entry.
CutData ==
  /\ pc = "stored" /\ Cuts
  /\ \E length \in 0 .. Len(data) - 1 : data' = SubSeq(data, 1, length)
  /\ whole' = FALSE
  /\ UNCHANGED <<cpdTokens, pc, index, byIndex, table, position, size, read, outcome>>

CutTable ==
  /\ pc = "stored" /\ Cuts
  /\ \E length \in 0 .. Len(table) - 1 : table' = SubSeq(table, 1, length)
  /\ whole' = FALSE
  /\ UNCHANGED <<cpdTokens, pc, index, byIndex, data, position, size, read, outcome>>

Stop(how) == pc' = "done" /\ outcome' = how

\* The strings of the table, one after the other, and where they end.
stringsOf(count, from) ==
  LET after[k \in 0..count] ==
        IF k = 0 THEN [value |-> <<>>, next |-> from]
        ELSE IF after[k - 1].next = -1 THEN after[k - 1]
        ELSE LET string == readUTF(table, after[k - 1].next)
             IN [value |-> Append(after[k - 1].value, string.value), next |-> string.next]
  IN after[count]

\* Mutant: the mark at the end is not read.
readWithoutEnd ==
  /\ pc = "stored"
  /\ LET length == readInt(table, 0)
         strings == stringsOf(length.value, length.next)
     IN IF length.next = -1 \/ strings.next = -1 THEN Stop("IOException") /\ UNCHANGED byIndex
        ELSE pc' = "size" /\ byIndex' = strings.value /\ UNCHANGED outcome
  /\ UNCHANGED <<cpdTokens, index, data, table, whole, position, size, read>>

readStringTable ==
  /\ pc = "stored"
  /\ LET length == readInt(table, 0)
         strings == stringsOf(length.value, length.next)
         end == readUTF(table, strings.next)
     IN IF length.next = -1 \/ strings.next = -1 \/ end.next = -1 \/ end.value # END
        THEN Stop("IOException") /\ UNCHANGED byIndex
        ELSE pc' = "size" /\ byIndex' = strings.value /\ UNCHANGED outcome
  /\ UNCHANGED <<cpdTokens, index, data, table, whole, position, size, read>>

ReadSize ==
  /\ pc = "size"
  /\ LET length == readInt(data, 0)
     IN IF length.next = -1 THEN Stop("IOException") /\ UNCHANGED <<size, position>>
        ELSE pc' = "tokens" /\ size' = length.value /\ position' = length.next /\ UNCHANGED outcome
  /\ UNCHANGED <<cpdTokens, index, byIndex, data, table, whole, read>>

\* getString of an index beyond the table throws an unchecked exception.
readCpdToken ==
  /\ pc = "tokens" /\ index < size
  /\ LET n1 == readInt(data, position)
         n2 == readInt(data, n1.next)
         n3 == readInt(data, n2.next)
         n4 == readInt(data, n3.next)
         n5 == readInt(data, n4.next)
     IN IF -1 \in {n1.next, n2.next, n3.next, n4.next, n5.next}
        THEN Stop("IOException") /\ UNCHANGED <<read, position>>
        ELSE IF n5.value + 1 \notin DOMAIN byIndex
        THEN Stop("unchecked") /\ UNCHANGED <<read, position>>
        ELSE /\ read' = Append(read, [location |-> <<n1.value, n2.value, n3.value, n4.value>>,
                                      image |-> byIndex[n5.value + 1]])
             /\ position' = n5.next
             /\ UNCHANGED <<pc, outcome>>
  /\ index' = index + 1
  /\ UNCHANGED <<cpdTokens, byIndex, data, table, whole, size>>

ReadEnd ==
  /\ pc = "tokens" /\ index >= size
  /\ LET end == readUTF(data, position)
     IN Stop(IF end.next = -1 \/ end.value # END THEN "IOException" ELSE "ok")
  /\ UNCHANGED <<cpdTokens, index, byIndex, data, table, whole, position, size, read>>

Done == pc = "done" /\ UNCHANGED vars

Next == Write \/ Close \/ CutData \/ CutTable \/ readStringTable \/ ReadSize \/ readCpdToken \/ ReadEnd \/ Done

Spec == Init /\ [][Next]_vars

\* A token whose image is missing comes back with an empty one.
AsRead(token) == [token EXCEPT !.image = IF token.image = Null THEN <<>> ELSE token.image]

(***************************************************************************)
(* Entries that the cache gives back whole are read as the tokens that     *)
(* CpdSerializer was given: every integer of every length, the sign bit    *)
(* included, and every image under the index it was written with.          *)
(***************************************************************************)
RoundTrip ==
  pc = "done" /\ whole =>
    /\ outcome = "ok"
    /\ read = [k \in DOMAIN cpdTokens |-> AsRead(cpdTokens[k])]

(***************************************************************************)
(* An entry that is cut short, wherever it is cut, ends in the IOException *)
(* that CacheStrategies takes for a missing entry: never in fewer tokens,  *)
(* and never in an unchecked exception that would end the sensor.          *)
(***************************************************************************)
CutIsNoticed == pc = "done" /\ ~whole => outcome = "IOException"

-----------------------------------------------------------------------------
\* ) Bytes of three bits for integers of eight: one to three bytes, where the
\* code has one to five. )

Integer == -(2^(Width - 1)) .. 2^(Width - 1) - 1

\* The numbers at which the length changes, and those at the sign bit.
Edges == {0, 7, 8, 63, 64, 127, -128, -1}

MCAllNumbers == {<<a, b, a, b>> : a \in Integer, b \in Edges}

MCFewLocations == {<<1, 0, 1, 8>>, <<64, 7, -1, 0>>}

MCImage == {<<0>>}

MCImages == {<<>>, <<0>>, END, Null}

=============================================================================
