------------------------------ MODULE SdpData ------------------------------
(***************************************************************************)
(* Raw SDP records: sdp_make_data_element and the sdp_parse functions.     *)
(*                                                                         *)
(* What a function returns is the set of its one result, the empty set     *)
(* where it raises.  A data element is <<type, value>>.  An integer is its *)
(* octets, as struct packs them; a string to be made, its characters,      *)
(* numbers, those from 128 on of two octets; a UUID, <<"hex", octets>>, or *)
(* <<"sloppy", octets>> where int reads it and unhexlify does not.  Text   *)
(* that is parsed is <<"bytes", octets>> or <<"str", octets>>.             *)
(***************************************************************************)
EXTENDS Integers, Sequences, SequencesExt

Octet    == 0..255
Char     == 0..2047
IntSizes == {1, 2, 4, 8, 16}
Sizes    == <<1, 2, 4, 8, 16>>
Lists    == {"ElemSeq", "AltElemSeq"}
Codes == [Nil |-> 0, UInt |-> 1, SInt |-> 2, UUID |-> 3, String |-> 4,
          Bool |-> 5, ElemSeq |-> 6, AltElemSeq |-> 7, URL |-> 8]

AnyUuid == {"hex", "sloppy"} \X Seq(Octet)

\* The elements that are no lists, and with them lists of elements.
Atoms(chars) ==
       {<<"Nil", <<>>>>}
  \cup ({"UInt", "SInt"} \X {o \in Seq(Octet) : Len(o) \in IntSizes})
  \cup ({"Bool"} \X {<<0>>, <<1>>})
  \cup ({"UUID"} \X {u \in AnyUuid : Len(u[2]) \in {2, 4, 16}})
  \cup ({"String", "URL"} \X Seq(chars))
ListsOf(elements) == Lists \X Seq(elements)

\* Bound: in an attribute lists are nested three deep.
Nested1(chars) == Atoms(chars) \cup ListsOf(Atoms(chars))
Nested2(chars) == Atoms(chars) \cup ListsOf(Nested1(chars))
Nested3(chars) == Atoms(chars) \cup ListsOf(Nested2(chars))

\* What comes of an element: of one that is no list, Atom; of a list, List, from
\* what comes of its elements.
Of1(e, Atom(_), List(_, _)) ==
  IF e[1] \in Lists THEN List(e, [i \in DOMAIN e[2] |-> Atom(e[2][i])]) ELSE Atom(e)
Of2(e, Atom(_), List(_, _)) ==
  IF e[1] \in Lists THEN List(e, [i \in DOMAIN e[2] |-> Of1(e[2][i], Atom, List)]) ELSE Atom(e)
Of3(e, Atom(_), List(_, _)) ==
  IF e[1] \in Lists THEN List(e, [i \in DOMAIN e[2] |-> Of2(e[2][i], Atom, List)]) ELSE Atom(e)

-----------------------------------------------------------------------------
\* maketsd, for a size of a power of two, and maketsdl, which raises where four
\* octets do not hold the size.
Tsd(type, size) == <<8 * Codes[type] + (CHOOSE k \in 0..4 : Sizes[k + 1] = size)>>
Tsdl(type, size) ==
  LET code == 8 * Codes[type]
      high == size \div 65536
  IN IF size < 256 THEN {<<code + 5, size>>}
     ELSE IF high = 0 THEN {<<code + 6, size \div 256, size % 256>>}
     ELSE IF high < 65536
     THEN {<<code + 7, high \div 256, high % 256, (size \div 256) % 256, size % 256>>}
     ELSE {}
Sized(type, size, data) == {tsd \o data : tsd \in Tsdl(type, size)}

\* str.encode.
Octets(char) ==
  IF char < 128 THEN <<char>> ELSE <<192 + (char \div 64), 128 + (char % 64)>>
Encoded(chars) == IF \A c \in Range(chars) : c < 128 THEN chars
                  ELSE FlattenSeq([i \in DOMAIN chars |-> Octets(chars[i])])

\* sdp_make_data_element.  The size of a string is that of its characters.
\* Integers of 128 bits and Booleans raise: octets are shifted, or joined to a
\* str.
MakeAtom(e) ==
  CASE e[1] = "Nil" -> {<<0>>}
    [] e[1] \in {"UInt", "SInt"} ->
         IF Len(e[2]) = 16 THEN {} ELSE {Tsd(e[1], Len(e[2])) \o e[2]}
    [] e[1] = "UUID" ->
         IF e[2][1] # "hex" THEN {} ELSE {Tsd(e[1], Len(e[2][2])) \o e[2][2]}
    [] e[1] = "String" -> Sized(e[1], Len(e[2]), Encoded(e[2]))
    [] e[1] = "Bool" -> {}
    [] e[1] = "URL" -> Sized(e[1], Len(e[2]), e[2])

MakeSeq(e, made) ==
  LET data == FlattenSeq([i \in DOMAIN made |-> CHOOSE m \in made[i] : TRUE])
  IN IF {} \in Range(made) THEN {} ELSE Sized(e[1], Len(data), data)

\* The data element of a record, from its attributes: identifiers and elements.
RecordOf(attributes) ==
  <<"ElemSeq", [j \in 1..(2 * Len(attributes)) |->
                  IF j % 2 = 1 THEN <<"UInt", attributes[(j + 1) \div 2][1]>>
                               ELSE attributes[j \div 2][2]]>>

Make(e) == Of3(e, MakeAtom, MakeSeq)
MakeRecord(attributes) ==
  LET e == RecordOf(attributes) IN MakeSeq(e, [j \in DOMAIN e[2] |-> Make(e[2][j])])

-----------------------------------------------------------------------------
From(data, n) == SubSeq(data, n + 1, Len(data))
Slice(data, n, size) ==
  SubSeq(data, n + 1, IF n + size < Len(data) THEN n + size ELSE Len(data))

\* Mutation of Number: the least octet comes first.
LittleNumber(octets) ==
  CASE Len(octets) = 1 -> octets[1]
    [] Len(octets) = 2 -> 256 * octets[2] + octets[1]
    [] Len(octets) = 4 -> 256 * (256 * (256 * octets[4] + octets[3]) + octets[2]) + octets[1]

Number(octets) ==
  CASE Len(octets) = 1 -> octets[1]
    [] Len(octets) = 2 -> 256 * octets[1] + octets[2]
    [] Len(octets) = 4 -> 256 * (256 * (256 * octets[1] + octets[2]) + octets[3]) + octets[4]

\* sdp_parse_size_desc: the type, the size, where the value starts.
SizeDesc(data) ==
  IF data = <<>> THEN {}
  ELSE LET code == data[1] \div 8
           k    == data[1] % 8
           more == IF k < 5 THEN 0 ELSE Sizes[k - 4]
       IN IF code = 0 THEN {[type |-> "Nil", size |-> 0, start |-> 1]}
          ELSE IF code > 8 \/ Len(data) < 1 + more THEN {}
          ELSE {[type  |-> CHOOSE t \in DOMAIN Codes : Codes[t] = code,
                 size  |-> IF k < 5 THEN Sizes[k + 1] ELSE Number(Slice(data, 1, more)),
                 start |-> 1 + more]}

Zeros(n) == [i \in 1..n |-> 0]

\* A signed integer of 128 bits: the sign of one that is positive is set, and
\* the least of all is 0.
Wide(octets) ==
  IF octets[1] \in {0, 128} /\ Tail(octets) = Zeros(15)
  THEN Zeros(16)
  ELSE [octets EXCEPT ![1] = 128 + (@ % 128)]

\* sdp_parse_int.
ParseInt(octets, size, type) ==
  IF size \notin IntSizes \/ Len(octets) # size THEN {}
  ELSE {IF type = "SInt" /\ size = 16 THEN Wide(octets) ELSE octets}

\* Mutation of ParseUuid: the text of a short one is not for it.
ParseLongUuid(octets, size) ==
  IF size = 16 /\ Len(octets) = 16 THEN {<<"str", octets>>} ELSE {}

\* sdp_parse_uuid.  Of an odd size the value is an exception.
ParseUuid(octets, size) ==
  CASE size \in {2, 4} -> {<<"bytes", octets>>}
    [] size = 16 -> IF Len(octets) = 16 THEN {<<"str", octets>>} ELSE {}
    [] OTHER -> {<<"error", octets>>}

ParseBool(octets) ==
  IF Len(octets) # 1 THEN {} ELSE {IF octets[1] = 0 THEN <<0>> ELSE <<1>>}

\* sdp_parse_data_element: the type, the value, what it consumed.  Of the octets
\* of a list, lists has the elements.
Parse(data, lists) ==
  UNION {LET elem == Slice(data, d.start, d.size)
             values ==
               CASE d.type = "Nil" -> {<<>>}
                 [] d.type \in {"UInt", "SInt"} -> ParseInt(elem, d.size, d.type)
                 [] d.type = "UUID" -> ParseUuid(elem, d.size)
                 [] d.type \in {"String", "URL"} -> {<<"bytes", elem>>}
                 [] d.type = "Bool" -> ParseBool(elem)
                 [] d.type \in Lists -> lists[elem]
         IN {<<d.type, v, d.start + d.size>> : v \in values} : d \in SizeDesc(data)}

\* sdp_parse_data_elementSequence.
ParseSeq[data \in Seq(Octet)] ==
  IF data = <<>> THEN {<<>>}
  ELSE UNION {{<<<<e[1], e[2]>>>> \o rest : rest \in ParseSeq[From(data, e[3])]}
              : e \in Parse(data, ParseSeq)}

\* The attributes in the elements of a record, of which a later one takes the
\* place of an earlier with its identifier.
AreAttributes(elements) ==
  /\ Len(elements) % 2 = 0
  /\ \A i \in DOMAIN elements :
       i % 2 = 1 => elements[i][1] = "UInt" /\ Len(elements[i][2]) = 2
Attributes(elements) ==
  LET ids == {i \in DOMAIN elements : i % 2 = 1} IN
  [id \in {elements[i][2] : i \in ids} |->
     LET last == CHOOSE i \in ids : /\ elements[i][2] = id
                                    /\ \A j \in ids : j > i => elements[j][2] # id
     IN elements[last + 1][2]]

\* sdp_parse_raw_record.  What is read is all of the data, whatever the size
\* that is declared.
ParseRecord(data) ==
  UNION {{Attributes(es) : es \in {l \in ParseSeq[From(data, d.start)] : AreAttributes(l)}}
         : d \in {c \in SizeDesc(data) : c.type = "ElemSeq"}}

=============================================================================
