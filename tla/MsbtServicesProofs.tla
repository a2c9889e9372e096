------------------------- MODULE MsbtServicesProofs -------------------------
(***************************************************************************)
(* Proofs about MsbtServices and SdpData.  The parser of records is a      *)
(* recursive function: it is shown to have a value for all octets, by      *)
(* induction over their number, and then to read off what is made, from    *)
(* the octets of a size up to records, what it was made of.  The           *)
(* invariants of the services follow from that and from two inductive      *)
(* ones, of handles and of searches.                                       *)
(***************************************************************************)
EXTENDS MsbtServices, WellFoundedInduction, SequenceTheorems, TLAPS

-----------------------------------------------------------------------------
\* A non-empty set of natural numbers has a least.
LEMMA LeastNumber ==
  ASSUME NEW T \in SUBSET Nat, T # {}
  PROVE  \E n \in T : \A m \in T : n <= m
<1> DEFINE R == {ss \in Nat \X Nat : ss[1] < ss[2]}
<1>1. OpToRel(<, Nat) = R
  BY DEF OpToRel
<1>2. \E n \in T : \A m \in T : <<m, n>> \notin R
  BY <1>1, WFMin, NatLessThanWellFounded
<1>3. \A m, n \in Nat : <<m, n>> \notin R => n <= m
  OBVIOUS
<1>4. QED
  BY <1>2, <1>3

\* Induction over the natural numbers, for sets.
LEMMA SetInduction ==
  ASSUME NEW T, 0 \in T, \A n \in Nat : n \in T => n + 1 \in T
  PROVE  Nat \subseteq T
<1> SUFFICES ASSUME ~(Nat \subseteq T) PROVE FALSE
  OBVIOUS
<1>1. PICK n \in Nat \ T : \A m \in Nat \ T : n <= m
  <2>1. Nat \ T \in SUBSET Nat /\ Nat \ T # {}
    OBVIOUS
  <2>2. QED
    BY <2>1, LeastNumber
<1>2. n # 0 /\ n - 1 \in Nat
  BY <1>1
<1>3. n - 1 \in T
  BY <1>1, <1>2
<1>4. QED
  BY <1>1, <1>2, <1>3

\* The octets of a part of a sequence: its length, and each of them.
LEMMA SubSeqIs ==
  ASSUME NEW s \in Seq(Octet), NEW m \in Nat, NEW n \in Nat, n <= Len(s)
  PROVE  /\ SubSeq(s, m + 1, n) \in Seq(Octet)
         /\ Len(SubSeq(s, m + 1, n)) = IF m < n THEN n - m ELSE 0
         /\ \A i \in 1..(n - m) : SubSeq(s, m + 1, n)[i] = s[m + i]
<1>1. \A i \in (m + 1)..n : s[i] \in Octet
  <2>1. Len(s) \in Nat /\ \A i \in 1..Len(s) : s[i] \in Octet
    OBVIOUS
  <2>2. QED
    BY <2>1
<1>2. n - (m + 1) + 1 = n - m
  OBVIOUS
<1>3. /\ SubSeq(s, m + 1, n) \in Seq(Octet)
      /\ Len(SubSeq(s, m + 1, n)) = IF m + 1 <= n THEN n - (m + 1) + 1 ELSE 0
      /\ \A i \in 1..(n - (m + 1) + 1) : SubSeq(s, m + 1, n)[i] = s[m + 1 + i - 1]
  <2>1. m + 1 \in Int /\ n \in Int
    OBVIOUS
  <2>2. QED
    BY <1>1, <2>1, SubSeqProperties
<1>4. \A i \in 1..(n - m) : m + 1 + i - 1 = m + i
  OBVIOUS
<1>5. m < n <=> m + 1 <= n
  OBVIOUS
<1>6. QED
  BY <1>2, <1>3, <1>4, <1>5

\* From: the octets after the first n, as a slice of Python gives them.
LEMMA FromIs ==
  ASSUME NEW data \in Seq(Octet), NEW n \in Nat
  PROVE  /\ From(data, n) \in Seq(Octet)
         /\ Len(From(data, n)) = IF n < Len(data) THEN Len(data) - n ELSE 0
         /\ \A i \in 1..(Len(data) - n) : From(data, n)[i] = data[n + i]
<1>1. Len(data) \in Nat /\ Len(data) <= Len(data)
  OBVIOUS
<1>2. QED
  BY <1>1, SubSeqIs DEF From

\* Slice: at most as many octets as are asked for, and none but those there are.
LEMMA SliceIs ==
  ASSUME NEW data \in Seq(Octet), NEW n \in Nat, NEW size \in Nat
  PROVE  /\ Slice(data, n, size) \in Seq(Octet)
         /\ n + size <= Len(data) => Len(Slice(data, n, size)) = size
         /\ Len(Slice(data, n, size)) <= size
         /\ Len(Slice(data, n, size)) = 0 \/ Len(Slice(data, n, size)) <= Len(data) - n
         /\ \A i \in 1..Len(Slice(data, n, size)) : Slice(data, n, size)[i] = data[n + i]
<1> DEFINE end == IF n + size < Len(data) THEN n + size ELSE Len(data)
<1>1. Len(data) \in Nat
  OBVIOUS
<1>2. end \in Nat /\ end <= Len(data) /\ end <= n + size /\ (n + size <= Len(data) => end = n + size)
  BY <1>1
<1>3. Slice(data, n, size) = SubSeq(data, n + 1, end)
  BY DEF Slice
<1> HIDE DEF end
<1>4. /\ SubSeq(data, n + 1, end) \in Seq(Octet)
      /\ Len(SubSeq(data, n + 1, end)) = IF n < end THEN end - n ELSE 0
      /\ \A i \in 1..(end - n) : SubSeq(data, n + 1, end)[i] = data[n + i]
  BY <1>2, SubSeqIs
<1>5. QED
  BY <1>1, <1>2, <1>3, <1>4

\* The elements of a sequence of octets are octets, as numbers.
LEMMA OctetsAt ==
  ASSUME NEW data \in Seq(Octet)
  PROVE  Len(data) \in Nat /\ \A i \in 1..Len(data) : data[i] \in 0..255
<1>1. Len(data) \in Nat /\ \A i \in 1..Len(data) : data[i] \in Octet
  OBVIOUS
<1>2. QED
  BY <1>1 DEF Octet

\* What struct.unpack makes of one, two or four octets is a natural number.
LEMMA NumberIs ==
  ASSUME NEW o \in Seq(Octet), Len(o) \in {1, 2, 4}
  PROVE  Number(o) \in Nat
<1>1. \A i \in 1..Len(o) : o[i] \in Nat
  <2>1. \A i \in 1..Len(o) : o[i] \in 0..255
    BY OctetsAt
  <2>2. \A n \in 0..255 : n \in Nat
    OBVIOUS
  <2>3. QED
    BY <2>1, <2>2
<1>2. CASE Len(o) = 1
  <2>1. o[1] \in Nat
    BY <1>1, <1>2
  <2>2. QED
    BY <2>1, <1>2 DEF Number
<1>3. CASE Len(o) = 2
  <2>1. o[1] \in Nat /\ o[2] \in Nat
    BY <1>1, <1>3
  <2>2. QED
    BY <2>1, <1>3 DEF Number
<1>4. CASE Len(o) = 4
  <2>1. o[1] \in Nat /\ o[2] \in Nat /\ o[3] \in Nat /\ o[4] \in Nat
    BY <1>1, <1>4
  <2>2. QED
    BY <2>1, <1>4 DEF Number
<1>5. QED
  BY <1>2, <1>3, <1>4

-----------------------------------------------------------------------------
\* The sizes of sdp_parse_size_desc.
LEMMA SizesAre ==
  /\ \A i \in 1..5 : Sizes[i] \in {1, 2, 4, 8, 16}
  /\ \A i \in 1..3 : Sizes[i] \in {1, 2, 4}
  /\ Sizes[1] = 1 /\ Sizes[2] = 2 /\ Sizes[3] = 4 /\ Sizes[4] = 8 /\ Sizes[5] = 16
BY DEF Sizes

\* Every code up to 8 is that of one type.
LEMMA CodesAre ==
  /\ DOMAIN Codes = {"Nil", "UInt", "SInt", "UUID", "String", "Bool", "ElemSeq", "AltElemSeq", "URL"}
  /\ \A code \in 0..8 : \E t \in DOMAIN Codes : Codes[t] = code
  /\ \A t, u \in DOMAIN Codes : Codes[t] = Codes[u] => t = u
  /\ \A t \in DOMAIN Codes : Codes[t] \in 0..8
  /\ Codes["Nil"] = 0
  /\ \A t \in DOMAIN Codes : Codes[t] = 0 => t = "Nil"
<1>1. /\ Codes["Nil"] = 0 /\ Codes["UInt"] = 1 /\ Codes["SInt"] = 2
      /\ Codes["UUID"] = 3 /\ Codes["String"] = 4 /\ Codes["Bool"] = 5
      /\ Codes["ElemSeq"] = 6 /\ Codes["AltElemSeq"] = 7 /\ Codes["URL"] = 8
  BY DEF Codes
<1>2. DOMAIN Codes = {"Nil", "UInt", "SInt", "UUID", "String", "Bool", "ElemSeq", "AltElemSeq", "URL"}
  BY DEF Codes
<1>3. \A code \in 0..8 : \E t \in DOMAIN Codes : Codes[t] = code
  BY <1>1, <1>2
<1>4. \A t, u \in DOMAIN Codes : Codes[t] = Codes[u] => t = u
  BY <1>1, <1>2
<1>5. QED
  BY <1>1, <1>2, <1>3, <1>4

\* sdp_parse_size_desc consumes at least an octet, and no more than there are.
LEMMA SizeDescIs ==
  ASSUME NEW data \in Seq(Octet), NEW d \in SizeDesc(data)
  PROVE  /\ data # <<>> /\ d.type \in DOMAIN Codes
         /\ d.size \in Nat
         /\ d.start \in 1..Len(data)
<1> DEFINE code == data[1] \div 8
           k == data[1] % 8
           more == IF k < 5 THEN 0 ELSE Sizes[k - 4]
           size == IF k < 5 THEN Sizes[k + 1] ELSE Number(Slice(data, 1, more))
<1>1. data # <<>>
  BY DEF SizeDesc
<1>2. Len(data) \in Nat /\ Len(data) >= 1 /\ data[1] \in 0..255
  <2>1. Len(data) \in Nat /\ Len(data) # 0
    BY <1>1, EmptySeq
  <2>2. QED
    BY <2>1, OctetsAt
<1>3. code \in 0..31 /\ k \in 0..7
  <2>1. \A n \in 0..255 : n \div 8 \in 0..31 /\ n % 8 \in 0..7
    OBVIOUS
  <2>2. QED
    BY <1>2, <2>1
<1> HIDE DEF code, k
<1>4. more \in {0, 1, 2, 4} /\ (k >= 5 => more # 0)
  BY <1>3, SizesAre
<1> HIDE DEF more
<1>5. CASE code = 0
  <2>1. d = [type |-> "Nil", size |-> 0, start |-> 1]
    BY <1>1, <1>5 DEF SizeDesc, code
  <2>2. QED
    BY <1>1, <1>2, <2>1, CodesAre
<1>6. CASE code # 0
  <2>1. /\ code \in 1..8 /\ ~(Len(data) < 1 + more)
        /\ d = [type  |-> CHOOSE t \in DOMAIN Codes : Codes[t] = code,
                size  |-> size, start |-> 1 + more]
    <3>1. ~(code > 8 \/ Len(data) < 1 + more)
      BY <1>1, <1>6 DEF SizeDesc, code, k, more
    <3>2. d = [type  |-> CHOOSE t \in DOMAIN Codes : Codes[t] = code,
                size  |-> size, start |-> 1 + more]
      BY <1>1, <1>6, <3>1 DEF SizeDesc, code, k, more
    <3>3. QED
      BY <3>1, <3>2, <1>3, <1>6
  <2>2. size \in Nat
    <3>1. CASE k < 5
      BY <3>1, <1>3, SizesAre
    <3>2. CASE ~(k < 5)
      <4>1. more \in {1, 2, 4}
        BY <3>2, <1>3, <1>4
      <4>2. 1 + more <= Len(data)
        BY <1>2, <1>4, <2>1
      <4>3. Slice(data, 1, more) \in Seq(Octet) /\ Len(Slice(data, 1, more)) = more
        <5>1. 1 \in Nat /\ more \in Nat
          BY <4>1
        <5>2. QED
          BY <4>2, <5>1, SliceIs
      <4>4. QED
        BY <3>2, <4>1, <4>3, NumberIs
    <3>3. QED
      BY <3>1, <3>2
  <2>3. (CHOOSE t \in DOMAIN Codes : Codes[t] = code) \in DOMAIN Codes
    BY <2>1, CodesAre
  <2>4. 1 + more \in 1..Len(data)
    BY <1>2, <1>4, <2>1
  <2>5. d.type = (CHOOSE t \in DOMAIN Codes : Codes[t] = code) /\ d.size = size /\ d.start = 1 + more
    BY <2>1
  <2>6. QED
    BY <1>1, <2>2, <2>3, <2>4, <2>5
<1>7. QED
  BY <1>5, <1>6

\* The values and the data in Parse (sdp_parse_data_element).
Values(type, size, elem, lists) ==
  CASE type = "Nil" -> {<<>>}
    [] type \in {"UInt", "SInt"} -> ParseInt(elem, size, type)
    [] type = "UUID" -> ParseUuid(elem, size)
    [] type \in {"String", "URL"} -> {<<"bytes", elem>>}
    [] type = "Bool" -> ParseBool(elem)
    [] type \in Lists -> lists[elem]
Data(d, data) == Slice(data, d.start, d.size)

\* Parse, by these.
LEMMA ParseBy ==
  ASSUME NEW data, NEW lists
  PROVE  Parse(data, lists)
         = UNION {{<<d.type, v, d.start + d.size>> : v \in Values(d.type, d.size, Data(d, data), lists)} : d \in SizeDesc(data)}
BY Zenon DEF Parse, Values, Data

\* sdp_parse_data_element consumes at least an octet.
LEMMA ParseIs ==
  ASSUME NEW data \in Seq(Octet), NEW lists, NEW e \in Parse(data, lists)
  PROVE  /\ data # <<>> /\ e[3] \in Nat \ {0}
         /\ e = <<e[1], e[2], e[3]>>
<1>1. PICK d \in SizeDesc(data) : \E v \in Values(d.type, d.size, Data(d, data), lists) : e = <<d.type, v, d.start + d.size>>
  BY ParseBy
<1>2. /\ data # <<>> /\ d.size \in Nat
      /\ d.start \in 1..Len(data)
  BY SizeDescIs
<1>3. d.start + d.size \in Nat \ {0}
  BY <1>2
<1>4. QED
  BY <1>1, <1>2, <1>3

\* What sdp_parse_data_element makes of octets depends on what it makes of the
\* lists of fewer.
LEMMA ParseLocal ==
  ASSUME NEW data \in Seq(Octet), NEW g, NEW h,
         \A s \in Seq(Octet) : Len(s) < Len(data) => g[s] = h[s]
  PROVE  Parse(data, g) = Parse(data, h)
<1>1. ASSUME NEW d \in SizeDesc(data)
      PROVE  Values(d.type, d.size, Data(d, data), g) = Values(d.type, d.size, Data(d, data), h)
  <2> DEFINE elem == Slice(data, d.start, d.size)
  <2>1. d.size \in Nat /\ d.start \in 1..Len(data)
    BY <1>1, SizeDescIs
  <2>2. Len(data) \in Nat
    BY OctetsAt
  <2>3. elem \in Seq(Octet) /\ (Len(elem) = 0 \/ Len(elem) <= Len(data) - d.start)
    <3>1. d.start \in Nat
      BY <2>1
    <3>2. QED
      BY <2>1, <3>1, SliceIs
  <2>4. Len(elem) \in Nat
    BY <2>3
  <2>5. Len(elem) < Len(data)
    BY <2>1, <2>2, <2>3, <2>4
  <2>6. g[elem] = h[elem]
    BY <2>3, <2>5
  <2> HIDE DEF elem
  <2>7. QED
    BY Zenon, <2>6 DEF Values, Data, elem
<1> DEFINE Of(lists, d) == {<<d.type, v, d.start + d.size>> :
                             v \in Values(d.type, d.size, Data(d, data), lists)}
<1>2. \A d \in SizeDesc(data) : Of(g, d) = Of(h, d)
  BY <1>1
<1>3. Parse(data, g) = UNION {Of(g, d) : d \in SizeDesc(data)}
      /\ Parse(data, h) = UNION {Of(h, d) : d \in SizeDesc(data)}
  BY ParseBy
<1> HIDE DEF Of
<1>4. QED
  BY <1>2, <1>3

\* The body of ParseSeq (sdp_parse_data_elementSequence).
Body(data, lists) ==
  IF data = <<>> THEN {<<>>}
  ELSE UNION {{<<<<e[1], e[2]>>>> \o rest : rest \in lists[From(data, e[3])]}
              : e \in Parse(data, lists)}

\* What it makes of octets depends on what it makes of fewer.
LEMMA BodyLocal ==
  ASSUME NEW data \in Seq(Octet), NEW g, NEW h,
         \A s \in Seq(Octet) : Len(s) < Len(data) => g[s] = h[s]
  PROVE  Body(data, g) = Body(data, h)
<1>1. Parse(data, g) = Parse(data, h)
  BY ParseLocal
<1>2. ASSUME NEW e \in Parse(data, h) PROVE g[From(data, e[3])] = h[From(data, e[3])]
  <2>1. data # <<>> /\ e[3] \in Nat \ {0}
    BY <1>2, ParseIs
  <2>2. Len(data) \in Nat /\ Len(data) # 0
    BY <2>1, EmptySeq
  <2>3. From(data, e[3]) \in Seq(Octet)
        /\ Len(From(data, e[3])) = IF e[3] < Len(data) THEN Len(data) - e[3] ELSE 0
    BY <2>1, FromIs
  <2>4. Len(From(data, e[3])) < Len(data)
    BY <2>1, <2>2, <2>3
  <2>5. QED
    BY <2>3, <2>4
<1> DEFINE Of(lists, e) == {<<<<e[1], e[2]>>>> \o rest : rest \in lists[From(data, e[3])]}
<1>3. \A e \in Parse(data, h) : Of(g, e) = Of(h, e)
  BY <1>2
<1>4. {Of(g, e) : e \in Parse(data, g)} = {Of(h, e) : e \in Parse(data, h)}
  <2> HIDE DEF Of
  <2>1. QED
    BY <1>1, <1>3
<1>5. QED
  BY Zenon, <1>4 DEF Body

\* The sequences of less than n octets, and the functions that satisfy the
\* equation of ParseSeq for these.
Shorter(n) == {s \in Seq(Octet) : Len(s) < n}
Fixed(g, n) == g = [data \in Shorter(n) |-> Body(data, g)]

\* There is one for every n, by induction.
LEMMA FixedExists ==
  ASSUME NEW n \in Nat
  PROVE  \E g : Fixed(g, n)
<1> DEFINE T == {m \in Nat : \E g : Fixed(g, m)}
<1>1. 0 \in T
  <2>1. Shorter(0) = {}
    <3>1. \A s \in Seq(Octet) : Len(s) \in Nat
      BY OctetsAt
    <3>2. \A s \in Seq(Octet) : ~(Len(s) < 0)
      BY <3>1
    <3>3. QED
      BY <3>2 DEF Shorter
  <2> DEFINE g == [data \in Shorter(0) |-> {}]
  <2>2. Fixed(g, 0)
    BY <2>1 DEF Fixed
  <2>3. QED
    BY <2>2
<1>2. ASSUME NEW m \in Nat, m \in T PROVE m + 1 \in T
  <2>1. PICK g : Fixed(g, m)
    BY <1>2
  <2> DEFINE h == [data \in Shorter(m + 1) |-> Body(data, g)]
  <2>2. ASSUME NEW data \in Shorter(m + 1) PROVE Body(data, g) = Body(data, h)
    <3>1. data \in Seq(Octet) /\ Len(data) < m + 1 /\ Len(data) \in Nat
      BY <2>2, OctetsAt DEF Shorter
    <3>2. ASSUME NEW s \in Seq(Octet), Len(s) < Len(data) PROVE g[s] = h[s]
      <4>1. Len(s) \in Nat
        BY OctetsAt
      <4>2. Len(s) < m /\ Len(s) < m + 1
        BY <3>1, <3>2, <4>1
      <4>3. s \in Shorter(m) /\ s \in Shorter(m + 1)
        BY <4>2 DEF Shorter
      <4>4. g[s] = Body(s, g)
        BY <2>1, <4>3 DEF Fixed
      <4>5. h[s] = Body(s, g)
        BY <4>3
      <4>6. QED
        BY <4>4, <4>5
    <3> HIDE DEF h
    <3>3. QED
      BY <3>1, <3>2, BodyLocal
  <2>3. h = [data \in Shorter(m + 1) |-> Body(data, h)]
    <3>1. [data \in Shorter(m + 1) |-> Body(data, g)] = [data \in Shorter(m + 1) |-> Body(data, h)]
      BY <2>2
    <3>2. QED
      BY <3>1
  <2>4. Fixed(h, m + 1)
    BY <2>3 DEF Fixed
  <2>5. m + 1 \in Nat
    OBVIOUS
  <2>6. QED
    BY <2>4, <2>5
<1> HIDE DEF T
<1>3. Nat \subseteq T
  BY <1>1, <1>2, SetInduction
<1>4. QED
  BY <1>3 DEF T

\* Two of them agree where both are to satisfy the equation.
LEMMA FixedUnique ==
  ASSUME NEW m \in Nat, NEW n \in Nat, NEW g, NEW h, Fixed(g, m), Fixed(h, n),
         NEW s \in Shorter(m) \cap Shorter(n)
  PROVE  g[s] = h[s]
<1> DEFINE Bad == {x \in Shorter(m) \cap Shorter(n) : g[x] # h[x]}
           T == {Len(x) : x \in Bad}
<1> SUFFICES ASSUME Bad # {} PROVE FALSE
  OBVIOUS
<1>1. T \in SUBSET Nat /\ T # {}
  <2>1. \A x \in Bad : Len(x) \in Nat
    BY OctetsAt DEF Shorter
  <2>2. QED
    BY <2>1
<1>2. PICK k \in T : \A j \in T : k <= j
  <2> HIDE DEF T
  <2>1. QED
    BY <1>1, LeastNumber
<1>3. PICK x \in Bad : Len(x) = k
  BY <1>2
<1>4. x \in Seq(Octet) /\ Len(x) < m /\ Len(x) < n /\ Len(x) \in Nat
  BY <1>3, OctetsAt DEF Shorter
<1>5. ASSUME NEW y \in Seq(Octet), Len(y) < Len(x) PROVE g[y] = h[y]
  <2>1. Len(y) \in Nat
    BY OctetsAt
  <2>2. Len(y) < m /\ Len(y) < n
    BY <1>4, <1>5, <2>1
  <2>3. y \in Shorter(m) \cap Shorter(n)
    BY <2>2 DEF Shorter
  <2>4. ASSUME y \in Bad PROVE FALSE
    <3>1. Len(y) \in T
      BY <2>4
    <3>2. k <= Len(y)
      BY <1>2, <3>1
    <3>3. QED
      BY <1>3, <1>4, <1>5, <2>1, <3>2
  <2>5. QED
    BY <2>3, <2>4
<1>6. Body(x, g) = Body(x, h)
  <2> HIDE DEF Bad, T
  <2>1. QED
    BY <1>4, <1>5, BodyLocal
<1>7. x \in Shorter(m) /\ x \in Shorter(n) /\ g[x] # h[x]
  BY <1>3
<1>8. g[x] = Body(x, g) /\ h[x] = Body(x, h)
  BY <1>7 DEF Fixed
<1>9. QED
  BY <1>6, <1>7, <1>8

\* The parser of lists ends for all octets: its recursion is over fewer octets
\* each time, so that one function, ParseSeq, satisfies its equation
\* (sdp_parse_data_elementSequence with sdp_parse_data_element).
THEOREM ParseSeqIs ==
  ASSUME NEW data \in Seq(Octet)
  PROVE  ParseSeq[data] = Body(data, ParseSeq)
<1> DEFINE G(n) == CHOOSE g : Fixed(g, n)
           F == [x \in Seq(Octet) |-> G(Len(x) + 1)[x]]
<1>1. \A n \in Nat : Fixed(G(n), n)
  BY FixedExists
<1> HIDE DEF G
<1>2. ASSUME NEW x \in Seq(Octet) PROVE F[x] = Body(x, F)
  <2>1. Len(x) \in Nat /\ Len(x) + 1 \in Nat
    BY OctetsAt
  <2>2. x \in Shorter(Len(x) + 1)
    BY <2>1 DEF Shorter
  <2>3. Fixed(G(Len(x) + 1), Len(x) + 1)
    BY <1>1, <2>1
  <2>4. F[x] = Body(x, G(Len(x) + 1))
    BY <2>2, <2>3 DEF Fixed
  <2>5. ASSUME NEW s \in Seq(Octet), Len(s) < Len(x) PROVE G(Len(x) + 1)[s] = F[s]
    <3>1. Len(s) \in Nat /\ Len(s) + 1 \in Nat
      BY OctetsAt
    <3>2. Len(s) < Len(x) + 1 /\ Len(s) < Len(s) + 1
      BY <2>1, <2>5, <3>1
    <3>3. s \in Shorter(Len(x) + 1) \cap Shorter(Len(s) + 1)
      BY <3>2 DEF Shorter
    <3>4. Fixed(G(Len(s) + 1), Len(s) + 1)
      BY <1>1, <3>1
    <3>5. G(Len(x) + 1)[s] = G(Len(s) + 1)[s]
      BY <2>1, <2>3, <3>1, <3>3, <3>4, FixedUnique
    <3>6. QED
      BY <3>5
  <2> HIDE DEF F
  <2>6. Body(x, G(Len(x) + 1)) = Body(x, F)
    BY <2>5, BodyLocal
  <2>7. QED
    BY <2>4, <2>6
<1>3. F = [x \in Seq(Octet) |-> Body(x, F)]
  <2>1. F = [x \in Seq(Octet) |-> F[x]]
    OBVIOUS
  <2> HIDE DEF F
  <2>2. QED
    BY <1>2, <2>1
<1> HIDE DEF F
<1>4. ParseSeq = [x \in Seq(Octet) |-> Body(x, ParseSeq)]
  <2>1. ParseSeq = CHOOSE f : f = [x \in Seq(Octet) |-> Body(x, f)]
    BY DEF ParseSeq, Body
  <2>2. QED
    BY <1>3, <2>1
<1>5. QED
  BY <1>4

-----------------------------------------------------------------------------
\* The concatenation of sequences, one after the other.
LEMMA FlattenIs ==
  ASSUME NEW S, NEW s \in Seq(Seq(S))
  PROVE  \E p \in [0..Len(s) -> Seq(S)] :
           /\ p[0] = <<>> /\ p[Len(s)] = FlattenSeq(s)
           /\ \A i \in 1..Len(s) : p[i] = p[i - 1] \o s[i]
<1>0. Len(s) \in Nat /\ \A i \in 1..Len(s) : s[i] \in Seq(S)
  BY LenProperties, ElementOfSeq
<1>1. CASE Len(s) = 0
  <2>1. s = <<>>
    BY <1>1, EmptySeq
  <2>2. FlattenSeq(s) = <<>>
    BY <1>1, <2>1 DEF FlattenSeq
  <2> DEFINE p == [i \in {0} |-> <<>>]
  <2>3. 0..Len(s) = {0}
    BY <1>1
  <2>4. p \in [0..Len(s) -> Seq(S)]
    BY <2>3, EmptySeq
  <2>5. p[0] = <<>> /\ p[Len(s)] = FlattenSeq(s)
    BY <1>1, <2>2
  <2>6. \A i \in 1..Len(s) : p[i] = p[i - 1] \o s[i]
    BY <1>1
  <2> HIDE DEF p
  <2>7. QED
    BY <2>4, <2>5, <2>6
<1>2. CASE Len(s) # 0
  <2> DEFINE Fl(f, m) == f = [i \in 1..m |-> IF i = 1 THEN s[i] ELSE f[i - 1] \o s[i]]
             T == {m \in Nat : \E f : Fl(f, m)}
  <2>1. 0 \in T
    <3>1. 1..0 = {}
      OBVIOUS
    <3> DEFINE f == [i \in {} |-> {}]
    <3>2. Fl(f, 0)
      BY <3>1
    <3>3. QED
      BY <3>2
  <2>2. ASSUME NEW m \in Nat, m \in T PROVE m + 1 \in T
    <3>1. PICK f : Fl(f, m)
      BY <2>2
    <3> DEFINE g == [i \in 1..(m + 1) |-> IF i = 1 THEN s[i] ELSE f[i - 1] \o s[i]]
    <3>2. \A i \in 1..(m + 1) : i # 1 => f[i - 1] = g[i - 1]
      <4>1. ASSUME NEW i \in 1..(m + 1), i # 1 PROVE f[i - 1] = g[i - 1]
        <5>1. i - 1 \in 1..m /\ i - 1 \in 1..(m + 1)
          BY <4>1
        <5>2. f[i - 1] = IF i - 1 = 1 THEN s[i - 1] ELSE f[i - 1 - 1] \o s[i - 1]
          BY <3>1, <5>1
        <5>3. QED
          BY <5>1, <5>2
      <4>2. QED
        BY <4>1
    <3>3. g = [i \in 1..(m + 1) |-> IF i = 1 THEN s[i] ELSE g[i - 1] \o s[i]]
      <4> DEFINE a(h, i) == IF i = 1 THEN s[i] ELSE h[i - 1] \o s[i]
      <4>1. \A i \in 1..(m + 1) : a(f, i) = a(g, i)
        <5> HIDE DEF g
        <5>1. QED
          BY <3>2
      <4>2. g = [i \in 1..(m + 1) |-> a(f, i)]
        OBVIOUS
      <4> HIDE DEF a, g
      <4>3. g = [i \in 1..(m + 1) |-> a(g, i)]
        BY <4>1, <4>2
      <4>4. QED
        BY <4>3 DEF a
    <3>4. Fl(g, m + 1)
      <4> HIDE DEF g
      <4>1. QED
        BY <3>3
    <3>5. m + 1 \in Nat
      OBVIOUS
    <3> HIDE DEF Fl, g
    <3>6. QED
      BY <3>4, <3>5
  <2> HIDE DEF T
  <2>3. Nat \subseteq T
    BY <2>1, <2>2, SetInduction
  <2>4. \E f : Fl(f, Len(s))
    BY <1>0, <2>3 DEF T
  <2> DEFINE flat == CHOOSE f : Fl(f, Len(s))
  <2>5. Fl(flat, Len(s))
    <3> HIDE DEF Fl
    <3>1. QED
      BY <2>4
  <2>6. FlattenSeq(s) = flat[Len(s)]
    BY Zenon, <1>2 DEF FlattenSeq
  <2> HIDE DEF flat
  <2>7. \A i \in 1..Len(s) : flat[i] = IF i = 1 THEN s[i] ELSE flat[i - 1] \o s[i]
    BY <2>5
  <2> DEFINE p == [i \in 0..Len(s) |-> IF i = 0 THEN <<>> ELSE flat[i]]
  <2>8. ASSUME NEW i \in 1..Len(s), p[i - 1] \in Seq(S) PROVE p[i] = p[i - 1] \o s[i] /\ p[i] \in Seq(S)
    <3>1. i \in 0..Len(s) /\ i - 1 \in 0..Len(s) /\ i # 0
      BY <1>0
    <3>2. s[i] \in Seq(S)
      BY <1>0
    <3>3. p[i] = p[i - 1] \o s[i]
      <4>1. CASE i = 1
        <5>1. p[i - 1] = <<>>
          BY <4>1, <3>1
        <5>2. p[i] = s[i]
          BY <2>7, <3>1, <4>1
        <5>3. <<>> \o s[i] = s[i]
          BY <3>2, ConcatEmptySeq
        <5>4. QED
          BY <5>1, <5>2, <5>3
      <4>2. CASE i # 1
        <5>1. i - 1 # 0
          BY <4>2
        <5>2. p[i - 1] = flat[i - 1]
          BY <5>1, <3>1
        <5>3. p[i] = flat[i - 1] \o s[i]
          BY <2>7, <3>1, <4>2
        <5>4. QED
          BY <5>2, <5>3
      <4>3. QED
        BY <4>1, <4>2
    <3>4. p[i - 1] \o s[i] \in Seq(S)
      <4> HIDE DEF p
      <4>1. QED
        BY <2>8, <3>2, ConcatProperties
    <3>5. QED
      BY <3>3, <3>4
  <2> DEFINE U == {m \in Nat : m <= Len(s) => p[m] \in Seq(S)}
  <2>9. 0 \in U
    <3>1. p[0] = <<>>
      BY <1>0
    <3>2. QED
      BY <3>1, EmptySeq
  <2>10. p[0] = <<>> /\ p[Len(s)] = flat[Len(s)]
    BY <1>0, <1>2
  <2>11. DOMAIN p = 0..Len(s) /\ p = [i \in 0..Len(s) |-> p[i]]
    OBVIOUS
  <2> HIDE DEF p
  <2>12. ASSUME NEW m \in Nat, m \in U PROVE m + 1 \in U
    <3>1. ASSUME m + 1 <= Len(s) PROVE p[m + 1] \in Seq(S)
      <4>1. m + 1 \in 1..Len(s) /\ m + 1 - 1 = m /\ m <= Len(s)
        BY <1>0, <3>1
      <4>2. p[m] \in Seq(S)
        BY <2>12, <4>1
      <4>3. m + 1 \in 1..Len(s) /\ p[(m + 1) - 1] \in Seq(S)
        BY <4>1, <4>2
      <4>4. QED
        BY <2>8, <4>3
    <3>2. m + 1 \in Nat
      OBVIOUS
    <3>3. QED
      BY <3>1, <3>2
  <2> HIDE DEF U
  <2>13. Nat \subseteq U
    BY <2>9, <2>12, SetInduction
  <2>14. \A m \in 0..Len(s) : p[m] \in Seq(S)
    <3>1. \A m \in 0..Len(s) : m \in Nat /\ m <= Len(s)
      BY <1>0
    <3>2. QED
      BY <2>13, <3>1 DEF U
  <2>15. p \in [0..Len(s) -> Seq(S)]
    BY <2>11, <2>14
  <2>16. \A i \in 1..Len(s) : p[i] = p[i - 1] \o s[i]
    <3>1. \A i \in 1..Len(s) : i - 1 \in 0..Len(s)
      BY <1>0
    <3>2. QED
      BY <2>8, <2>14, <3>1
  <2>17. QED
    BY <2>6, <2>10, <2>15, <2>16
<1>3. QED
  BY <1>1, <1>2

\* It is a sequence over the same set.
LEMMA FlattenInSeq ==
  ASSUME NEW S, NEW s \in Seq(Seq(S))
  PROVE  FlattenSeq(s) \in Seq(S)
<1>1. Len(s) \in Nat
  BY LenProperties
<1>2. Len(s) \in 0..Len(s)
  BY <1>1
<1>3. PICK p \in [0..Len(s) -> Seq(S)] : p[Len(s)] = FlattenSeq(s)
  BY FlattenIs
<1>4. QED
  BY <1>2, <1>3

\* A function of 1..n is a sequence.
LEMMA SequenceOf ==
  ASSUME NEW S, NEW n \in Nat, NEW s, s = [i \in 1..n |-> s[i]], \A i \in 1..n : s[i] \in S
  PROVE  s \in Seq(S) /\ Len(s) = n
<1>1. s \in [1..n -> S]
  BY Zenon
<1>2. s \in Seq(S)
  BY <1>1
<1>3. DOMAIN s = 1..n
  BY Zenon
<1>4. Len(s) = n
  BY <1>2, <1>3
<1>5. QED
  BY <1>2, <1>4

\* str.encode gives octets.
LEMMA EncodedIs ==
  ASSUME NEW chars \in Seq(Char)
  PROVE  Encoded(chars) \in Seq(Octet)
<1>1. Len(chars) \in Nat /\ DOMAIN chars = 1..Len(chars) /\ chars = [i \in 1..Len(chars) |-> chars[i]]
      /\ \A i \in 1..Len(chars) : chars[i] \in Char
  BY LenProperties, ElementOfSeq
<1>2. CASE \A c \in Range(chars) : c < 128
  <2>1. \A i \in 1..Len(chars) : chars[i] \in Range(chars)
    BY <1>1 DEF Range
  <2>2. \A c \in Char : c < 128 => c \in Octet
    BY DEF Char, Octet
  <2>3. \A i \in 1..Len(chars) : chars[i] \in Octet
    BY <1>1, <1>2, <2>1, <2>2
  <2>4. chars \in Seq(Octet)
    BY <1>1, <2>3, SequenceOf
  <2>5. QED
    BY <1>2, <2>4 DEF Encoded
<1>3. CASE ~(\A c \in Range(chars) : c < 128)
  <2> DEFINE s == [i \in DOMAIN chars |-> Octets(chars[i])]
  <2>1. ASSUME NEW c \in Char PROVE Octets(c) \in Seq(Octet)
    <3>1. c \in 0..2047
      BY DEF Char
    <3>2. CASE c < 128
      <4>1. c \in Octet
        BY <3>1, <3>2 DEF Octet
      <4>2. QED
        BY <3>2, <4>1 DEF Octets
    <3>3. CASE ~(c < 128)
      <4>1. \A n \in 0..2047 : 192 + (n \div 64) \in 0..255 /\ 128 + (n % 64) \in 0..255
        OBVIOUS
      <4>2. 192 + (c \div 64) \in Octet /\ 128 + (c % 64) \in Octet
        BY SMTT(30), <3>1, <4>1 DEF Octet
      <4>3. QED
        BY <3>3, <4>2 DEF Octets
    <3>4. QED
      BY <3>2, <3>3
  <2>2. s = [i \in 1..Len(chars) |-> s[i]] /\ \A i \in 1..Len(chars) : s[i] \in Seq(Octet)
    BY <1>1, <2>1
  <2>3. Encoded(chars) = FlattenSeq(s)
    BY <1>3 DEF Encoded
  <2> HIDE DEF s
  <2>4. s \in Seq(Seq(Octet))
    BY <1>1, <2>2, SequenceOf
  <2>5. QED
    BY <2>3, <2>4, FlattenInSeq
<1>4. QED
  BY <1>2, <1>3

\* An element of the type, with the value, is read off the code, and no more than
\* the code, whatever follows it; the octets are those of one list of elements;
\* a list with an element before it.
Reads(code, type, value) ==
  /\ code \in Seq(Octet) /\ code # <<>>
  /\ \A rest \in Seq(Octet) : Parse(code \o rest, ParseSeq) = {<<type, value, Len(code)>>}

\* What is left of octets without those at their start.
LEMMA FromConcat ==
  ASSUME NEW c \in Seq(Octet), NEW r \in Seq(Octet)
  PROVE  From(c \o r, Len(c)) = r
<1> DEFINE d == c \o r
           f == From(d, Len(c))
<1>1. Len(c) \in Nat /\ Len(r) \in Nat
  BY OctetsAt
<1>2. /\ d \in Seq(Octet) /\ Len(d) = Len(c) + Len(r)
      /\ \A i \in 1..(Len(c) + Len(r)) : d[i] = IF i <= Len(c) THEN c[i] ELSE r[i - Len(c)]
  BY ConcatProperties
<1> HIDE DEF d
<1>3. /\ f \in Seq(Octet)
      /\ Len(f) = IF Len(c) < Len(d) THEN Len(d) - Len(c) ELSE 0
      /\ \A i \in 1..(Len(d) - Len(c)) : f[i] = d[Len(c) + i]
  BY <1>1, <1>2, FromIs
<1> HIDE DEF f
<1>4. Len(f) = Len(r) /\ Len(d) - Len(c) = Len(r)
  BY <1>1, <1>2, <1>3
<1>5. ASSUME NEW i \in 1..Len(f) PROVE f[i] = r[i]
  <2>1. i \in 1..Len(r)
    BY <1>4
  <2>2. Len(c) + i \in 1..(Len(c) + Len(r)) /\ ~(Len(c) + i <= Len(c)) /\ Len(c) + i - Len(c) = i
    BY <1>1, <2>1
  <2>3. d[Len(c) + i] = r[i]
    BY <1>2, <2>2
  <2>4. f[i] = d[Len(c) + i]
    BY <1>3, <1>4, <2>1
  <2>5. QED
    BY <2>3, <2>4
<1>6. f = r
  BY <1>3, <1>4, <1>5, SeqEqual
<1>7. QED
  BY <1>6 DEF f, d

ParsesTo(data, list) == ParseSeq[data] = {list}
Before(t, v, list) == <<<<t, v>>>> \o list

\* An element is read before the list of those that follow.
LEMMA ReadsFirst ==
  ASSUME NEW c, NEW t, NEW v, Reads(c, t, v),
         NEW r \in Seq(Octet), NEW w, ParsesTo(r, w)
  PROVE  ParsesTo(c \o r, Before(t, v, w))
<1> DEFINE d == c \o r
<1>1. c \in Seq(Octet) /\ c # <<>>
  BY DEF Reads
<1>2. d \in Seq(Octet) /\ d # <<>>
  BY <1>1, ConcatProperties, ConcatEqualIffEmpty
<1>3. Parse(d, ParseSeq) = {<<t, v, Len(c)>>}
  BY DEF Reads
<1>4. From(d, Len(c)) = r
  BY <1>1, FromConcat
<1> HIDE DEF d
<1> DEFINE Of(e) == {<<<<e[1], e[2]>>>> \o rest : rest \in ParseSeq[From(d, e[3])]}
           x == <<t, v, Len(c)>>
<1>5. Of(x) = {<<<<t, v>>>> \o w}
  <2>1. x[1] = t /\ x[2] = v /\ x[3] = Len(c)
    OBVIOUS
  <2>2. ParseSeq[From(d, x[3])] = {w}
    BY <1>4, <2>1 DEF ParsesTo
  <2> HIDE DEF x
  <2>3. QED
    BY <2>1, <2>2
<1>6. ParseSeq[d] = UNION {Of(e) : e \in Parse(d, ParseSeq)}
  BY <1>2, ParseSeqIs DEF Body
<1> HIDE DEF Of
<1>7. UNION {Of(e) : e \in {x}} = Of(x)
  OBVIOUS
<1>8. QED
  BY <1>3, <1>5, <1>6, <1>7 DEF d, ParsesTo, Before

\* The concatenation, as a relation.
Joined(a, b, c) == a = b \o c

\* It is associative.
LEMMA JoinedAgain ==
  ASSUME NEW a \in Seq(Octet), NEW b \in Seq(Octet), NEW c \in Seq(Octet), NEW r \in Seq(Octet),
         NEW f, Joined(a, b, c), Joined(f, a, r)
  PROVE  Joined(f, b, c \o r)
BY ConcatAssociative DEF Joined

\* Each of the codes is read as an element.
AllRead(n, codes, t, v) ==
  codes = [i \in 1..n |-> codes[i]] /\ \A i \in 1..n : Reads(codes[i], t[i], v[i])

\* A list is read off the codes of its elements, by induction over them.
LEMMA ListReads ==
  ASSUME NEW n \in Nat, NEW codes, NEW t, NEW v, AllRead(n, codes, t, v)
  PROVE  /\ FlattenSeq(codes) \in Seq(Octet)
         /\ ParsesTo(FlattenSeq(codes), [i \in 1..n |-> <<t[i], v[i]>>])
<1> DEFINE Pairs_(k) == [i \in 1..(n - k) |-> <<t[k + i], v[k + i]>>]
           Els == {<<t[i], v[i]>> : i \in 1..n}
           F == FlattenSeq(codes)
<1>1. codes \in Seq(Seq(Octet)) /\ Len(codes) = n
  <2>1. \A i \in 1..n : codes[i] \in Seq(Octet)
    BY DEF Reads, AllRead
  <2>2. QED
    BY <2>1, SequenceOf DEF AllRead
<1>2. F \in Seq(Octet)
  BY <1>1, FlattenInSeq
<1> DEFINE Pre_(p) == /\ p \in [0..n -> Seq(Octet)] /\ p[0] = <<>> /\ p[n] = F
                          /\ \A i \in 1..n : p[i] = p[i - 1] \o codes[i]
<1>3. PICK p : Pre_(p)
  <2>1. PICK p \in [0..Len(codes) -> Seq(Octet)] :
           /\ p[0] = <<>> /\ p[Len(codes)] = FlattenSeq(codes)
           /\ \A i \in 1..Len(codes) : p[i] = p[i - 1] \o codes[i]
    BY <1>1, FlattenIs
  <2>2. Pre_(p)
    BY <1>1, <2>1
  <2> HIDE DEF Pre_
  <2>3. QED
    BY <2>2
<1> HIDE DEF F, Pre_
<1> DEFINE After(k) == \E r \in Seq(Octet) : F = p[k] \o r /\ ParsesTo(r, Pairs_(k))
           T == {j \in Nat : j <= n => After(n - j)}
<1>4. 0 \in T
  <2>1. n - 0 = n /\ 1..(n - n) = {}
    OBVIOUS
  <2>2. Pairs_(n) = <<>>
    BY <2>1
  <2>3. <<>> \in Seq(Octet)
    OBVIOUS
  <2>4. ParsesTo(<<>>, <<>>)
    BY <2>3, ParseSeqIs DEF Body, ParsesTo
  <2>5. F = p[n] \o <<>>
    BY <1>2, <1>3, ConcatEmptySeq DEF Pre_
  <2> HIDE DEF Pairs_
  <2>6. After(n)
    BY <2>2, <2>3, <2>4, <2>5
  <2> HIDE DEF After
  <2>7. QED
    BY <2>1, <2>6
<1>5. ASSUME NEW j \in Nat, j \in T PROVE j + 1 \in T
  <2>1. ASSUME j + 1 <= n PROVE After(n - (j + 1))
    <3> DEFINE k == n - (j + 1)
               i == n - j
    <3>1. k \in 0..n /\ i \in 1..n /\ i \in 0..n /\ i - 1 = k /\ j <= n /\ i = k + 1
      BY <2>1
    <3>2. After(i)
      BY <1>5, <3>1
    <3> HIDE DEF k, i
    <3>3. PICK r \in Seq(Octet) : F = p[i] \o r /\ ParsesTo(r, Pairs_(i))
      BY <3>2
    <3>4. Reads(codes[i], t[i], v[i])
      BY <3>1 DEF AllRead
    <3> DEFINE c == codes[i]
    <3>5. c \in Seq(Octet) /\ Reads(c, t[i], v[i])
      BY <3>4 DEF Reads
    <3> HIDE DEF c
    <3>6. c \o r \in Seq(Octet)
      BY <3>3, <3>5, ConcatProperties
    <3>7. F = p[k] \o (c \o r)
      <4> DEFINE a == p[i]
                 b == p[k]
      <4>1. Joined(a, b, c) /\ a \in Seq(Octet) /\ b \in Seq(Octet)
        BY <1>3, <3>1 DEF c, Pre_, Joined
      <4>2. r \in Seq(Octet) /\ Joined(F, a, r)
        BY <3>3 DEF Joined
      <4> HIDE DEF a, b
      <4>3. Joined(F, b, c \o r)
        BY <3>5, <4>1, <4>2, JoinedAgain
      <4>4. QED
        BY <4>3 DEF b, Joined
    <3>8. ParsesTo(c \o r, Before(t[i], v[i], Pairs_(i)))
      <4>1. r \in Seq(Octet) /\ ParsesTo(r, Pairs_(i))
        BY <3>3
      <4> HIDE DEF Pairs_
      <4>2. QED
        BY <3>5, <4>1, ReadsFirst
    <3>9. Before(t[i], v[i], Pairs_(i)) = Pairs_(k)
      <4> DEFINE one == <<<<t[i], v[i]>>>>
                 x == Pairs_(i)
                 y == Pairs_(k)
      <4>1. n - i \in Nat /\ n - k \in Nat /\ n - k = 1 + (n - i)
        BY <3>1
      <4>2. x \in Seq(Els) /\ Len(x) = n - i
        <5>1. x = [m \in 1..(n - i) |-> x[m]] /\ \A m \in 1..(n - i) : x[m] \in Els
          <6>1. \A m \in 1..(n - i) : i + m \in 1..n
            BY <3>1
          <6>2. QED
            BY <6>1
        <5> HIDE DEF x, Els
        <5>2. QED
          BY <4>1, <5>1, SequenceOf
      <4>3. y \in Seq(Els) /\ Len(y) = n - k
        <5>1. y = [m \in 1..(n - k) |-> y[m]] /\ \A m \in 1..(n - k) : y[m] \in Els
          <6>1. \A m \in 1..(n - k) : k + m \in 1..n
            BY <3>1
          <6>2. QED
            BY <6>1
        <5> HIDE DEF y, Els
        <5>2. QED
          BY <4>1, <5>1, SequenceOf
      <4>4. one \in Seq(Els) /\ Len(one) = 1 /\ one[1] = <<t[i], v[i]>>
        <5>1. <<t[i], v[i]>> \in Els
          BY <3>1
        <5> HIDE DEF Els
        <5>2. QED
          BY <5>1
      <4>5. \A m \in 1..(n - i) : x[m] = <<t[i + m], v[i + m]>>
        OBVIOUS
      <4>6. \A m \in 1..(n - k) : y[m] = <<t[k + m], v[k + m]>>
        OBVIOUS
      <4> HIDE DEF one, x, y, Els
      <4>7. /\ one \o x \in Seq(Els)
            /\ Len(one \o x) = Len(one) + Len(x)
            /\ \A m \in 1..(Len(one) + Len(x)) : (one \o x)[m] = IF m <= Len(one) THEN one[m] ELSE x[m - Len(one)]
        BY <4>2, <4>4, ConcatProperties
      <4>8. Len(one \o x) = n - k
        BY <4>1, <4>2, <4>4, <4>7
      <4>9. ASSUME NEW m \in 1..(n - k) PROVE (one \o x)[m] = y[m]
        <5>1. y[m] = <<t[k + m], v[k + m]>>
          BY <4>6
        <5>2. m \in 1..(1 + (n - i))
          BY <4>1
        <5>3. CASE m = 1
          <6>1. (one \o x)[1] = one[1]
            BY <4>2, <4>4, <4>7, <5>2, <5>3
          <6>2. QED
            BY <3>1, <4>4, <5>1, <5>3, <6>1
        <5>4. CASE m # 1
          <6>0. m \in Nat /\ n - i \in Nat
            BY <4>1, <5>2
          <6> DEFINE q == n - i
          <6>a. m - 1 \in 1..q
            <7> HIDE DEF q
            <7>1. q \in Nat /\ m \in 1..(1 + q)
              BY <5>2, <6>0 DEF q
            <7>2. QED
              BY <5>4, <7>1
          <6>b. i + (m - 1) = k + m
            <7>1. k \in Nat /\ i = k + 1
              BY <3>1
            <7>2. QED
              BY <6>0, <7>1
          <6>1. m - 1 \in 1..(n - i) /\ i + (m - 1) = k + m
            BY <6>a, <6>b
          <6>2. (one \o x)[m] = x[m - 1]
            BY <4>2, <4>4, <4>7, <5>2, <5>4, <6>1
          <6>3. x[m - 1] = <<t[i + (m - 1)], v[i + (m - 1)]>>
            BY <4>5, <6>1
          <6>4. QED
            BY <5>1, <6>1, <6>2, <6>3
        <5>5. QED
          BY <5>3, <5>4
      <4>10. one \o x = y
        BY <4>3, <4>7, <4>8, <4>9, SeqEqual
      <4>11. QED
        BY <4>10 DEF one, x, y, Before
    <3> HIDE DEF Pairs_
    <3>10. After(k)
      BY <3>6, <3>7, <3>8, <3>9
    <3> HIDE DEF After
    <3>11. QED
      BY <3>10 DEF k
  <2> HIDE DEF After
  <2>2. j + 1 \in Nat
    OBVIOUS
  <2>3. QED
    BY <2>1, <2>2
<1>6. Nat \subseteq T
  <2> HIDE DEF T
  <2>1. QED
    BY <1>4, <1>5, SetInduction
<1>7. After(0)
  <2> HIDE DEF After
  <2>1. n - n = 0 /\ n <= n
    OBVIOUS
  <2>2. QED
    BY <1>6, <2>1
<1>8. PICK r \in Seq(Octet) : F = <<>> \o r /\ ParsesTo(r, Pairs_(0))
  BY <1>3, <1>7 DEF Pre_
<1>9. F = r
  BY <1>8, ConcatEmptySeq
<1>10. Pairs_(0) = [i \in 1..n |-> <<t[i], v[i]>>]
  <2>1. n - 0 = n /\ \A i \in 1..n : 0 + i = i
    OBVIOUS
  <2>2. QED
    BY <2>1
<1>11. QED
  BY <1>2, <1>8, <1>9, <1>10 DEF F

\* sdp_parse_size_desc on a header of a type other than Nil.
LEMMA HeaderIs ==
  ASSUME NEW data \in Seq(Octet), NEW t \in DOMAIN Codes \ {"Nil"}, NEW k \in 0..7,
         Len(data) >= 1, data[1] = 8 * Codes[t] + k,
         NEW more, more = (IF k < 5 THEN 0 ELSE Sizes[k - 4]), Len(data) >= 1 + more
  PROVE  SizeDesc(data)
         = {[type |-> t,
             size |-> IF k < 5 THEN Sizes[k + 1] ELSE Number(Slice(data, 1, more)),
             start |-> 1 + more]}
<1>1. Codes[t] \in 1..8
  BY CodesAre
<1>2. \A c \in 1..8 : (8 * c + k) \div 8 = c /\ (8 * c + k) % 8 = k
  OBVIOUS
<1>3. data[1] \div 8 = Codes[t] /\ data[1] % 8 = k
  BY <1>1, <1>2
<1>4. data # <<>>
  OBVIOUS
<1>5. (CHOOSE u \in DOMAIN Codes : Codes[u] = Codes[t]) = t
  BY CodesAre
<1>6. Codes[t] # 0 /\ ~(Codes[t] > 8)
  BY <1>1
<1>7. Len(data) \in Nat /\ more \in Nat
  <2>1. Len(data) \in Nat
    BY OctetsAt
  <2>2. QED
    BY <2>1, SizesAre
<1>8. ~(Len(data) < 1 + more)
  BY <1>7
<1>9. ~(Codes[t] = 0) /\ ~(Codes[t] > 8 \/ Len(data) < 1 + more)
  BY <1>6, <1>8
<1>10. QED
  BY <1>3, <1>4, <1>5, <1>9 DEF SizeDesc

-----------------------------------------------------------------------------
\* The octets say that a value of the type and the size comes next.
Header(h, t, size) ==
  /\ h \in Seq(Octet) /\ h # <<>>
  /\ \A rest \in Seq(Octet) :
       SizeDesc(h \o rest) = {[type |-> t, size |-> size, start |-> Len(h)]}

\* maketsd writes such a header, for the sizes that are powers of two.
LEMMA TsdReads ==
  ASSUME NEW t \in DOMAIN Codes \ {"Nil"}, NEW size \in IntSizes
  PROVE  Header(Tsd(t, size), t, size)
<1> DEFINE k == CHOOSE i \in 0..4 : Sizes[i + 1] = size
           h == Tsd(t, size)
<1>1. k \in 0..4 /\ Sizes[k + 1] = size
  <2>1. \E i \in 0..4 : Sizes[i + 1] = size
    <3>1. size \in {1, 2, 4, 8, 16}
      BY DEF IntSizes
    <3>2. /\ Sizes[0 + 1] = 1 /\ Sizes[1 + 1] = 2 /\ Sizes[2 + 1] = 4
          /\ Sizes[3 + 1] = 8 /\ Sizes[4 + 1] = 16
      BY SizesAre
    <3>3. 0 \in 0..4 /\ 1 \in 0..4 /\ 2 \in 0..4 /\ 3 \in 0..4 /\ 4 \in 0..4
      OBVIOUS
    <3>4. QED
      BY <3>1, <3>2, <3>3
  <2>2. QED
    BY <2>1
<1>2. h = <<8 * Codes[t] + k>>
  BY DEF Tsd
<1> HIDE DEF k, h
<1>3. Codes[t] \in 1..8
  BY CodesAre
<1>4. 8 * Codes[t] + k \in Octet
  BY <1>1, <1>3 DEF Octet
<1>5. h \in Seq(Octet) /\ Len(h) = 1 /\ h[1] = 8 * Codes[t] + k
  BY <1>2, <1>4
<1>6. ASSUME NEW rest \in Seq(Octet)
      PROVE  SizeDesc(h \o rest) = {[type |-> t, size |-> size, start |-> 1]}
  <2> DEFINE data == h \o rest
  <2>1. Len(rest) \in Nat
    BY OctetsAt
  <2>2. /\ data \in Seq(Octet) /\ Len(data) = Len(h) + Len(rest)
        /\ \A i \in 1..(Len(h) + Len(rest)) : data[i] = IF i <= Len(h) THEN h[i] ELSE rest[i - Len(h)]
    BY <1>5, ConcatProperties
  <2> HIDE DEF data
  <2>3. Len(data) >= 1 /\ data[1] = 8 * Codes[t] + k /\ Len(data) >= 1 + 0
    BY <1>5, <2>1, <2>2
  <2>4. k \in 0..7 /\ k < 5
    BY <1>1
  <2>5. SizeDesc(data) = {[type |-> t, size |-> Sizes[k + 1], start |-> 1 + 0]}
    BY <2>2, <2>3, <2>4, HeaderIs
  <2>6. QED
    BY <1>1, <2>5 DEF data
<1>7. h # <<>>
  <2>1. Len(h) # 0
    BY <1>5
  <2>2. QED
    BY <2>1, EmptySeq
<1>8. QED
  BY <1>5, <1>6, <1>7 DEF h, Header

\* The octets of a size, most significant first, make it.
LEMMA TwoOctets ==
  ASSUME NEW m \in Nat
  PROVE  /\ m % 256 \in 0..255 /\ m \div 256 \in Nat /\ 256 * (m \div 256) + (m % 256) = m
         /\ m < 65536 => m \div 256 \in 0..255
         /\ m \div 65536 = (m \div 256) \div 256 /\ m \div 65536 \in Nat
         /\ m \div 65536 = 0 <=> m < 65536
BY SMT

\* maketsdl writes such a header for every size for which it does not raise.
LEMMA TsdlReads ==
  ASSUME NEW t \in DOMAIN Codes \ {"Nil"}, NEW size \in Nat, NEW h \in Tsdl(t, size)
  PROVE  Header(h, t, size)
<1> DEFINE code == 8 * Codes[t]
           high == size \div 65536
<1>1. Codes[t] \in 1..8
  BY CodesAre
<1>2. code + 5 \in Octet /\ code + 6 \in Octet /\ code + 7 \in Octet
  BY <1>1 DEF Octet
<1> DEFINE Good(k, n) ==
             /\ n = Sizes[k - 4]
             /\ h \in Seq(Octet) /\ Len(h) = 1 + n /\ h[1] = code + k
             /\ \A o \in Seq(Octet) :
                  Len(o) = n /\ (\A i \in 1..n : o[i] = h[1 + i]) => Number(o) = size
<1>3. \E k \in {5, 6, 7}, n \in {1, 2, 4} : Good(k, n)
  <2>1. CASE size < 256
    <3>1. h = <<code + 5, size>>
      BY SMT, <2>1 DEF Tsdl
    <3>2. size \in Octet
      BY <2>1 DEF Octet
    <3> HIDE DEF code
    <3>3. h \in Seq(Octet) /\ Len(h) = 2 /\ h[1] = code + 5 /\ h[2] = size
      BY <1>2, <3>1, <3>2
    <3>4. Sizes[5 - 4] = 1
      BY SizesAre
    <3>5. \A o \in Seq(Octet) : Len(o) = 1 /\ (\A i \in 1..1 : o[i] = h[1 + i]) => Number(o) = size
      BY <3>3 DEF Number
    <3>6. Good(5, 1)
      BY <3>3, <3>4, <3>5
    <3> HIDE DEF Good
    <3>7. QED
      BY <3>6
  <2>2. CASE ~(size < 256) /\ high = 0
    <3> DEFINE a == size \div 256
               b == size % 256
    <3>1. h = <<code + 6, a, b>>
      BY SMT, <2>2 DEF Tsdl
    <3>2. a \in 0..255 /\ b \in 0..255 /\ 256 * a + b = size
      BY SMT, <2>2, TwoOctets
    <3> HIDE DEF code, high, a, b
    <3>3. a \in Octet /\ b \in Octet
      BY <3>2 DEF Octet
    <3>4. h \in Seq(Octet) /\ Len(h) = 3 /\ h[1] = code + 6 /\ h[2] = a /\ h[3] = b
      BY <1>2, <3>1, <3>3
    <3>5. Sizes[6 - 4] = 2
      BY SizesAre
    <3>6. ASSUME NEW o \in Seq(Octet), Len(o) = 2, \A i \in 1..2 : o[i] = h[1 + i]
          PROVE  Number(o) = size
      <4>1. o[1] = a /\ o[2] = b
        BY <3>4, <3>6
      <4>2. QED
        BY <3>2, <3>6, <4>1 DEF Number
    <3>7. Good(6, 2)
      BY <3>4, <3>5, <3>6
    <3> HIDE DEF Good
    <3>8. QED
      BY <3>7
  <2>3. CASE ~(size < 256) /\ high # 0 /\ high < 65536
    <3> DEFINE mid == size \div 256
               a == high \div 256
               b == high % 256
               c == mid % 256
               d == size % 256
    <3>1. h = <<code + 7, a, b, c, d>>
      BY SMT, <2>3 DEF Tsdl
    <3>2. /\ mid \in Nat /\ high \in Nat
          /\ d \in 0..255 /\ 256 * mid + d = size
          /\ high = mid \div 256
      BY SMT, TwoOctets
    <3>3. c \in 0..255 /\ 256 * (mid \div 256) + c = mid
      <4> HIDE DEF mid
      <4>1. QED
        BY SMT, <3>2, TwoOctets
    <3>4. a \in 0..255 /\ b \in 0..255 /\ 256 * a + b = high
      <4> HIDE DEF high
      <4>1. QED
        BY SMT, <2>3, <3>2, TwoOctets
    <3> HIDE DEF code, high, mid, a, b, c, d
    <3>5. 256 * (256 * (256 * a + b) + c) + d = size
      BY <3>2, <3>3, <3>4
    <3>6. a \in Octet /\ b \in Octet /\ c \in Octet /\ d \in Octet
      BY <3>2, <3>3, <3>4 DEF Octet
    <3>7. h \in Seq(Octet) /\ Len(h) = 5 /\ h[1] = code + 7 /\ h[2] = a /\ h[3] = b /\ h[4] = c /\ h[5] = d
      BY <1>2, <3>1, <3>6
    <3>8. Sizes[7 - 4] = 4
      BY SizesAre
    <3>9. ASSUME NEW o \in Seq(Octet), Len(o) = 4, \A i \in 1..4 : o[i] = h[1 + i]
          PROVE  Number(o) = size
      <4>1. o[1] = a /\ o[2] = b /\ o[3] = c /\ o[4] = d
        BY <3>7, <3>9
      <4>2. QED
        BY <3>5, <3>9, <4>1 DEF Number
    <3>10. Good(7, 4)
      BY <3>7, <3>8, <3>9
    <3> HIDE DEF Good
    <3>11. QED
      BY <3>10
  <2>4. CASE ~(size < 256) /\ high # 0 /\ ~(high < 65536)
    <3>1. Tsdl(t, size) = {}
      BY SMT, <2>4 DEF Tsdl
    <3>2. QED
      BY <3>1
  <2>5. QED
    BY <2>1, <2>2, <2>3, <2>4
<1>4. PICK k \in {5, 6, 7}, n \in {1, 2, 4} : Good(k, n)
  <2> HIDE DEF Good
  <2>1. QED
    BY <1>3
<1>5. Len(h) = 1 + n /\ ~(k < 5) /\ k \in 0..7
  BY <1>4
<1>6. ASSUME NEW rest \in Seq(Octet)
      PROVE  SizeDesc(h \o rest) = {[type |-> t, size |-> size, start |-> Len(h)]}
  <2> DEFINE data == h \o rest
             o == Slice(data, 1, n)
  <2>0. Len(rest) \in Nat /\ Len(h) \in Nat
    BY <1>4, OctetsAt
  <2>1. /\ data \in Seq(Octet) /\ Len(data) = Len(h) + Len(rest)
        /\ \A i \in 1..(Len(h) + Len(rest)) : data[i] = IF i <= Len(h) THEN h[i] ELSE rest[i - Len(h)]
    BY <1>4, ConcatProperties
  <2> HIDE DEF data, code
  <2>2. Len(data) >= 1 + n /\ Len(data) >= 1 /\ data[1] = h[1]
    BY <1>5, <2>0, <2>1
  <2>3. /\ o \in Seq(Octet) /\ Len(o) = n
        /\ \A i \in 1..n : o[i] = data[1 + i]
    <3>1. n \in Nat /\ 1 \in Nat /\ 1 + n <= Len(data)
      BY <1>5, <2>0, <2>1
    <3>2. /\ o \in Seq(Octet) /\ Len(o) = n
          /\ \A i \in 1..Len(o) : o[i] = data[1 + i]
      BY <2>1, <3>1, SliceIs
    <3>3. QED
      BY <3>2
  <2>4. ASSUME NEW i \in 1..n PROVE data[1 + i] = h[1 + i]
    <3>1. 1 + i \in 1..(Len(h) + Len(rest)) /\ 1 + i <= Len(h)
      BY <1>5, <2>0
    <3>2. QED
      BY <2>1, <3>1
  <2>5. Number(o) = size
    <3> HIDE DEF o
    <3>1. QED
      BY <1>4, <2>3, <2>4
  <2>6. SizeDesc(data) = {[type |-> t, size |-> Number(Slice(data, 1, n)), start |-> 1 + n]}
    <3>1. n = (IF k < 5 THEN 0 ELSE Sizes[k - 4])
      BY <1>4, <1>5
    <3>2. data[1] = 8 * Codes[t] + k
      BY <1>4, <2>2 DEF code
    <3>3. SizeDesc(data)
           = {[type |-> t, size |-> IF k < 5 THEN Sizes[k + 1] ELSE Number(Slice(data, 1, n)),
               start |-> 1 + n]}
      BY <1>5, <2>1, <2>2, <3>1, <3>2, HeaderIs
    <3>4. QED
      BY <1>5, <3>3
  <2>7. QED
    BY <1>5, <2>5, <2>6 DEF data
<1>7. h \in Seq(Octet) /\ h # <<>>
  BY <1>4, <1>5
<1>8. QED
  BY <1>6, <1>7 DEF Header

-----------------------------------------------------------------------------
\* The data between a header and what follows.
LEMMA SliceOfConcat ==
  ASSUME NEW h \in Seq(Octet), NEW e \in Seq(Octet), NEW r \in Seq(Octet)
  PROVE  Slice(h \o (e \o r), Len(h), Len(e)) = e
<1> DEFINE er == e \o r
           d  == h \o er
           s  == Slice(d, Len(h), Len(e))
<1>1. Len(h) \in Nat /\ Len(e) \in Nat /\ Len(r) \in Nat
  BY OctetsAt
<1>2. /\ er \in Seq(Octet) /\ Len(er) = Len(e) + Len(r)
      /\ \A i \in 1..(Len(e) + Len(r)) : er[i] = IF i <= Len(e) THEN e[i] ELSE r[i - Len(e)]
  BY ConcatProperties
<1>a. er \in Seq(Octet)
  BY <1>2
<1> HIDE DEF er
<1>3. /\ d \in Seq(Octet) /\ Len(d) = Len(h) + Len(er)
      /\ \A i \in 1..(Len(h) + Len(er)) : d[i] = IF i <= Len(h) THEN h[i] ELSE er[i - Len(h)]
  BY <1>a, ConcatProperties
<1>b. d \in Seq(Octet)
  BY <1>3
<1> HIDE DEF d
<1>4. /\ s \in Seq(Octet) /\ (Len(h) + Len(e) <= Len(d) => Len(s) = Len(e))
      /\ \A i \in 1..Len(s) : s[i] = d[Len(h) + i]
  BY <1>1, <1>b, SliceIs
<1> HIDE DEF s
<1>5. Len(s) = Len(e)
  BY <1>1, <1>2, <1>3, <1>4
<1>6. ASSUME NEW i \in 1..Len(s) PROVE s[i] = e[i]
  <2>1. i \in 1..Len(e) /\ Len(h) + i \in 1..(Len(h) + Len(er)) /\ ~(Len(h) + i <= Len(h))
        /\ Len(h) + i - Len(h) = i /\ i \in 1..(Len(e) + Len(r)) /\ i <= Len(e)
    BY <1>1, <1>2, <1>5
  <2>2. d[Len(h) + i] = er[i]
    BY <1>3, <2>1
  <2>3. er[i] = e[i]
    BY <1>2, <2>1
  <2>4. QED
    BY <1>4, <2>2, <2>3
<1>7. s = e
  BY <1>4, <1>5, <1>6, SeqEqual
<1>8. QED
  BY <1>7 DEF s, d, er

\* A header and data are read as the value of the data.
LEMMA DataReads ==
  ASSUME NEW t, NEW v, NEW e \in Seq(Octet), NEW h, Header(h, t, Len(e)),
         Values(t, Len(e), e, ParseSeq) = {v}
  PROVE  Reads(h \o e, t, v)
<1>1. h \in Seq(Octet) /\ h # <<>> /\ Len(h) \in Nat /\ Len(e) \in Nat
  BY OctetsAt DEF Header
<1> DEFINE c == h \o e
<1>2. c \in Seq(Octet) /\ c # <<>> /\ Len(c) = Len(h) + Len(e)
  <2>1. c \in Seq(Octet) /\ Len(c) = Len(h) + Len(e)
    BY <1>1, ConcatProperties
  <2>2. Len(h) # 0
    BY <1>1, EmptySeq
  <2> HIDE DEF c
  <2>3. Len(c) # 0
    BY <1>1, <2>1, <2>2
  <2>4. QED
    BY <2>1, <2>3, EmptySeq
<1>3. ASSUME NEW rest \in Seq(Octet) PROVE Parse(c \o rest, ParseSeq) = {<<t, v, Len(c)>>}
  <2> DEFINE er == e \o rest
             d == [type |-> t, size |-> Len(e), start |-> Len(h)]
             Of(x) == {<<x.type, y, x.start + x.size>> : y \in Values(x.type, x.size, Data(x, h \o er), ParseSeq)}
  <2>1. c \o rest = h \o er
    BY <1>1, ConcatAssociative
  <2>2. er \in Seq(Octet)
    BY ConcatProperties
  <2> HIDE DEF c
  <2>3. Slice(h \o er, Len(h), Len(e)) = e
    BY <1>1, SliceOfConcat
  <2> HIDE DEF er
  <2>4. SizeDesc(h \o er) = {d}
    BY <2>2 DEF Header
  <2>5. Parse(h \o er, ParseSeq) = UNION {Of(x) : x \in SizeDesc(h \o er)}
    BY ParseBy
  <2>6. Of(d) = {<<t, v, Len(c)>>}
    <3>1. d.type = t /\ d.size = Len(e) /\ d.start = Len(h)
      OBVIOUS
    <3>2. Data(d, h \o er) = e
      BY <2>3, <3>1 DEF Data
    <3>3. Values(d.type, d.size, Data(d, h \o er), ParseSeq) = {v}
      BY <3>1, <3>2
    <3>4. d.start + d.size = Len(c)
      BY <1>2, <3>1
    <3> HIDE DEF d
    <3>5. QED
      BY <3>1, <3>3, <3>4
  <2> HIDE DEF d, Of
  <2>7. QED
    BY <2>1, <2>4, <2>5, <2>6
<1>4. QED
  BY <1>2, <1>3 DEF Reads

\* The elements that are no lists, by their types.
LEMMA AtomIs ==
  ASSUME NEW chars, NEW e \in Atoms(chars)
  PROVE  /\ e[1] \in {"Nil", "UInt", "SInt", "UUID", "String", "Bool", "URL"} /\ e[1] \notin Lists
         /\ e[1] = "Nil" => e[2] = <<>>
         /\ e[1] \in {"UInt", "SInt"} => e[2] \in Seq(Octet) /\ Len(e[2]) \in IntSizes
         /\ e[1] = "Bool" => e[2] \in {<<0>>, <<1>>}
         /\ e[1] = "UUID" => e[2] \in AnyUuid /\ Len(e[2][2]) \in {2, 4, 16}
         /\ e[1] \in {"String", "URL"} => e[2] \in Seq(chars)
<1>1. \/ e \in {<<"Nil", <<>>>>}
      \/ e \in {"UInt", "SInt"} \X {o \in Seq(Octet) : Len(o) \in IntSizes}
      \/ e \in {"Bool"} \X {<<0>>, <<1>>}
      \/ e \in {"UUID"} \X {u \in AnyUuid : Len(u[2]) \in {2, 4, 16}}
      \/ e \in {"String", "URL"} \X Seq(chars)
  BY DEF Atoms
<1>2. CASE e \in {<<"Nil", <<>>>>}
  <2>1. e[1] = "Nil" /\ e[2] = <<>>
    BY <1>2
  <2>2. QED
    BY <2>1 DEF Lists
<1>3. CASE e \in {"UInt", "SInt"} \X {o \in Seq(Octet) : Len(o) \in IntSizes}
  <2>1. e[1] \in {"UInt", "SInt"} /\ e[2] \in {o \in Seq(Octet) : Len(o) \in IntSizes}
    BY <1>3
  <2>2. QED
    BY <2>1 DEF Lists
<1>4. CASE e \in {"Bool"} \X {<<0>>, <<1>>}
  <2>1. e[1] = "Bool" /\ e[2] \in {<<0>>, <<1>>}
    BY <1>4
  <2>2. QED
    BY <2>1 DEF Lists
<1>5. CASE e \in {"UUID"} \X {u \in AnyUuid : Len(u[2]) \in {2, 4, 16}}
  <2>1. e[1] = "UUID" /\ e[2] \in {u \in AnyUuid : Len(u[2]) \in {2, 4, 16}}
    BY <1>5
  <2>2. QED
    BY <2>1 DEF Lists
<1>6. CASE e \in {"String", "URL"} \X Seq(chars)
  <2>1. e[1] \in {"String", "URL"} /\ e[2] \in Seq(chars)
    BY <1>6
  <2>2. QED
    BY <2>1 DEF Lists
<1>7. QED
  BY <1>1, <1>2, <1>3, <1>4, <1>5, <1>6

\* MeantAtom, by types.
LEMMA MeantAtomIs ==
  ASSUME NEW e
  PROVE  /\ e[1] = "UUID" => MeantAtom(e) = UuidText(e[2])
         /\ e[1] \in {"String", "URL"} => MeantAtom(e) = <<"bytes", Encoded(e[2])>>
         /\ e[1] = "SInt" => MeantAtom(e) = IF Len(e[2]) = 16 THEN Wide(e[2]) ELSE e[2]
         /\ e[1] \in {"Nil", "UInt", "Bool"} => MeantAtom(e) = e[2]
<1>1. ASSUME e[1] = "UUID" PROVE MeantAtom(e) = UuidText(e[2])
  BY Zenon, <1>1 DEF MeantAtom
<1>2. ASSUME e[1] \in {"String", "URL"} PROVE MeantAtom(e) = <<"bytes", Encoded(e[2])>>
  BY Zenon, <1>2 DEF MeantAtom
<1>3. ASSUME e[1] = "SInt" PROVE MeantAtom(e) = IF Len(e[2]) = 16 THEN Wide(e[2]) ELSE e[2]
  BY Zenon, <1>3 DEF MeantAtom
<1>4. ASSUME e[1] \in {"Nil", "UInt", "Bool"} PROVE MeantAtom(e) = e[2]
  BY Zenon, <1>4 DEF MeantAtom
<1>5. QED
  BY <1>1, <1>2, <1>3, <1>4

\* EncodeAtom, by types.
LEMMA EncodeAtomIs ==
  ASSUME NEW e
  PROVE  /\ e[1] = "Nil" => EncodeAtom(e) = {<<0>>}
         /\ e[1] \in {"UInt", "SInt", "Bool"} => EncodeAtom(e) = {Tsd(e[1], Len(e[2])) \o e[2]}
         /\ e[1] = "UUID" => EncodeAtom(e) = {Tsd(e[1], Len(e[2][2])) \o e[2][2]}
         /\ e[1] \in {"String", "URL"} =>
              EncodeAtom(e) = Sized(e[1], Len(Encoded(e[2])), Encoded(e[2]))
<1>1. ASSUME e[1] = "Nil" PROVE EncodeAtom(e) = {<<0>>}
  BY Zenon, <1>1 DEF EncodeAtom
<1>2. ASSUME e[1] \in {"UInt", "SInt", "Bool"}
      PROVE  EncodeAtom(e) = {Tsd(e[1], Len(e[2])) \o e[2]}
  BY Zenon, <1>2 DEF EncodeAtom
<1>3. ASSUME e[1] = "UUID" PROVE EncodeAtom(e) = {Tsd(e[1], Len(e[2][2])) \o e[2][2]}
  BY Zenon, <1>3 DEF EncodeAtom
<1>4. ASSUME e[1] \in {"String", "URL"}
      PROVE  EncodeAtom(e) = Sized(e[1], Len(Encoded(e[2])), Encoded(e[2]))
  BY Zenon, <1>4 DEF EncodeAtom
<1>5. QED
  BY <1>1, <1>2, <1>3, <1>4

\* sdp_parse_uuid on the sizes of a UUID.
LEMMA ParseUuidIs ==
  ASSUME NEW octets, Len(octets) \in {2, 4, 16}
  PROVE  ParseUuid(octets, Len(octets))
         = {<<IF Len(octets) = 16 THEN "str" ELSE "bytes", octets>>}
<1>1. CASE Len(octets) \in {2, 4}
  <2>1. Len(octets) # 16
    BY <1>1
  <2>2. ParseUuid(octets, Len(octets)) = {<<"bytes", octets>>}
    BY Zenon, <1>1, <2>1 DEF ParseUuid
  <2>3. QED
    BY <2>1, <2>2
<1>2. CASE Len(octets) = 16
  <2>1. Len(octets) \notin {2, 4}
    BY <1>2
  <2>2. ParseUuid(octets, Len(octets)) = {<<"str", octets>>}
    BY Zenon, <1>2, <2>1 DEF ParseUuid
  <2>3. QED
    BY <1>2, <2>2
<1>3. QED
  BY <1>1, <1>2

\* The values of Parse, by types.
LEMMA ValuesAre ==
  ASSUME NEW t, NEW size, NEW elem, NEW lists
  PROVE  /\ t = "Nil" => Values(t, size, elem, lists) = {<<>>}
         /\ t \in {"UInt", "SInt"} => Values(t, size, elem, lists) = ParseInt(elem, size, t)
         /\ t = "UUID" => Values(t, size, elem, lists) = ParseUuid(elem, size)
         /\ t \in {"String", "URL"} => Values(t, size, elem, lists) = {<<"bytes", elem>>}
         /\ t = "Bool" => Values(t, size, elem, lists) = ParseBool(elem)
         /\ t \in Lists => Values(t, size, elem, lists) = lists[elem]
<1>1. ASSUME t = "Nil" PROVE Values(t, size, elem, lists) = {<<>>}
  BY Zenon, <1>1 DEF Values, Lists
<1>2. ASSUME t \in {"UInt", "SInt"} PROVE Values(t, size, elem, lists) = ParseInt(elem, size, t)
  BY Zenon, <1>2 DEF Values, Lists
<1>3. ASSUME t = "UUID" PROVE Values(t, size, elem, lists) = ParseUuid(elem, size)
  BY Zenon, <1>3 DEF Values, Lists
<1>4. ASSUME t \in {"String", "URL"} PROVE Values(t, size, elem, lists) = {<<"bytes", elem>>}
  BY Zenon, <1>4 DEF Values, Lists
<1>5. ASSUME t = "Bool" PROVE Values(t, size, elem, lists) = ParseBool(elem)
  BY Zenon, <1>5 DEF Values, Lists
<1>6. ASSUME t \in Lists PROVE Values(t, size, elem, lists) = lists[elem]
  BY Zenon, <1>6 DEF Values, Lists
<1>7. QED
  BY <1>1, <1>2, <1>3, <1>4, <1>5, <1>6

\* Data with a header of maketsdl is read as its value.
LEMMA SizedReads ==
  ASSUME NEW t \in DOMAIN Codes \ {"Nil"}, NEW e \in Seq(Octet), NEW v,
         Values(t, Len(e), e, ParseSeq) = {v}, NEW c \in Sized(t, Len(e), e)
  PROVE  Reads(c, t, v)
<1>1. PICK h \in Tsdl(t, Len(e)) : c = h \o e
  BY DEF Sized
<1>2. Len(e) \in Nat
  BY OctetsAt
<1>3. Header(h, t, Len(e))
  BY <1>2, TsdlReads
<1>4. QED
  BY <1>1, <1>3, DataReads

\* What a peer encodes of an element that is no list is read as it means it.
LEMMA EncodeAtomReads ==
  ASSUME NEW e \in Atoms(Char), NEW c \in EncodeAtom(e)
  PROVE  Reads(c, e[1], MeantAtom(e))
<1> DEFINE t == e[1]
           x == e[2]
<1>0. t \in DOMAIN Codes
  BY AtomIs, CodesAre
<1>1. CASE t = "Nil"
  <2>1. c = <<0>> /\ MeantAtom(e) = <<>>
    <3>1. c = <<0>>
      <4>1. EncodeAtom(e) = {<<0>>}
        BY Zenon, <1>1, EncodeAtomIs
      <4>2. QED
        BY Zenon, <4>1
    <3>2. MeantAtom(e) = x /\ x = <<>>
      BY <1>1, MeantAtomIs, AtomIs
    <3>3. QED
      BY <3>1, <3>2
  <2>2. Header(<<0>>, "Nil", 0)
    <3>1. <<0>> \in Seq(Octet) /\ <<0>> # <<>> /\ Len(<<0>>) = 1
      BY DEF Octet
    <3>2. ASSUME NEW rest \in Seq(Octet)
          PROVE  SizeDesc(<<0>> \o rest) = {[type |-> "Nil", size |-> 0, start |-> 1]}
      <4> DEFINE h == <<0>>
                 d == h \o rest
      <4>1. Len(rest) \in Nat
        BY OctetsAt
      <4>2. h \in Seq(Octet) /\ Len(h) = 1 /\ h[1] = 0
        BY <3>1
      <4> HIDE DEF h
      <4>a. /\ d \in Seq(Octet) /\ Len(d) = Len(h) + Len(rest)
            /\ \A i \in 1..(Len(h) + Len(rest)) : d[i] = IF i <= Len(h) THEN h[i] ELSE rest[i - Len(h)]
        BY <4>2, ConcatProperties
      <4>3. d \in Seq(Octet) /\ Len(d) = 1 + Len(rest) /\ d[1] = 0
        <5> HIDE DEF d
        <5>1. QED
          BY <4>1, <4>2, <4>a
      <4> HIDE DEF d
      <4>4. d # <<>>
        BY <4>1, <4>3, EmptySeq
      <4>5. d[1] \div 8 = 0
        BY <4>3
      <4>6. SizeDesc(d) = {[type |-> "Nil", size |-> 0, start |-> 1]}
        BY <4>4, <4>5 DEF SizeDesc
      <4>7. QED
        BY <4>6 DEF d, h
    <3>3. QED
      BY <3>1, <3>2 DEF Header
  <2>3. <<>> \in Seq(Octet) /\ Len(<<>>) = 0
    BY EmptySeq
  <2>4. Values("Nil", Len(<<>>), <<>>, ParseSeq) = {<<>>}
    BY ValuesAre
  <2>5. Reads(<<0>> \o <<>>, "Nil", <<>>)
    BY <2>2, <2>3, <2>4, DataReads
  <2>6. <<0>> \o <<>> = <<0>>
    BY DEF Octet
  <2>7. QED
    BY <1>1, <2>1, <2>5, <2>6
<1>2. CASE t \in {"UInt", "SInt"}
  <2>1. x \in Seq(Octet) /\ Len(x) \in IntSizes
    BY <1>2, AtomIs
  <2>2. c = Tsd(t, Len(x)) \o x
    BY <1>2, EncodeAtomIs
  <2>3. MeantAtom(e) = IF t = "SInt" /\ Len(x) = 16 THEN Wide(x) ELSE x
    BY <1>2, MeantAtomIs
  <2>4. ParseInt(x, Len(x), t) = {MeantAtom(e)}
    BY <2>1, <2>3 DEF ParseInt
  <2>5. Header(Tsd(t, Len(x)), t, Len(x))
    BY <1>0, <1>2, <2>1, TsdReads
  <2> HIDE DEF t, x
  <2>6. Values(t, Len(x), x, ParseSeq) = {MeantAtom(e)}
    BY <1>2, <2>4, ValuesAre
  <2>7. Reads(Tsd(t, Len(x)) \o x, t, MeantAtom(e))
    BY <2>1, <2>5, <2>6, DataReads
  <2>8. QED
    BY <2>2, <2>7 DEF t
<1>3. CASE t = "Bool"
  <2>1. x \in {<<0>>, <<1>>}
    BY <1>3, AtomIs
  <2>2. c = Tsd(t, Len(x)) \o x
    BY <1>3, EncodeAtomIs
  <2>3. MeantAtom(e) = x
    BY <1>3, MeantAtomIs
  <2>4. x \in Seq(Octet) /\ Len(x) \in IntSizes
    <3>1. 0 \in Octet /\ 1 \in Octet
      BY DEF Octet
    <3>2. <<0>> \in Seq(Octet) /\ Len(<<0>>) = 1 /\ <<1>> \in Seq(Octet) /\ Len(<<1>>) = 1
      BY <3>1
    <3>3. x \in Seq(Octet) /\ Len(x) = 1
      <4> HIDE DEF x
      <4>1. QED
        BY <2>1, <3>2
    <3>4. QED
      BY <3>3 DEF IntSizes
  <2>5. ParseBool(x) = {x}
    BY <2>1 DEF ParseBool
  <2>6. Header(Tsd(t, Len(x)), t, Len(x))
    BY <1>0, <1>3, <2>4, TsdReads
  <2> HIDE DEF t, x
  <2>7. Values(t, Len(x), x, ParseSeq) = {x}
    BY <1>3, <2>5, ValuesAre
  <2>8. Reads(Tsd(t, Len(x)) \o x, t, x)
    BY <2>4, <2>6, <2>7, DataReads
  <2>9. QED
    BY <2>2, <2>3, <2>8 DEF t
<1>4. CASE t = "UUID"
  <2> DEFINE o == x[2]
  <2>1. o \in Seq(Octet) /\ Len(o) \in {2, 4, 16}
    <3>1. x \in AnyUuid /\ Len(o) \in {2, 4, 16}
      BY <1>4, AtomIs
    <3>2. QED
      BY <3>1 DEF AnyUuid
  <2>2. c = Tsd(t, Len(o)) \o o
    BY <1>4, EncodeAtomIs
  <2>3. MeantAtom(e) = <<IF Len(o) = 16 THEN "str" ELSE "bytes", o>>
    BY <1>4, MeantAtomIs DEF UuidText
  <2>4. ParseUuid(o, Len(o)) = {MeantAtom(e)}
    BY <2>1, <2>3, ParseUuidIs
  <2>5. Len(o) \in IntSizes
    BY <2>1 DEF IntSizes
  <2>6. Header(Tsd(t, Len(o)), t, Len(o))
    BY <1>0, <1>4, <2>5, TsdReads
  <2> HIDE DEF t, o
  <2>7. Values(t, Len(o), o, ParseSeq) = {MeantAtom(e)}
    BY <1>4, <2>4, ValuesAre
  <2>8. Reads(Tsd(t, Len(o)) \o o, t, MeantAtom(e))
    BY <2>1, <2>6, <2>7, DataReads
  <2>9. QED
    BY <2>2, <2>8 DEF t
<1>5. CASE t \in {"String", "URL"}
  <2> DEFINE o == Encoded(x)
  <2>1. o \in Seq(Octet)
    BY <1>5, AtomIs, EncodedIs
  <2>2. c \in Sized(t, Len(o), o)
    BY <1>5, EncodeAtomIs
  <2>3. MeantAtom(e) = <<"bytes", o>>
    BY <1>5, MeantAtomIs
  <2>4. t \in DOMAIN Codes \ {"Nil"}
    BY <1>0, <1>5
  <2> HIDE DEF t, o
  <2>5. Values(t, Len(o), o, ParseSeq) = {<<"bytes", o>>}
    BY <1>5, ValuesAre
  <2>6. Reads(c, t, <<"bytes", o>>)
    BY <2>1, <2>2, <2>4, <2>5, SizedReads
  <2>7. QED
    BY <2>3, <2>6 DEF t
<1>6. QED
  BY AtomIs, <1>1, <1>2, <1>3, <1>4, <1>5

\* Characters that are one octet each.
AsciiChar == 0..127

\* str.encode leaves these.
LEMMA EncodedAscii ==
  ASSUME NEW chars \in Seq(AsciiChar)
  PROVE  Encoded(chars) = chars
<1>1. \A c \in AsciiChar : c < 128
  BY DEF AsciiChar
<1>2. \A c \in Range(chars) : c \in AsciiChar
  BY RangeOfSeq
<1>3. \A c \in Range(chars) : c < 128
  BY <1>1, <1>2
<1>4. QED
  BY Zenon, <1>3 DEF Encoded

\* They are characters.
LEMMA AsciiAtoms == Atoms(AsciiChar) \subseteq Atoms(Char)
<1>1. AsciiChar \subseteq Char
  BY DEF AsciiChar, Char
<1>2. Seq(AsciiChar) \subseteq Seq(Char)
  BY <1>1, SeqMonotonic
<1>3. ({"String", "URL"} \X Seq(AsciiChar)) \subseteq ({"String", "URL"} \X Seq(Char))
  BY <1>2
<1>4. QED
  BY <1>3 DEF Atoms

\* MakeAtom, by types.
LEMMA MakeAtomIs ==
  ASSUME NEW e
  PROVE  /\ e[1] = "Nil" => MakeAtom(e) = {<<0>>}
         /\ e[1] \in {"UInt", "SInt"} =>
              MakeAtom(e) = IF Len(e[2]) = 16 THEN {} ELSE {Tsd(e[1], Len(e[2])) \o e[2]}
         /\ e[1] = "UUID" =>
              MakeAtom(e) = IF e[2][1] # "hex" THEN {} ELSE {Tsd(e[1], Len(e[2][2])) \o e[2][2]}
         /\ e[1] = "String" => MakeAtom(e) = Sized(e[1], Len(e[2]), Encoded(e[2]))
         /\ e[1] = "Bool" => MakeAtom(e) = {}
         /\ e[1] = "URL" => MakeAtom(e) = Sized(e[1], Len(e[2]), e[2])
<1>1. ASSUME e[1] = "Nil" PROVE MakeAtom(e) = {<<0>>}
  BY Zenon, <1>1 DEF MakeAtom
<1>2. ASSUME e[1] \in {"UInt", "SInt"}
      PROVE  MakeAtom(e) = IF Len(e[2]) = 16 THEN {} ELSE {Tsd(e[1], Len(e[2])) \o e[2]}
  BY Zenon, <1>2 DEF MakeAtom
<1>3. ASSUME e[1] = "UUID"
      PROVE  MakeAtom(e) = IF e[2][1] # "hex" THEN {} ELSE {Tsd(e[1], Len(e[2][2])) \o e[2][2]}
  BY Zenon, <1>3 DEF MakeAtom
<1>4. ASSUME e[1] = "String" PROVE MakeAtom(e) = Sized(e[1], Len(e[2]), Encoded(e[2]))
  BY Zenon, <1>4 DEF MakeAtom
<1>5. ASSUME e[1] = "Bool" PROVE MakeAtom(e) = {}
  BY Zenon, <1>5 DEF MakeAtom
<1>6. ASSUME e[1] = "URL" PROVE MakeAtom(e) = Sized(e[1], Len(e[2]), e[2])
  BY Zenon, <1>6 DEF MakeAtom
<1>7. QED
  BY Zenon, <1>1, <1>2, <1>3, <1>4, <1>5, <1>6

\* Of strings of ASCII, and of every other element that is no list, what
\* sdp_make_data_element makes is what a peer would.
LEMMA MakeAtomEncodes ==
  ASSUME NEW e \in Atoms(AsciiChar)
  PROVE  MakeAtom(e) \subseteq EncodeAtom(e)
<1>1. CASE e[1] = "Nil"
  BY Zenon, <1>1, MakeAtomIs, EncodeAtomIs
<1>2. CASE e[1] \in {"UInt", "SInt"}
  <2>1. MakeAtom(e) = IF Len(e[2]) = 16 THEN {} ELSE {Tsd(e[1], Len(e[2])) \o e[2]}
    BY Zenon, <1>2, MakeAtomIs
  <2>2. EncodeAtom(e) = {Tsd(e[1], Len(e[2])) \o e[2]}
    BY Zenon, <1>2, EncodeAtomIs
  <2>3. QED
    BY Zenon, <2>1, <2>2
<1>3. CASE e[1] = "UUID"
  <2>1. MakeAtom(e) = IF e[2][1] # "hex" THEN {} ELSE {Tsd(e[1], Len(e[2][2])) \o e[2][2]}
    BY Zenon, <1>3, MakeAtomIs
  <2>2. EncodeAtom(e) = {Tsd(e[1], Len(e[2][2])) \o e[2][2]}
    BY Zenon, <1>3, EncodeAtomIs
  <2>3. QED
    BY Zenon, <2>1, <2>2
<1>4. CASE e[1] \in {"String", "URL"}
  <2>1. Encoded(e[2]) = e[2]
    BY <1>4, AtomIs, EncodedAscii
  <2>2. MakeAtom(e) = Sized(e[1], Len(e[2]), e[2])
    BY Zenon, <1>4, <2>1, MakeAtomIs
  <2>3. EncodeAtom(e) = Sized(e[1], Len(e[2]), e[2])
    BY Zenon, <1>4, <2>1, EncodeAtomIs
  <2>4. QED
    BY <2>2, <2>3
<1>5. CASE e[1] = "Bool"
  <2>1. MakeAtom(e) = {}
    BY Zenon, <1>5, MakeAtomIs
  <2>2. QED
    BY <2>1
<1>6. QED
  BY AtomIs, <1>1, <1>2, <1>3, <1>4, <1>5

-----------------------------------------------------------------------------
\* Each of the codes is read as the element, with the value; those of each
\* element of a list, as that element.
Made(e, codes, value) == \A c \in codes : Reads(c, e[1], value)
AllMade(n, elements, made, values) ==
  /\ made = [i \in 1..n |-> made[i]] /\ values = [i \in 1..n |-> values[i]]
  /\ \A i \in 1..n : Made(elements[i], made[i], values[i])

\* The data of a list that is made is read as the list.
LEMMA ListParses ==
  ASSUME NEW e, NEW n \in Nat, NEW made, NEW values, AllMade(n, e[2], made, values),
         NEW c \in MakeSeq(e, made)
  PROVE  \E data \in Seq(Octet) :
           ParsesTo(data, MeantList(e, values)) /\ c \in Sized(e[1], Len(data), data)
<1> DEFINE codes == [i \in DOMAIN made |-> CHOOSE m \in made[i] : TRUE]
           t == [i \in 1..n |-> e[2][i][1]]
           F == FlattenSeq(codes)
           list == [i \in 1..n |-> <<t[i], values[i]>>]
<1>1. DOMAIN made = 1..n /\ DOMAIN values = 1..n
  BY Zenon DEF AllMade
<1>2. {} \notin Range(made) /\ c \in Sized(e[1], Len(F), F)
  BY Zenon DEF MakeSeq
<1>3. ASSUME NEW i \in 1..n PROVE Reads(codes[i], t[i], values[i])
  <2>1. made[i] # {}
    BY <1>1, <1>2 DEF Range
  <2>2. codes[i] \in made[i]
    BY <1>1, <2>1
  <2>3. t[i] = e[2][i][1]
    OBVIOUS
  <2>4. Made(e[2][i], made[i], values[i])
    BY DEF AllMade
  <2> HIDE DEF codes, t
  <2>5. QED
    BY <2>2, <2>3, <2>4 DEF Made
<1>4. AllRead(n, codes, t, values)
  <2>1. codes = [i \in 1..n |-> codes[i]]
    BY <1>1
  <2> HIDE DEF codes, t
  <2>2. QED
    BY <1>3, <2>1 DEF AllRead
<1> HIDE DEF codes
<1>5. F \in Seq(Octet) /\ ParsesTo(F, list)
  <2> HIDE DEF t
  <2>1. QED
    BY <1>4, ListReads
<1>6. MeantList(e, values) = list
  BY <1>1 DEF MeantList
<1> HIDE DEF F, list
<1>7. QED
  BY <1>2, <1>5, <1>6

\* A list that is made is read as the list.
LEMMA ListMade ==
  ASSUME NEW e, e[1] \in Lists, NEW n \in Nat, NEW made, NEW values, AllMade(n, e[2], made, values)
  PROVE  Made(e, MakeSeq(e, made), MeantList(e, values))
<1> SUFFICES ASSUME NEW c \in MakeSeq(e, made)
             PROVE  Reads(c, e[1], MeantList(e, values))
  BY DEF Made
<1> DEFINE list == MeantList(e, values)
<1>1. PICK F \in Seq(Octet) : ParsesTo(F, list) /\ c \in Sized(e[1], Len(F), F)
  BY ListParses
<1> HIDE DEF list
<1>2. e[1] \in DOMAIN Codes \ {"Nil"}
  BY CodesAre DEF Lists
<1>3. Values(e[1], Len(F), F, ParseSeq) = {list}
  <2>1. ParseSeq[F] = {list}
    BY <1>1 DEF ParsesTo
  <2>2. Values(e[1], Len(F), F, ParseSeq) = ParseSeq[F]
    BY ValuesAre
  <2>3. QED
    BY <2>1, <2>2
<1>4. Reads(c, e[1], list)
  BY <1>1, <1>2, <1>3, SizedReads
<1>5. QED
  BY <1>4 DEF list

\* An element that is no list is read as what it is, made by a peer, or here of
\* ASCII.
LEMMA AtomMade ==
  /\ \A e \in Atoms(Char) : Made(e, EncodeAtom(e), MeantAtom(e))
  /\ \A e \in Atoms(AsciiChar) : Made(e, MakeAtom(e), MeantAtom(e))
<1>1. \A e \in Atoms(Char) : Made(e, EncodeAtom(e), MeantAtom(e))
  BY EncodeAtomReads DEF Made
<1>2. ASSUME NEW e \in Atoms(AsciiChar) PROVE Made(e, MakeAtom(e), MeantAtom(e))
  <2>1. Made(e, EncodeAtom(e), MeantAtom(e))
    BY <1>1, AsciiAtoms
  <2>2. QED
    BY <2>1, MakeAtomEncodes DEF Made
<1>3. QED
  BY <1>1, <1>2

\* The elements of a list.
LEMMA ListIs ==
  ASSUME NEW elements, NEW e \in ListsOf(elements)
  PROVE  /\ e[1] \in Lists
         /\ Len(e[2]) \in Nat /\ DOMAIN e[2] = 1..Len(e[2])
         /\ \A i \in 1..Len(e[2]) : e[2][i] \in elements
<1>1. e[1] \in Lists /\ e[2] \in Seq(elements)
  BY DEF ListsOf
<1>2. QED
  BY <1>1, LenProperties, ElementOfSeq

\* An atom is no list.
LEMMA AtomIsNoList ==
  ASSUME NEW chars, NEW e \in Atoms(chars)
  PROVE  e[1] \notin Lists
BY AtomIs

\* So are lists of these.
LEMMA Made1 ==
  /\ \A e \in Nested1(Char) :
       Made(e, Of1(e, EncodeAtom, MakeSeq), Of1(e, MeantAtom, MeantList))
  /\ \A e \in Nested1(AsciiChar) :
       Made(e, Of1(e, MakeAtom, MakeSeq), Of1(e, MeantAtom, MeantList))
<1>1. ASSUME NEW e \in Nested1(Char)
      PROVE  Made(e, Of1(e, EncodeAtom, MakeSeq), Of1(e, MeantAtom, MeantList))
  <2>1. CASE e \in Atoms(Char)
    <3>1. e[1] \notin Lists
      BY <2>1, AtomIsNoList
    <3>2. QED
      BY <2>1, <3>1, AtomMade DEF Of1
  <2>2. CASE e \in ListsOf(Atoms(Char))
    <3> DEFINE n == Len(e[2])
               made == [i \in DOMAIN e[2] |-> EncodeAtom(e[2][i])]
               values == [i \in DOMAIN e[2] |-> MeantAtom(e[2][i])]
    <3>1. e[1] \in Lists /\ n \in Nat /\ DOMAIN e[2] = 1..n /\ \A i \in 1..n : e[2][i] \in Atoms(Char)
      BY <2>2, ListIs
    <3>2. AllMade(n, e[2], made, values)
      <4>1. /\ made = [i \in 1..n |-> made[i]] /\ values = [i \in 1..n |-> values[i]]
            /\ \A i \in 1..n : made[i] = EncodeAtom(e[2][i]) /\ values[i] = MeantAtom(e[2][i])
        BY <3>1
      <4> HIDE DEF made, values
      <4>2. QED
        BY <3>1, <4>1, AtomMade DEF AllMade
    <3>3. Of1(e, EncodeAtom, MakeSeq) = MakeSeq(e, made) /\ Of1(e, MeantAtom, MeantList) = MeantList(e, values)
      BY <3>1 DEF Of1
    <3> HIDE DEF made, values, n
    <3>4. QED
      BY <3>1, <3>2, <3>3, ListMade
  <2>3. QED
    BY <2>1, <2>2 DEF Nested1
<1>2. ASSUME NEW e \in Nested1(AsciiChar)
      PROVE  Made(e, Of1(e, MakeAtom, MakeSeq), Of1(e, MeantAtom, MeantList))
  <2>1. CASE e \in Atoms(AsciiChar)
    <3>1. e[1] \notin Lists
      BY <2>1, AtomIsNoList
    <3>2. QED
      BY <2>1, <3>1, AtomMade DEF Of1
  <2>2. CASE e \in ListsOf(Atoms(AsciiChar))
    <3> DEFINE n == Len(e[2])
               made == [i \in DOMAIN e[2] |-> MakeAtom(e[2][i])]
               values == [i \in DOMAIN e[2] |-> MeantAtom(e[2][i])]
    <3>1. e[1] \in Lists /\ n \in Nat /\ DOMAIN e[2] = 1..n
          /\ \A i \in 1..n : e[2][i] \in Atoms(AsciiChar)
      BY <2>2, ListIs
    <3>2. AllMade(n, e[2], made, values)
      <4>1. /\ made = [i \in 1..n |-> made[i]] /\ values = [i \in 1..n |-> values[i]]
            /\ \A i \in 1..n : made[i] = MakeAtom(e[2][i]) /\ values[i] = MeantAtom(e[2][i])
        BY <3>1
      <4> HIDE DEF made, values
      <4>2. QED
        BY <3>1, <4>1, AtomMade DEF AllMade
    <3>3. Of1(e, MakeAtom, MakeSeq) = MakeSeq(e, made) /\ Of1(e, MeantAtom, MeantList) = MeantList(e, values)
      BY <3>1 DEF Of1
    <3> HIDE DEF made, values, n
    <3>4. QED
      BY <3>1, <3>2, <3>3, ListMade
  <2>3. QED
    BY <2>1, <2>2 DEF Nested1
<1>3. QED
  BY <1>1, <1>2

\* So are lists of lists.
LEMMA Made2 ==
  /\ \A e \in Nested2(Char) :
       Made(e, Of2(e, EncodeAtom, MakeSeq), Of2(e, MeantAtom, MeantList))
  /\ \A e \in Nested2(AsciiChar) :
       Made(e, Of2(e, MakeAtom, MakeSeq), Of2(e, MeantAtom, MeantList))
<1>1. ASSUME NEW e \in Nested2(Char)
      PROVE  Made(e, Of2(e, EncodeAtom, MakeSeq), Of2(e, MeantAtom, MeantList))
  <2>1. CASE e \in Atoms(Char)
    <3>1. e[1] \notin Lists
      BY <2>1, AtomIsNoList
    <3>2. QED
      BY <2>1, <3>1, AtomMade DEF Of2
  <2>2. CASE e \in ListsOf(Nested1(Char))
    <3> DEFINE n == Len(e[2])
               made == [i \in DOMAIN e[2] |-> Of1(e[2][i], EncodeAtom, MakeSeq)]
               values == [i \in DOMAIN e[2] |-> Of1(e[2][i], MeantAtom, MeantList)]
    <3>1. e[1] \in Lists /\ n \in Nat /\ DOMAIN e[2] = 1..n /\ \A i \in 1..n : e[2][i] \in Nested1(Char)
      BY <2>2, ListIs
    <3>2. AllMade(n, e[2], made, values)
      <4>1. /\ made = [i \in 1..n |-> made[i]] /\ values = [i \in 1..n |-> values[i]]
            /\ \A i \in 1..n : made[i] = Of1(e[2][i], EncodeAtom, MakeSeq) /\ values[i] = Of1(e[2][i], MeantAtom, MeantList)
        BY <3>1
      <4> HIDE DEF made, values
      <4>2. QED
        BY <3>1, <4>1, Made1 DEF AllMade
    <3>3. Of2(e, EncodeAtom, MakeSeq) = MakeSeq(e, made) /\ Of2(e, MeantAtom, MeantList) = MeantList(e, values)
      BY <3>1 DEF Of2
    <3> HIDE DEF made, values, n
    <3>4. QED
      BY <3>1, <3>2, <3>3, ListMade
  <2>3. QED
    BY <2>1, <2>2 DEF Nested2
<1>2. ASSUME NEW e \in Nested2(AsciiChar)
      PROVE  Made(e, Of2(e, MakeAtom, MakeSeq), Of2(e, MeantAtom, MeantList))
  <2>1. CASE e \in Atoms(AsciiChar)
    <3>1. e[1] \notin Lists
      BY <2>1, AtomIsNoList
    <3>2. QED
      BY <2>1, <3>1, AtomMade DEF Of2
  <2>2. CASE e \in ListsOf(Nested1(AsciiChar))
    <3> DEFINE n == Len(e[2])
               made == [i \in DOMAIN e[2] |-> Of1(e[2][i], MakeAtom, MakeSeq)]
               values == [i \in DOMAIN e[2] |-> Of1(e[2][i], MeantAtom, MeantList)]
    <3>1. e[1] \in Lists /\ n \in Nat /\ DOMAIN e[2] = 1..n
          /\ \A i \in 1..n : e[2][i] \in Nested1(AsciiChar)
      BY <2>2, ListIs
    <3>2. AllMade(n, e[2], made, values)
      <4>1. /\ made = [i \in 1..n |-> made[i]] /\ values = [i \in 1..n |-> values[i]]
            /\ \A i \in 1..n : made[i] = Of1(e[2][i], MakeAtom, MakeSeq) /\ values[i] = Of1(e[2][i], MeantAtom, MeantList)
        BY <3>1
      <4> HIDE DEF made, values
      <4>2. QED
        BY <3>1, <4>1, Made1 DEF AllMade
    <3>3. Of2(e, MakeAtom, MakeSeq) = MakeSeq(e, made) /\ Of2(e, MeantAtom, MeantList) = MeantList(e, values)
      BY <3>1 DEF Of2
    <3> HIDE DEF made, values, n
    <3>4. QED
      BY <3>1, <3>2, <3>3, ListMade
  <2>3. QED
    BY <2>1, <2>2 DEF Nested2
<1>3. QED
  BY <1>1, <1>2

\* So are lists of lists of lists: all that is in an attribute.
LEMMA Made3 ==
  /\ \A e \in Nested3(Char) :
       Made(e, Of3(e, EncodeAtom, MakeSeq), Of3(e, MeantAtom, MeantList))
  /\ \A e \in Nested3(AsciiChar) :
       Made(e, Of3(e, MakeAtom, MakeSeq), Of3(e, MeantAtom, MeantList))
<1>1. ASSUME NEW e \in Nested3(Char)
      PROVE  Made(e, Of3(e, EncodeAtom, MakeSeq), Of3(e, MeantAtom, MeantList))
  <2>1. CASE e \in Atoms(Char)
    <3>1. e[1] \notin Lists
      BY <2>1, AtomIsNoList
    <3>2. QED
      BY <2>1, <3>1, AtomMade DEF Of3
  <2>2. CASE e \in ListsOf(Nested2(Char))
    <3> DEFINE n == Len(e[2])
               made == [i \in DOMAIN e[2] |-> Of2(e[2][i], EncodeAtom, MakeSeq)]
               values == [i \in DOMAIN e[2] |-> Of2(e[2][i], MeantAtom, MeantList)]
    <3>1. e[1] \in Lists /\ n \in Nat /\ DOMAIN e[2] = 1..n /\ \A i \in 1..n : e[2][i] \in Nested2(Char)
      BY <2>2, ListIs
    <3>2. AllMade(n, e[2], made, values)
      <4>1. /\ made = [i \in 1..n |-> made[i]] /\ values = [i \in 1..n |-> values[i]]
            /\ \A i \in 1..n : made[i] = Of2(e[2][i], EncodeAtom, MakeSeq) /\ values[i] = Of2(e[2][i], MeantAtom, MeantList)
        BY <3>1
      <4> HIDE DEF made, values
      <4>2. QED
        BY <3>1, <4>1, Made2 DEF AllMade
    <3>3. Of3(e, EncodeAtom, MakeSeq) = MakeSeq(e, made) /\ Of3(e, MeantAtom, MeantList) = MeantList(e, values)
      BY <3>1 DEF Of3
    <3> HIDE DEF made, values, n
    <3>4. QED
      BY <3>1, <3>2, <3>3, ListMade
  <2>3. QED
    BY <2>1, <2>2 DEF Nested3
<1>2. ASSUME NEW e \in Nested3(AsciiChar)
      PROVE  Made(e, Of3(e, MakeAtom, MakeSeq), Of3(e, MeantAtom, MeantList))
  <2>1. CASE e \in Atoms(AsciiChar)
    <3>1. e[1] \notin Lists
      BY <2>1, AtomIsNoList
    <3>2. QED
      BY <2>1, <3>1, AtomMade DEF Of3
  <2>2. CASE e \in ListsOf(Nested2(AsciiChar))
    <3> DEFINE n == Len(e[2])
               made == [i \in DOMAIN e[2] |-> Of2(e[2][i], MakeAtom, MakeSeq)]
               values == [i \in DOMAIN e[2] |-> Of2(e[2][i], MeantAtom, MeantList)]
    <3>1. e[1] \in Lists /\ n \in Nat /\ DOMAIN e[2] = 1..n
          /\ \A i \in 1..n : e[2][i] \in Nested2(AsciiChar)
      BY <2>2, ListIs
    <3>2. AllMade(n, e[2], made, values)
      <4>1. /\ made = [i \in 1..n |-> made[i]] /\ values = [i \in 1..n |-> values[i]]
            /\ \A i \in 1..n : made[i] = Of2(e[2][i], MakeAtom, MakeSeq) /\ values[i] = Of2(e[2][i], MeantAtom, MeantList)
        BY <3>1
      <4> HIDE DEF made, values
      <4>2. QED
        BY <3>1, <4>1, Made2 DEF AllMade
    <3>3. Of3(e, MakeAtom, MakeSeq) = MakeSeq(e, made) /\ Of3(e, MeantAtom, MeantList) = MeantList(e, values)
      BY <3>1 DEF Of3
    <3> HIDE DEF made, values, n
    <3>4. QED
      BY <3>1, <3>2, <3>3, ListMade
  <2>3. QED
    BY <2>1, <2>2 DEF Nested3
<1>3. QED
  BY <1>1, <1>2

-----------------------------------------------------------------------------
\* A non-empty set of numbers with a bound has a greatest.
LEMMA GreatestNumber ==
  ASSUME NEW m \in Nat, NEW T \in SUBSET (0..m), T # {}
  PROVE  \E n \in T : \A k \in T : k <= n
<1> DEFINE U == {m - k : k \in T}
<1>1. U \in SUBSET Nat /\ U # {}
  <2>1. \A k \in T : m - k \in Nat
    OBVIOUS
  <2>2. QED
    BY <2>1
<1>2. PICK u \in U : \A v \in U : u <= v
  <2> HIDE DEF U
  <2>1. QED
    BY <1>1, LeastNumber
<1>3. PICK n \in T : u = m - n
  BY <1>2
<1>4. ASSUME NEW k \in T PROVE k <= n
  <2>1. m - k \in U
    OBVIOUS
  <2>2. u <= m - k
    BY <1>2, <2>1
  <2>3. k \in 0..m /\ n \in 0..m
    BY <1>3
  <2>4. QED
    BY <1>3, <2>2, <2>3
<1>5. QED
  BY <1>3, <1>4

\* The elements, as they are read, of attributes: identifiers and values in turn.
ElementsOf(n, ids, values, elements) ==
  /\ elements = [j \in 1..(2 * n) |-> elements[j]]
  /\ \A i \in 1..n : /\ elements[2 * i - 1][1] = "UInt" /\ elements[2 * i - 1][2] = ids[i]
                     /\ elements[2 * i][2] = values[i]

\* The places of identifiers and of values.
LEMMA HalvesAre ==
  ASSUME NEW n \in Nat
  PROVE  /\ \A i \in 1..n : 2 * i - 1 \in 1..(2 * n) /\ 2 * i \in 1..(2 * n)
                            /\ (2 * i - 1) % 2 = 1 /\ (2 * i) % 2 = 0
                            /\ (2 * i) \div 2 = i /\ (2 * i - 1 + 1) \div 2 = i
                            /\ (2 * i - 1) + 1 = 2 * i
         /\ \A j \in 1..(2 * n) : j % 2 = 1 => \E i \in 1..n : j = 2 * i - 1
         /\ \A j \in 1..(2 * n) : j % 2 # 1 => \E i \in 1..n : j = 2 * i
         /\ (2 * n) % 2 = 0 /\ 2 * n \in Nat
<1>1. \A i \in 1..n : 2 * i - 1 \in 1..(2 * n) /\ 2 * i \in 1..(2 * n)
                            /\ (2 * i - 1) % 2 = 1 /\ (2 * i) % 2 = 0
                            /\ (2 * i) \div 2 = i /\ (2 * i - 1 + 1) \div 2 = i
                            /\ (2 * i - 1) + 1 = 2 * i
  OBVIOUS
<1>2. ASSUME NEW j \in 1..(2 * n), j % 2 = 1 PROVE \E i \in 1..n : j = 2 * i - 1
  <2>1. (j + 1) \div 2 \in 1..n /\ j = 2 * ((j + 1) \div 2) - 1
    BY <1>2
  <2>2. QED
    BY <2>1
<1>3. ASSUME NEW j \in 1..(2 * n), j % 2 # 1 PROVE \E i \in 1..n : j = 2 * i
  <2>1. j \div 2 \in 1..n /\ j = 2 * (j \div 2)
    BY <1>3
  <2>2. QED
    BY <2>1
<1>4. (2 * n) % 2 = 0 /\ 2 * n \in Nat
  OBVIOUS
<1>5. QED
  BY <1>1, <1>2, <1>3, <1>4

\* Attributes, for some of the places.
AttributesAt(elements, ids) ==
  [id \in {elements[i][2] : i \in ids} |->
     LET last == CHOOSE i \in ids : /\ elements[i][2] = id
                                    /\ \A j \in ids : j > i => elements[j][2] # id
     IN elements[last + 1][2]]

\* Identifiers are of two octets, and of one value each; a record gives each its
\* value.
AreIds(n, ids, values) ==
  /\ \A i \in 1..n : Len(ids[i]) = 2
  /\ \A i, j \in 1..n : ids[i] = ids[j] => values[i] = values[j]
Gives(record, n, ids, values) ==
  DOMAIN record = {ids[i] : i \in 1..n} /\ \A i \in 1..n : record[ids[i]] = values[i]

\* sdp_parse_raw_record makes of these elements the record of the attributes.
LEMMA AttributesAre ==
  ASSUME NEW n \in Nat, NEW ids, NEW values, NEW elements, ElementsOf(n, ids, values, elements),
         AreIds(n, ids, values)
  PROVE  AreAttributes(elements) /\ Gives(Attributes(elements), n, ids, values)
<1> DEFINE odd == {j \in 1..(2 * n) : j % 2 = 1}
<1>1. DOMAIN elements = 1..(2 * n) /\ Len(elements) = 2 * n
  <2>1. elements = [j \in 1..(2 * n) |-> elements[j]]
    BY DEF ElementsOf
  <2>2. 2 * n \in Nat
    OBVIOUS
  <2> DEFINE S == {elements[j] : j \in 1..(2 * n)}
             m == 2 * n
  <2>3. \A j \in 1..m : elements[j] \in S
    OBVIOUS
  <2> HIDE DEF S
  <2>4. Len(elements) = m
    <3>1. m \in Nat /\ elements = [j \in 1..m |-> elements[j]]
      BY <2>1, <2>2
    <3> HIDE DEF m
    <3>2. QED
      BY <2>3, <3>1, SequenceOf
  <2>5. DOMAIN elements = 1..(2 * n)
    BY Zenon, <2>1
  <2>6. QED
    BY <2>4, <2>5
<1>2. \A j \in odd : \E i \in 1..n : j = 2 * i - 1
  BY HalvesAre
<1>3. \A i \in 1..n : 2 * i - 1 \in odd /\ (2 * i - 1) + 1 = 2 * i
  BY HalvesAre
<1>4. \A j \in odd : elements[j][1] = "UInt" /\ Len(elements[j][2]) = 2
  <2>1. ASSUME NEW j \in odd PROVE elements[j][1] = "UInt" /\ Len(elements[j][2]) = 2
    <3>1. PICK i \in 1..n : j = 2 * i - 1
      BY <1>2
    <3>2. elements[j][1] = "UInt" /\ elements[j][2] = ids[i]
      BY <3>1 DEF ElementsOf
    <3>3. QED
      BY <3>1, <3>2 DEF AreIds
  <2>2. QED
    BY <2>1
<1>5. AreAttributes(elements)
  <2>1. Len(elements) % 2 = 0
    BY <1>1, HalvesAre
  <2>2. \A i \in DOMAIN elements : i % 2 = 1 => elements[i][1] = "UInt" /\ Len(elements[i][2]) = 2
    BY <1>1, <1>4
  <2>3. QED
    BY <2>1, <2>2 DEF AreAttributes
<1> DEFINE last(id) == CHOOSE i \in odd : /\ elements[i][2] = id
                                         /\ \A j \in odd : j > i => elements[j][2] # id
           A == [id \in {elements[i][2] : i \in odd} |-> elements[last(id) + 1][2]]
<1>6. Attributes(elements) = A
  <2>1. Attributes(elements) = AttributesAt(elements, {i \in DOMAIN elements : i % 2 = 1})
    BY Zenon DEF Attributes, AttributesAt
  <2>2. {i \in DOMAIN elements : i % 2 = 1} = odd
    BY <1>1
  <2> HIDE DEF odd
  <2>3. Attributes(elements) = AttributesAt(elements, odd)
    BY Zenon, <2>1, <2>2
  <2>4. AttributesAt(elements, odd) = A
    BY Zenon DEF AttributesAt
  <2>5. QED
    BY <2>3, <2>4
<1>7. {elements[j][2] : j \in odd} = {ids[i] : i \in 1..n}
  <2>1. ASSUME NEW j \in odd PROVE \E i \in 1..n : elements[j][2] = ids[i]
    <3>1. PICK i \in 1..n : j = 2 * i - 1
      BY <1>2
    <3>2. elements[j][2] = ids[i]
      BY <3>1 DEF ElementsOf
    <3>3. QED
      BY <3>1, <3>2
  <2>2. ASSUME NEW i \in 1..n PROVE \E j \in odd : elements[j][2] = ids[i]
    <3>1. elements[2 * i - 1][2] = ids[i]
      BY DEF ElementsOf
    <3>2. QED
      BY <1>3, <3>1
  <2> HIDE DEF odd
  <2>3. QED
    BY <2>1, <2>2
<1>8. DOMAIN A = {ids[i] : i \in 1..n}
  BY Zenon, <1>7
<1>9. ASSUME NEW i \in 1..n PROVE A[ids[i]] = values[i]
  <2> DEFINE id == ids[i]
             T == {j \in odd : elements[j][2] = id}
  <2>1. T \in SUBSET (0..(2 * n)) /\ T # {}
    <3>1. elements[2 * i - 1][2] = id
      BY DEF ElementsOf
    <3>2. 2 * i - 1 \in T
      BY <1>3, <3>1
    <3>3. \A j \in odd : j \in 0..(2 * n)
      OBVIOUS
    <3> HIDE DEF odd
    <3>4. QED
      BY <3>2, <3>3
  <2>2. PICK g \in T : \A k \in T : k <= g
    <3>1. 2 * n \in Nat
      OBVIOUS
    <3> HIDE DEF T
    <3>2. QED
      BY <2>1, <3>1, GreatestNumber
  <2>3. g \in odd /\ elements[g][2] = id /\ \A j \in odd : j > g => elements[j][2] # id
    <3>1. \A j \in odd : j > g => ~(j <= g)
      <4>1. g \in Int /\ \A j \in odd : j \in Int
        BY <2>2
      <4>2. QED
        BY <4>1
    <3> HIDE DEF odd
    <3>2. QED
      BY <2>2, <3>1
  <2>4. last(id) \in odd /\ elements[last(id)][2] = id
    <3> HIDE DEF id, odd
    <3>1. QED
      BY <2>3
  <2> DEFINE l == last(id)
  <2>5. PICK m \in 1..n : l = 2 * m - 1
    <3> HIDE DEF l
    <3>1. l \in odd
      BY <2>4 DEF l
    <3>2. QED
      BY <1>2, <3>1
  <2>6. elements[l][2] = ids[m] /\ elements[l + 1][2] = values[m]
    <3>1. l + 1 = 2 * m
      BY <1>3, <2>5
    <3> HIDE DEF l
    <3>2. QED
      BY <2>5, <3>1 DEF ElementsOf
  <2>7. ids[m] = id
    BY <2>4, <2>6
  <2>8. values[m] = values[i]
    BY <2>5, <2>7 DEF AreIds
  <2>9. id \in {elements[j][2] : j \in odd}
    BY <2>3
  <2>10. A[id] = elements[last(id) + 1][2]
    <3> HIDE DEF last, id, odd
    <3>1. QED
      BY <2>9
  <2>11. QED
    <3> HIDE DEF A, last, odd
    <3>1. QED
      BY <2>6, <2>8, <2>10
<1> HIDE DEF A
<1>10. QED
  BY <1>5, <1>6, <1>8, <1>9 DEF Gives

\* The octets are read as the record with the attributes; the attributes are of
\* such elements.
IsRecord(data, attributes) ==
  \E record : /\ ParseRecord(data) = {record}
              /\ DOMAIN record = {attributes[i][1] : i \in DOMAIN attributes}
              /\ \A i \in DOMAIN attributes : record[attributes[i][1]] = Meant(attributes[i][2])

AreOf(attributes, elements) == attributes \in Seq(Id \X elements)

\* The elements of the list a record is made of: identifiers and attributes in
\* turn.
LEMMA RecordOfIs ==
  ASSUME NEW E, NEW attributes, AreOf(attributes, E), NEW n, n = Len(attributes),
         NEW e, e = RecordOf(attributes)
  PROVE  /\ n \in Nat /\ DOMAIN attributes = 1..n
         /\ e[1] = "ElemSeq" /\ DOMAIN e[2] = 1..(2 * n)
         /\ \A i \in 1..n : /\ attributes[i][1] \in Id /\ attributes[i][2] \in E
                            /\ e[2][2 * i - 1] = <<"UInt", attributes[i][1]>>
                            /\ e[2][2 * i] = attributes[i][2]
<1> DEFINE el(j) == IF j % 2 = 1 THEN <<"UInt", attributes[(j + 1) \div 2][1]>>
                    ELSE attributes[j \div 2][2]
           els == [j \in 1..(2 * n) |-> el(j)]
<1>1. n \in Nat /\ DOMAIN attributes = 1..n /\ \A i \in 1..n : attributes[i] \in Id \X E
  BY LenProperties, ElementOfSeq DEF AreOf
<1>2. RecordOf(attributes) = <<"ElemSeq", els>>
  BY DEF RecordOf
<1>3. RecordOf(attributes)[1] = "ElemSeq" /\ RecordOf(attributes)[2] = els
  <2> HIDE DEF els
  <2>1. QED
    BY <1>2
<1>4. DOMAIN els = 1..(2 * n)
  OBVIOUS
<1>5. ASSUME NEW i \in 1..n
      PROVE  els[2 * i - 1] = <<"UInt", attributes[i][1]>> /\ els[2 * i] = attributes[i][2]
  <2>1. /\ 2 * i - 1 \in 1..(2 * n) /\ 2 * i \in 1..(2 * n)
        /\ (2 * i - 1) % 2 = 1 /\ (2 * i) % 2 = 0
        /\ (2 * i) \div 2 = i /\ (2 * i - 1 + 1) \div 2 = i
    BY <1>1, HalvesAre
  <2>2. els[2 * i - 1] = el(2 * i - 1) /\ els[2 * i] = el(2 * i)
    <3> HIDE DEF el
    <3>1. QED
      BY <2>1
  <2>3. el(2 * i - 1) = <<"UInt", attributes[i][1]>>
    BY <2>1
  <2>4. el(2 * i) = attributes[i][2]
    <3> DEFINE j == 2 * i
    <3>1. j % 2 # 1 /\ j \div 2 = i
      BY <2>1
    <3>2. el(j) = attributes[j \div 2][2]
      <4> HIDE DEF j
      <4>1. QED
        BY <3>1
    <3> HIDE DEF j, el
    <3>3. el(j) = attributes[i][2]
      BY <3>1, <3>2
    <3>4. QED
      BY <3>3 DEF j
  <2>5. QED
    BY <2>2, <2>3, <2>4
<1>6. \A i \in 1..n : attributes[i][1] \in Id /\ attributes[i][2] \in E
  BY <1>1
<1> HIDE DEF els
<1>7. QED
  BY <1>1, <1>3, <1>4, <1>5, <1>6

\* An identifier is an integer of two octets.
LEMMA IdMeant ==
  ASSUME NEW id \in Id, NEW chars
  PROVE  /\ <<"UInt", id>> \in Atoms(chars) /\ Meant(<<"UInt", id>>) = id /\ Len(id) = 2
<1> DEFINE e == <<"UInt", id>>
<1>1. id \in Seq(Octet) /\ Len(id) = 2
  BY DEF Id
<1>2. Len(id) \in IntSizes
  BY <1>1 DEF IntSizes
<1>3. e \in {"UInt", "SInt"} \X {o \in Seq(Octet) : Len(o) \in IntSizes}
  BY <1>1, <1>2
<1>4. e[1] = "UInt" /\ e[2] = id
  OBVIOUS
<1> HIDE DEF e
<1>5. e \in Atoms(chars)
  BY <1>3 DEF Atoms
<1>6. Meant(e) = MeantAtom(e)
  BY <1>4 DEF Meant, Of3, Lists
<1>7. MeantAtom(e) = id
  BY <1>4, MeantAtomIs
<1>8. QED
  BY <1>1, <1>5, <1>6, <1>7 DEF e

\* Where the elements of a record are read as what they are, the record is.
LEMMA RecordReads ==
  ASSUME NEW E, NEW attributes, AreOf(attributes, E),
         \A i, j \in DOMAIN attributes :
           attributes[i][1] = attributes[j][1] => attributes[i][2] = attributes[j][2],
         NEW made, NEW values,
         AllMade(2 * Len(attributes), RecordOf(attributes)[2], made, values),
         \A j \in DOMAIN RecordOf(attributes)[2] : values[j] = Meant(RecordOf(attributes)[2][j]),
         NEW data \in MakeSeq(RecordOf(attributes), made)
  PROVE  IsRecord(data, attributes) /\ data # <<>>
<1>a. PICK n, e : n = Len(attributes) /\ e = RecordOf(attributes)
  OBVIOUS
<1> DEFINE list == MeantList(e, values)
           ids == [i \in 1..n |-> attributes[i][1]]
           meant == [i \in 1..n |-> Meant(attributes[i][2])]
<1>1. /\ n \in Nat /\ DOMAIN attributes = 1..n
      /\ e[1] = "ElemSeq" /\ DOMAIN e[2] = 1..(2 * n)
      /\ \A i \in 1..n : /\ attributes[i][1] \in Id
                         /\ e[2][2 * i - 1] = <<"UInt", attributes[i][1]>>
                         /\ e[2][2 * i] = attributes[i][2]
  BY <1>a, RecordOfIs
<1>2. 2 * n \in Nat
  BY <1>1
<1>3. PICK F \in Seq(Octet) : ParsesTo(F, list) /\ data \in Sized("ElemSeq", Len(F), F)
  <2>1. AllMade(2 * n, e[2], made, values) /\ data \in MakeSeq(e, made)
    BY <1>a
  <2>2. \E F \in Seq(Octet) : ParsesTo(F, list) /\ data \in Sized(e[1], Len(F), F)
    <3> DEFINE m == 2 * n
    <3>1. m \in Nat /\ AllMade(m, e[2], made, values)
      BY <1>2, <2>1
    <3> HIDE DEF m
    <3>2. QED
      BY <2>1, <3>1, ListParses
  <2>3. QED
    BY <1>1, <2>2
<1>4. \A i \in 1..n : /\ values[2 * i - 1] = ids[i] /\ values[2 * i] = meant[i]
                      /\ e[2][2 * i - 1][1] = "UInt"
  <2>1. ASSUME NEW i \in 1..n
        PROVE  /\ values[2 * i - 1] = ids[i] /\ values[2 * i] = meant[i]
               /\ e[2][2 * i - 1][1] = "UInt"
    <3>1. 2 * i - 1 \in DOMAIN e[2] /\ 2 * i \in DOMAIN e[2]
      BY <1>1, HalvesAre
    <3>2. values[2 * i - 1] = Meant(e[2][2 * i - 1]) /\ values[2 * i] = Meant(e[2][2 * i])
      BY <1>a, <3>1
    <3>3. Meant(<<"UInt", attributes[i][1]>>) = attributes[i][1]
      BY <1>1, IdMeant
    <3>4. e[2][2 * i - 1] = <<"UInt", attributes[i][1]>> /\ e[2][2 * i] = attributes[i][2]
      BY <1>1
    <3>5. values[2 * i - 1] = attributes[i][1] /\ values[2 * i] = Meant(attributes[i][2])
      BY Zenon, <3>2, <3>3, <3>4
    <3>6. e[2][2 * i - 1][1] = "UInt"
      BY <3>4
    <3>7. QED
      BY <3>5, <3>6
  <2>2. QED
    BY <2>1
<1>5. ElementsOf(n, ids, meant, list)
  <2>1. DOMAIN values = 1..(2 * n)
    <3>1. values = [i \in 1..(2 * n) |-> values[i]]
      BY <1>a DEF AllMade
    <3>2. QED
      BY Zenon, <3>1
  <2>2. list = [j \in 1..(2 * n) |-> <<e[2][j][1], values[j]>>]
    BY <2>1 DEF MeantList
  <2>3. list = [j \in 1..(2 * n) |-> list[j]]
    BY <2>2
  <2>4. ASSUME NEW i \in 1..n
        PROVE  /\ list[2 * i - 1][1] = "UInt" /\ list[2 * i - 1][2] = ids[i]
               /\ list[2 * i][2] = meant[i]
    <3>1. 2 * i - 1 \in 1..(2 * n) /\ 2 * i \in 1..(2 * n)
      BY <1>1, HalvesAre
    <3>2. list[2 * i - 1] = <<e[2][2 * i - 1][1], values[2 * i - 1]>>
          /\ list[2 * i] = <<e[2][2 * i][1], values[2 * i]>>
      <4> HIDE DEF list
      <4>1. QED
        BY <2>2, <3>1
    <3> HIDE DEF list, ids, meant
    <3>3. QED
      BY <1>4, <3>2
  <2> HIDE DEF list, ids, meant
  <2>5. QED
    BY <2>3, <2>4 DEF ElementsOf
<1> HIDE DEF list
<1> DEFINE r == Attributes(list)
<1>6. AreAttributes(list) /\ Gives(r, n, ids, meant)
  <2>1. AreIds(n, ids, meant)
    <3>1. \A i \in 1..n : Len(attributes[i][1]) = 2
      BY <1>1, IdMeant
    <3>2. \A i \in 1..n : ids[i] = attributes[i][1] /\ meant[i] = Meant(attributes[i][2])
      OBVIOUS
    <3>3. DOMAIN attributes = 1..n
      BY <1>1
    <3> HIDE DEF ids, meant
    <3>4. QED
      BY <3>1, <3>2, <3>3 DEF AreIds
  <2>2. n \in Nat
    BY <1>1
  <2> HIDE DEF ids, meant
  <2>3. QED
    BY <1>5, <2>1, <2>2, AttributesAre
<1>7. data # <<>> /\ ParseRecord(data) = {r}
  <2>1. PICK h \in Tsdl("ElemSeq", Len(F)) : data = h \o F
    BY <1>3 DEF Sized
  <2>2. "ElemSeq" \in DOMAIN Codes \ {"Nil"} /\ Len(F) \in Nat
    BY <1>3, OctetsAt, CodesAre
  <2>3. Header(h, "ElemSeq", Len(F))
    BY <2>2, TsdlReads
  <2> DEFINE d == [type |-> "ElemSeq", size |-> Len(F), start |-> Len(h)]
  <2>4. h \in Seq(Octet) /\ h # <<>> /\ SizeDesc(data) = {d}
    BY <1>3, <2>1, <2>3 DEF Header
  <2>5. data # <<>>
    BY <1>3, <2>1, <2>4, ConcatEqualIffEmpty
  <2>6. From(data, Len(h)) = F
    BY <1>3, <2>1, <2>4, FromConcat
  <2>7. ParseSeq[F] = {list}
    BY <1>3 DEF ParsesTo
  <2> DEFINE Of(x) == {Attributes(es) : es \in {l \in ParseSeq[From(data, x.start)] : AreAttributes(l)}}
  <2>8. Of(d) = {r}
    <3>1. d.start = Len(h)
      OBVIOUS
    <3> HIDE DEF d
    <3>2. {l \in ParseSeq[From(data, d.start)] : AreAttributes(l)} = {list}
      BY <1>6, <2>6, <2>7, <3>1
    <3>3. QED
      BY <3>2
  <2>9. {x \in SizeDesc(data) : x.type = "ElemSeq"} = {d}
    <3>1. d.type = "ElemSeq"
      OBVIOUS
    <3> HIDE DEF d
    <3>2. QED
      BY <2>4, <3>1
  <2>10. ParseRecord(data) = UNION {Of(x) : x \in {y \in SizeDesc(data) : y.type = "ElemSeq"}}
    BY Zenon DEF ParseRecord
  <2> HIDE DEF Of, d, r
  <2>11. QED
    BY <2>5, <2>8, <2>9, <2>10
<1>8. DOMAIN r = {attributes[i][1] : i \in DOMAIN attributes}
      /\ \A i \in DOMAIN attributes : r[attributes[i][1]] = Meant(attributes[i][2])
  <2>1. \A i \in 1..n : ids[i] = attributes[i][1] /\ meant[i] = Meant(attributes[i][2])
    OBVIOUS
  <2>2. DOMAIN attributes = 1..n
    BY <1>1
  <2> HIDE DEF r, ids, meant
  <2>3. DOMAIN r = {ids[i] : i \in 1..n} /\ \A i \in 1..n : r[ids[i]] = meant[i]
    BY <1>6 DEF Gives
  <2>4. {ids[i] : i \in 1..n} = {attributes[i][1] : i \in DOMAIN attributes}
    BY <2>1, <2>2
  <2>5. \A i \in DOMAIN attributes : r[attributes[i][1]] = Meant(attributes[i][2])
    BY <2>1, <2>2, <2>3
  <2>6. QED
    BY <2>3, <2>4, <2>5
<1> HIDE DEF r
<1>9. QED
  BY Zenon, <1>7, <1>8 DEF IsRecord

\* sdp_parse_data_element reads off whatever sdp_make_data_element makes of an
\* element, of which strings are ASCII, the type and the value of the element,
\* and consumes what was made and nothing of what follows it.
THEOREM ElementsAreReadAsMade ==
  ASSUME NEW e \in Nested3(AsciiChar), NEW code \in Make(e), NEW rest \in Seq(Octet)
  PROVE  Parse(code \o rest, ParseSeq) = {<<e[1], Meant(e), Len(code)>>}
BY Made3 DEF Make, Meant, Made, Reads

\* The elements of a record are read as what they are where the attributes are.
LEMMA AttributesMade ==
  ASSUME NEW chars, NEW attributes, AreOf(attributes, Nested3(chars)),
         NEW n, n = Len(attributes), NEW e, e = RecordOf(attributes),
         NEW made, made = [j \in 1..(2 * n) |-> made[j]],
         \A j \in 1..(2 * n) : \A x \in Nested3(chars) : e[2][j] = x => Made(x, made[j], Meant(x)),
         NEW values, values = [j \in 1..(2 * n) |-> Meant(e[2][j])]
  PROVE  AllMade(2 * n, e[2], made, values)
<1>1. /\ n \in Nat
      /\ \A i \in 1..n : /\ attributes[i][1] \in Id /\ attributes[i][2] \in Nested3(chars)
                         /\ e[2][2 * i - 1] = <<"UInt", attributes[i][1]>>
                         /\ e[2][2 * i] = attributes[i][2]
  BY RecordOfIs
<1>2. ASSUME NEW j \in 1..(2 * n) PROVE e[2][j] \in Nested3(chars)
  <2>1. CASE j % 2 = 1
    <3>1. PICK i \in 1..n : j = 2 * i - 1
      BY <1>1, <2>1, HalvesAre
    <3>2. e[2][j] = <<"UInt", attributes[i][1]>> /\ attributes[i][1] \in Id
      BY <1>1, <3>1
    <3>3. <<"UInt", attributes[i][1]>> \in Atoms(chars)
      BY <3>2, IdMeant
    <3>4. QED
      BY <3>2, <3>3 DEF Nested3
  <2>2. CASE j % 2 # 1
    <3>1. PICK i \in 1..n : j = 2 * i
      BY <1>1, <2>2, HalvesAre
    <3>2. QED
      BY <1>1, <3>1
  <2>3. QED
    BY <2>1, <2>2
<1>3. ASSUME NEW j \in 1..(2 * n) PROVE Made(e[2][j], made[j], values[j])
  <2>1. values[j] = Meant(e[2][j])
    OBVIOUS
  <2>2. Made(e[2][j], made[j], Meant(e[2][j]))
    BY <1>2
  <2>3. QED
    BY <2>1, <2>2
<1>4. values = [j \in 1..(2 * n) |-> values[j]]
  OBVIOUS
<1>5. QED
  BY <1>3, <1>4 DEF AllMade

\* An identifier has one value.
Consistent(attributes) ==
  \A i, j \in DOMAIN attributes :
    attributes[i][1] = attributes[j][1] => attributes[i][2] = attributes[j][2]

\* sdp_parse_raw_record reads off a record that is made here of attributes, of
\* which strings are ASCII, every attribute with its value, and no other
\* (sdp_make_data_element in advertise_service, find_service).
THEOREM RecordsAreReadAsMade ==
  ASSUME NEW attributes, AreOf(attributes, Nested3(AsciiChar)), Consistent(attributes),
         NEW data \in MakeRecord(attributes)
  PROVE  IsRecord(data, attributes) /\ data # <<>>
<1>1. PICK n, e : n = Len(attributes) /\ e = RecordOf(attributes)
  OBVIOUS
<1> DEFINE made == [j \in DOMAIN e[2] |-> Make(e[2][j])]
           values == [j \in 1..(2 * n) |-> Meant(e[2][j])]
<1>2. data \in MakeSeq(e, made)
  BY <1>1 DEF MakeRecord
<1>3. DOMAIN e[2] = 1..(2 * n)
  BY <1>1, RecordOfIs
<1>4. made = [j \in 1..(2 * n) |-> made[j]] /\ \A j \in 1..(2 * n) : made[j] = Make(e[2][j])
  BY <1>3
<1>5. values = [j \in 1..(2 * n) |-> Meant(e[2][j])] /\ \A j \in 1..(2 * n) : values[j] = Meant(e[2][j])
  OBVIOUS
<1> HIDE DEF made, values
<1>6. \A x \in Nested3(AsciiChar) : Made(x, Make(x), Meant(x))
  BY Made3 DEF Make, Meant
<1>7. \A j \in 1..(2 * n) : \A x \in Nested3(AsciiChar) : e[2][j] = x => Made(x, made[j], Meant(x))
  BY <1>4, <1>6
<1>8. AllMade(2 * n, e[2], made, values)
  BY <1>1, <1>4, <1>5, <1>7, AttributesMade
<1>9. \A j \in DOMAIN e[2] : values[j] = Meant(e[2][j])
  BY <1>3, <1>5
<1>10. QED
  BY <1>1, <1>2, <1>8, <1>9, RecordReads DEF Consistent

\* The attributes of a peer are of such elements.
LEMMA AttrsAre ==
  ASSUME NEW peer \in Attrs
  PROVE  AreOf(peer, Nested3(Char)) /\ Consistent(peer)
BY DEF Attrs, AreOf, Consistent

\* A record of a peer is read as what the peer means.
LEMMA OfferedAreRead ==
  ASSUME NEW peer \in Attrs, NEW data \in Offered(peer)
  PROVE  IsRecord(data, peer) /\ data # <<>>
<1>1. PICK n, e : n = Len(peer) /\ e = RecordOf(peer)
  OBVIOUS
<1> DEFINE made == [j \in DOMAIN e[2] |-> Of3(e[2][j], EncodeAtom, MakeSeq)]
           values == [j \in 1..(2 * n) |-> Meant(e[2][j])]
<1>2. data \in MakeSeq(e, made)
  BY <1>1 DEF Offered
<1>0. AreOf(peer, Nested3(Char)) /\ Consistent(peer)
  BY AttrsAre
<1>3. DOMAIN e[2] = 1..(2 * n)
  BY <1>0, <1>1, RecordOfIs
<1>4. made = [j \in 1..(2 * n) |-> made[j]]
      /\ \A j \in 1..(2 * n) : made[j] = Of3(e[2][j], EncodeAtom, MakeSeq)
  BY <1>3
<1>5. values = [j \in 1..(2 * n) |-> Meant(e[2][j])] /\ \A j \in 1..(2 * n) : values[j] = Meant(e[2][j])
  OBVIOUS
<1> HIDE DEF made, values
<1>6. \A x \in Nested3(Char) : Made(x, Of3(x, EncodeAtom, MakeSeq), Meant(x))
  BY Made3 DEF Meant
<1>7. \A j \in 1..(2 * n) : \A x \in Nested3(Char) : e[2][j] = x => Made(x, made[j], Meant(x))
  BY <1>4, <1>6
<1>8. AllMade(2 * n, e[2], made, values)
  BY <1>0, <1>1, <1>4, <1>5, <1>7, AttributesMade
<1>9. \A j \in DOMAIN e[2] : values[j] = Meant(e[2][j])
  BY <1>3, <1>5
<1>10. QED
  BY <1>0, <1>1, <1>2, <1>8, <1>9, RecordReads DEF Consistent

-----------------------------------------------------------------------------
\* The octets of 0.
LEMMA ZerosAre ==
  /\ Zeros(15) \in Seq(Octet) /\ Len(Zeros(15)) = 15 /\ \A i \in 1..15 : Zeros(15)[i] = 0
  /\ Zeros(16) \in Seq(Octet) /\ Len(Zeros(16)) = 16 /\ \A i \in 1..16 : Zeros(16)[i] = 0
<1>1. ASSUME NEW n \in Nat
      PROVE  Zeros(n) \in Seq(Octet) /\ Len(Zeros(n)) = n /\ \A i \in 1..n : Zeros(n)[i] = 0
  <2>1. \A i \in 1..n : Zeros(n)[i] = 0
    BY DEF Zeros
  <2>2. Zeros(n) = [i \in 1..n |-> Zeros(n)[i]]
    BY DEF Zeros
  <2>3. 0 \in Octet
    BY DEF Octet
  <2>4. \A i \in 1..n : Zeros(n)[i] \in Octet
    BY <2>1, <2>3
  <2>5. QED
    BY <2>1, <2>2, <2>4, SequenceOf
<1>2. 15 \in Nat /\ 16 \in Nat
  OBVIOUS
<1>3. QED
  BY <1>1, <1>2

\* An octet before 15 that are 0.
LEMMA OneAndZeros ==
  ASSUME NEW h \in Seq(Octet), Len(h) = 1, NEW l, Joined(l, h, Zeros(15))
  PROVE  l \in Seq(Octet) /\ Len(l) = 16 /\ l[1] = h[1] /\ \A i \in 2..16 : l[i] = 0
<1>z. PICK z : z = Zeros(15)
  OBVIOUS
<1>y. z \in Seq(Octet) /\ Len(z) = 15 /\ \A i \in 1..15 : z[i] = 0
  BY <1>z, ZerosAre
<1>1. /\ l \in Seq(Octet) /\ Len(l) = Len(h) + Len(z)
      /\ \A i \in 1..(Len(h) + Len(z)) : l[i] = IF i <= Len(h) THEN h[i] ELSE z[i - Len(h)]
  BY <1>z, <1>y, ConcatProperties DEF Joined
<1>a. Len(h) + Len(z) = 16
  BY <1>y
<1>b. Len(h) = 1
  OBVIOUS
<1>c. \A i \in 1..16 : l[i] = IF i <= Len(h) THEN h[i] ELSE z[i - Len(h)]
  BY <1>1, <1>a
<1>2. \A i \in 1..16 : l[i] = IF i <= 1 THEN h[i] ELSE z[i - 1]
  BY <1>b, <1>c
<1>3. \A i \in 2..16 : i \in 1..16 /\ ~(i <= 1) /\ i - 1 \in 1..15
  OBVIOUS
<1>4. \A i \in 2..16 : l[i] = 0
  BY <1>2, <1>3, <1>y
<1>5. 1 \in 1..16 /\ 1 <= 1
  OBVIOUS
<1>6. l[1] = h[1]
  BY <1>2, <1>5
<1>7. Len(l) = 16
  BY <1>1, <1>a
<1>8. QED
  BY <1>1, <1>4, <1>6, <1>7

\* The octets of the least integer of 128 bits.
LEMMA LeastIs ==
  /\ Least \in Seq(Octet) /\ Len(Least) = 16 /\ Least[1] = 128
  /\ \A i \in 2..16 : Least[i] = 0
<1>2. PICK h : h = <<128>>
  OBVIOUS
<1>3. h \in Seq(Octet) /\ Len(h) = 1 /\ h[1] = 128
  BY <1>2 DEF Octet
<1>4. Least = h \o Zeros(15)
  BY <1>2 DEF Least
<1>7. PICK l : l = Least
  OBVIOUS
<1>9. Joined(l, h, Zeros(15))
  BY <1>4, <1>7 DEF Joined
<1>8. l \in Seq(Octet) /\ Len(l) = 16 /\ l[1] = h[1] /\ \A i \in 2..16 : l[i] = 0
  BY <1>3, <1>9, OneAndZeros
<1>10. QED
  BY <1>3, <1>7, <1>8

\* sdp_parse_int gives of a signed integer of 128 bits the integer where it is
\* negative and not the least, or 0, and nowhere else.
LEMMA WideIsExact ==
  ASSUME NEW o \in Seq(Octet), Len(o) = 16
  PROVE  Wide(o) = o <=> Exact(o)
<1>1. /\ o # <<>> /\ Tail(o) \in Seq(Octet) /\ Len(Tail(o)) = 15
      /\ \A i \in 1..15 : Tail(o)[i] = o[i + 1]
  <2>1. o # <<>>
    <3>1. Len(o) # 0
      OBVIOUS
    <3>2. QED
      BY <3>1, EmptySeq
  <2>2. Len(Tail(o)) = Len(o) - 1
    BY <2>1, HeadTailProperties
  <2>3. Tail(o) \in Seq(Octet) /\ \A i \in 1..Len(Tail(o)) : Tail(o)[i] = o[i + 1]
    BY <2>1, HeadTailProperties
  <2>4. Len(Tail(o)) = 15
    BY <2>2
  <2>5. QED
    BY <2>1, <2>3, <2>4
<1>2. o[1] \in 0..255
  <2>1. 1 \in 1..Len(o)
    OBVIOUS
  <2>2. \A i \in 1..Len(o) : o[i] \in 0..255
    BY OctetsAt
  <2>3. QED
    BY <2>1, <2>2
<1>3. ASSUME Tail(o) = Zeros(15) PROVE \A i \in 2..16 : o[i] = 0
  <2>1. ASSUME NEW i \in 2..16 PROVE o[i] = 0
    <3>1. i - 1 \in 1..15 /\ (i - 1) + 1 = i
      OBVIOUS
    <3>2. Tail(o)[i - 1] = o[(i - 1) + 1] /\ Zeros(15)[i - 1] = 0
      BY <1>1, <3>1, ZerosAre
    <3>3. QED
      BY <1>3, <3>1, <3>2
  <2>2. QED
    BY <2>1
<1>4. ASSUME \A i \in 2..16 : o[i] = 0 PROVE Tail(o) = Zeros(15)
  <2>1. ASSUME NEW i \in 1..15 PROVE Tail(o)[i] = Zeros(15)[i]
    <3>1. i + 1 \in 2..16
      OBVIOUS
    <3>2. QED
      BY <1>1, <1>4, <3>1, ZerosAre
  <2>2. QED
    BY <1>1, <2>1, ZerosAre, SeqEqual
<1>5. o = Zeros(16) <=> o[1] = 0 /\ Tail(o) = Zeros(15)
  <2>1. ASSUME o = Zeros(16) PROVE o[1] = 0 /\ Tail(o) = Zeros(15)
    <3>1. \A i \in 2..16 : o[i] = 0
      <4>1. \A i \in 2..16 : i \in 1..16
        OBVIOUS
      <4>2. QED
        BY <2>1, <4>1, ZerosAre
    <3>2. QED
      BY <1>4, <2>1, <3>1, ZerosAre
  <2>2. ASSUME o[1] = 0, Tail(o) = Zeros(15) PROVE o = Zeros(16)
    <3>1. \A i \in 2..16 : o[i] = 0
      BY <1>3, <2>2
    <3>2. \A i \in 1..Len(o) : o[i] = Zeros(16)[i]
      <4>1. ASSUME NEW i \in 1..16 PROVE o[i] = 0
        <5>1. i = 1 \/ i \in 2..16
          OBVIOUS
        <5>2. QED
          BY <2>2, <3>1, <5>1
      <4>2. QED
        BY <4>1, ZerosAre
    <3>3. QED
      BY <3>2, ZerosAre, SeqEqual
  <2>3. QED
    BY <2>1, <2>2
<1>6. /\ Least \in Seq(Octet) /\ Len(Least) = 16 /\ Least[1] = 128
      /\ \A i \in 2..16 : Least[i] = 0
  BY LeastIs
<1>7. o = Least <=> o[1] = 128 /\ Tail(o) = Zeros(15)
  <2>1. ASSUME o = Least PROVE o[1] = 128 /\ Tail(o) = Zeros(15)
    BY <1>4, <1>6, <2>1
  <2>2. ASSUME o[1] = 128, Tail(o) = Zeros(15) PROVE o = Least
    <3>1. \A i \in 2..16 : o[i] = 0
      BY <1>3, <2>2
    <3>2. ASSUME NEW i \in 1..16 PROVE o[i] = Least[i]
      <4>1. i = 1 \/ i \in 2..16
        OBVIOUS
      <4>2. QED
        BY <1>6, <2>2, <3>1, <4>1
    <3>3. \A i \in 1..Len(o) : o[i] = Least[i]
      BY <3>2
    <3>4. Len(o) = Len(Least) /\ Least \in Seq(Octet)
      BY <1>6
    <3>5. QED
      BY <3>3, <3>4, SeqEqual
  <2>3. QED
    BY <2>1, <2>2
<1>8. CASE o[1] \in {0, 128} /\ Tail(o) = Zeros(15)
  <2>1. Wide(o) = Zeros(16)
    BY <1>8 DEF Wide
  <2>2. Wide(o) = o <=> o[1] = 0
    BY <1>5, <1>8, <2>1
  <2>3. Exact(o) <=> o = Zeros(16) \/ (o[1] > 127 /\ o # Least)
    BY DEF Exact
  <2>4. QED
    BY <1>5, <1>7, <1>8, <2>2, <2>3
<1>9. CASE ~(o[1] \in {0, 128} /\ Tail(o) = Zeros(15))
  <2> DEFINE w == [o EXCEPT ![1] = 128 + (o[1] % 128)]
  <2>1. Wide(o) = w
    BY <1>9 DEF Wide
  <2>2. 1 \in DOMAIN o
    BY LenProperties
  <2>3. w = o <=> 128 + (o[1] % 128) = o[1]
    BY <2>2
  <2>4. 128 + (o[1] % 128) = o[1] <=> o[1] > 127
    <3>1. \A k \in 0..255 : 128 + (k % 128) = k <=> k > 127
      OBVIOUS
    <3>2. QED
      BY <1>2, <3>1
  <2>5. Exact(o) <=> o = Zeros(16) \/ (o[1] > 127 /\ o # Least)
    BY DEF Exact
  <2> HIDE DEF w
  <2>6. QED
    BY <1>5, <1>7, <1>9, <2>1, <2>3, <2>4, <2>5
<1>10. QED
  BY <1>8, <1>9

\* FoundAsOffered, in whatever state.
LEMMA AlwaysFoundAsOffered == ServicesAssumption => FoundAsOffered
<1> SUFFICES ASSUME ServicesAssumption, NEW peer \in Peers, NEW data \in Offered(peer),
                    found.raws = {data}
             PROVE  \E record \in ParseRecord(data) :
                      /\ DOMAIN record = {peer[i][1] : i \in DOMAIN peer}
                      /\ \A i \in DOMAIN peer :
                           LET e == peer[i][2]
                               value == record[peer[i][1]]
                           IN /\ value = Meant(e)
                              /\ e[1] = "SInt" /\ Len(e[2]) = 16 =>
                                   (value = e[2] <=> Exact(e[2]))
  BY DEF FoundAsOffered
<1>1. peer \in Attrs
  BY DEF ServicesAssumption
<1>2. PICK record : /\ ParseRecord(data) = {record}
                    /\ DOMAIN record = {peer[i][1] : i \in DOMAIN peer}
                    /\ \A i \in DOMAIN peer : record[peer[i][1]] = Meant(peer[i][2])
  BY <1>1, OfferedAreRead DEF IsRecord
<1>3. ASSUME NEW i \in DOMAIN peer, peer[i][2][1] = "SInt", Len(peer[i][2][2]) = 16
      PROVE  Meant(peer[i][2]) = peer[i][2][2] <=> Exact(peer[i][2][2])
  <2> DEFINE e == peer[i][2]
  <2>1. e \in Nested3(Char)
    <3>1. peer \in Seq(Id \X Nested3(Char))
      BY <1>1 DEF Attrs
    <3>2. peer[i] \in Id \X Nested3(Char)
      BY <1>3, <3>1, LenProperties, ElementOfSeq
    <3>3. QED
      BY <3>2
  <2>2. e[1] = "SInt" /\ Len(e[2]) = 16 /\ e[1] \notin Lists
    BY <1>3 DEF Lists
  <2> HIDE DEF e
  <2>3. e \in Atoms(Char)
    BY <2>1, <2>2, ListIs DEF Nested3
  <2>4. e[2] \in Seq(Octet)
    BY <2>2, <2>3, AtomIs
  <2>5. Meant(e) = Wide(e[2])
    <3>1. Meant(e) = MeantAtom(e)
      BY <2>2 DEF Meant, Of3
    <3>2. MeantAtom(e) = Wide(e[2])
      BY <2>2, MeantAtomIs
    <3>3. QED
      BY <3>1, <3>2
  <2>6. QED
    BY <2>2, <2>4, <2>5, WideIsExact DEF e
<1>4. record \in ParseRecord(data)
  BY <1>2
<1>5. QED
  BY <1>2, <1>3, <1>4

\* The parser gives of every attribute of a peer's record the value the peer
\* means, but for integers of 128 bits: whatever the peers offer
\* (find_service, sdp_parse_raw_record).
THEOREM PeersAreUnderstood == Spec => []FoundAsOffered
<1>1. FoundAsOffered
  BY AlwaysFoundAsOffered, ServicesAssumption
<1>2. QED
  BY <1>1, PTL

-----------------------------------------------------------------------------
\* An element that is no list is nested however deep.
LEMMA AtomsNested ==
  ASSUME NEW chars
  PROVE  /\ Atoms(chars) \subseteq Nested1(chars)
         /\ Atoms(chars) \subseteq Nested2(chars)
         /\ Atoms(chars) \subseteq Nested3(chars)
BY DEF Nested1, Nested2, Nested3

\* A list of such elements.
LEMMA ListNested ==
  ASSUME NEW elements, NEW list, list = [i \in 1..Len(list) |-> list[i]], Len(list) \in Nat,
         \A i \in 1..Len(list) : list[i] \in elements
  PROVE  <<"ElemSeq", list>> \in ListsOf(elements)
<1>1. list \in Seq(elements)
  BY SequenceOf
<1>2. "ElemSeq" \in Lists
  BY DEF Lists
<1>3. QED
  BY <1>1, <1>2 DEF ListsOf

\* The elements of UUIDs that are valid.
LEMMA UuidsNested ==
  ASSUME NEW uuids \in Seq(AnyUuid), \A u \in Range(uuids) : IsValid(u)
  PROVE  /\ Uuids(uuids) = [i \in 1..Len(uuids) |-> Uuids(uuids)[i]]
         /\ Len(Uuids(uuids)) = Len(uuids) /\ Len(uuids) \in Nat
         /\ \A i \in 1..Len(uuids) : /\ Uuids(uuids)[i] = <<"UUID", uuids[i]>>
                                     /\ Uuids(uuids)[i] \in Atoms(AsciiChar)
         /\ <<"ElemSeq", Uuids(uuids)>> \in ListsOf(Atoms(AsciiChar))
<1> DEFINE n == Len(uuids)
           list == Uuids(uuids)
<1>1. n \in Nat /\ DOMAIN uuids = 1..n /\ \A i \in 1..n : uuids[i] \in AnyUuid
  BY LenProperties, ElementOfSeq
<1>2. list = [i \in 1..n |-> <<"UUID", uuids[i]>>]
  BY <1>1 DEF Uuids
<1>3. \A i \in 1..n : list[i] = <<"UUID", uuids[i]>>
  BY <1>2
<1>4. list = [i \in 1..n |-> list[i]]
  BY <1>2
<1>5. \A i \in 1..n : IsValid(uuids[i])
  <2>1. \A i \in 1..n : uuids[i] \in Range(uuids)
    BY <1>1 DEF Range
  <2>2. QED
    BY <2>1
<1>6. ASSUME NEW i \in 1..n PROVE list[i] \in Atoms(AsciiChar)
  <2>1. uuids[i] \in {u \in AnyUuid : Len(u[2]) \in {2, 4, 16}}
    BY <1>1, <1>5 DEF IsValid
  <2>2. <<"UUID", uuids[i]>> \in {"UUID"} \X {u \in AnyUuid : Len(u[2]) \in {2, 4, 16}}
    BY <2>1
  <2>3. QED
    BY <1>3, <2>2 DEF Atoms
<1> HIDE DEF n, list
<1>7. Len(list) = n
  <2>1. list \in Seq(Atoms(AsciiChar))
    BY <1>1, <1>4, <1>6, SequenceOf
  <2>2. QED
    BY <1>1, <1>4, <2>1, LenProperties
<1>8. <<"ElemSeq", list>> \in ListsOf(Atoms(AsciiChar))
  BY <1>1, <1>4, <1>6, <1>7, ListNested
<1>9. QED
  BY <1>1, <1>3, <1>4, <1>6, <1>7, <1>8 DEF n, list

\* Lists of one element each.
LEMMA EachNested ==
  ASSUME NEW list, list = [i \in 1..Len(list) |-> list[i]], Len(list) \in Nat,
         \A i \in 1..Len(list) : list[i] \in Atoms(AsciiChar)
  PROVE  <<"ElemSeq", Each(list)>> \in Nested3(AsciiChar)
         /\ Each(list) \in Seq(Nested1(AsciiChar))
<1> DEFINE n == Len(list)
           e == Each(list)
<1>1. DOMAIN list = 1..n
  OBVIOUS
<1>2. e = [i \in 1..n |-> <<"ElemSeq", <<list[i]>>>>]
  BY <1>1 DEF Each
<1>3. \A i \in 1..n : e[i] = <<"ElemSeq", <<list[i]>>>>
  BY <1>2
<1>4. e = [i \in 1..n |-> e[i]]
  BY <1>2
<1>5. ASSUME NEW i \in 1..n PROVE e[i] \in Nested1(AsciiChar)
  <2>1. <<list[i]>> \in Seq(Atoms(AsciiChar))
    OBVIOUS
  <2>2. "ElemSeq" \in Lists
    BY DEF Lists
  <2>3. PICK x : x = <<list[i]>>
    OBVIOUS
  <2>4. <<"ElemSeq", x>> \in ListsOf(Atoms(AsciiChar))
    BY <2>1, <2>2, <2>3 DEF ListsOf
  <2>5. e[i] = <<"ElemSeq", x>>
    BY Zenon, <1>3, <2>3
  <2>6. QED
    BY <2>4, <2>5 DEF Nested1
<1> HIDE DEF e, n
<1>6. e \in Seq(Nested1(AsciiChar))
  BY <1>4, <1>5, SequenceOf DEF n
<1>7. "ElemSeq" \in Lists
  BY DEF Lists
<1>8. <<"ElemSeq", e>> \in Nested2(AsciiChar)
  BY <1>6, <1>7 DEF Nested2, ListsOf
<1>9. e \in Seq(Nested2(AsciiChar))
  <2>1. Nested1(AsciiChar) \subseteq Nested2(AsciiChar)
    <3>1. \A x \in ListsOf(Atoms(AsciiChar)) : x \in ListsOf(Nested1(AsciiChar))
      BY AtomsNested DEF ListsOf
    <3>2. QED
      BY <3>1 DEF Nested1, Nested2
  <2>2. \A i \in 1..n : e[i] \in Nested2(AsciiChar)
    BY <1>5, <2>1
  <2>3. n \in Nat
    BY DEF n
  <2>4. QED
    BY <1>4, <2>2, <2>3, SequenceOf
<1>10. QED
  BY <1>6, <1>7, <1>9 DEF Nested3, ListsOf, e

\* The values of a list.
LEMMA MeantListIs ==
  ASSUME NEW e, e[1] \in Lists, NEW n \in Nat, DOMAIN e[2] = 1..n
  PROVE  /\ DOMAIN Meant(e) = 1..n
         /\ \A i \in 1..n : Meant(e)[i][2] = Of2(e[2][i], MeantAtom, MeantList)
         /\ Seconds(Meant(e)) = [i \in 1..n |-> Of2(e[2][i], MeantAtom, MeantList)]
<1> DEFINE v == [i \in 1..n |-> Of2(e[2][i], MeantAtom, MeantList)]
           m == Meant(e)
<1>1. m = MeantList(e, v)
  BY DEF Meant, Of3
<1>2. m = [i \in 1..n |-> <<e[2][i][1], v[i]>>]
  BY <1>1 DEF MeantList
<1>3. DOMAIN m = 1..n /\ \A i \in 1..n : m[i] = <<e[2][i][1], v[i]>>
  BY <1>2
<1>4. \A i \in 1..n : v[i] = Of2(e[2][i], MeantAtom, MeantList)
  OBVIOUS
<1>5. v = [i \in 1..n |-> v[i]]
  OBVIOUS
<1> HIDE DEF m, v
<1>6. \A i \in 1..n : m[i][2] = v[i]
  BY <1>3
<1>7. Seconds(m) = [i \in 1..n |-> m[i][2]]
  BY <1>3 DEF Seconds
<1>8. Seconds(m) = v
  BY <1>5, <1>6, <1>7
<1>9. QED
  BY <1>3, <1>4, <1>6, <1>8 DEF m, v

\* The value of an element that is no list.
LEMMA AtomMeant ==
  ASSUME NEW e, e[1] \notin Lists
  PROVE  /\ Of1(e, MeantAtom, MeantList) = MeantAtom(e)
         /\ Of2(e, MeantAtom, MeantList) = MeantAtom(e)
         /\ Meant(e) = MeantAtom(e)
BY DEF Meant, Of1, Of2, Of3

\* The service classes are read as those that were given.
LEMMA UuidsMeant ==
  ASSUME NEW uuids \in Seq(AnyUuid), \A u \in Range(uuids) : IsValid(u)
  PROVE  Seconds(Meant(<<"ElemSeq", Uuids(uuids)>>)) = [i \in DOMAIN uuids |-> UuidText(uuids[i])]
<1>1. PICK n, list : n = Len(uuids) /\ list = Uuids(uuids)
  OBVIOUS
<1>2. n \in Nat /\ DOMAIN uuids = 1..n
  BY <1>1, LenProperties
<1>3. DOMAIN list = 1..n /\ \A i \in 1..n : list[i] = <<"UUID", uuids[i]>>
  <2>1. list = [i \in 1..n |-> list[i]]
    BY Zenon, <1>1, UuidsNested
  <2>2. DOMAIN list = 1..n
    BY <2>1
  <2>3. \A i \in 1..n : list[i] = <<"UUID", uuids[i]>>
    BY <1>1, UuidsNested
  <2>4. QED
    BY <2>2, <2>3
<1>4. PICK e : e = <<"ElemSeq", list>>
  OBVIOUS
<1>5. e[1] \in Lists /\ DOMAIN e[2] = 1..n /\ e[2] = list
  BY <1>3, <1>4 DEF Lists
<1>6. Seconds(Meant(e)) = [i \in 1..n |-> Of2(list[i], MeantAtom, MeantList)]
  BY <1>2, <1>5, MeantListIs
<1>7. ASSUME NEW i \in 1..n PROVE Of2(list[i], MeantAtom, MeantList) = UuidText(uuids[i])
  <2>1. PICK x : x = list[i]
    OBVIOUS
  <2>2. x[1] = "UUID" /\ x[2] = uuids[i] /\ x[1] \notin Lists
    BY <1>3, <2>1 DEF Lists
  <2>3. Of2(x, MeantAtom, MeantList) = MeantAtom(x)
    BY <2>2, AtomMeant
  <2>4. QED
    BY <2>1, <2>2, <2>3, MeantAtomIs
<1>8. Seconds(Meant(e)) = [i \in 1..n |-> UuidText(uuids[i])]
  BY <1>6, <1>7
<1>9. QED
  BY <1>1, <1>2, <1>4, <1>8

\* The elements of profiles, as Pairs has them.
Profile(profile) == <<"ElemSeq", <<<<"UUID", profile[1]>>, <<"UInt", profile[2]>>>>>>
Profiles(profiles) == [i \in DOMAIN profiles |-> Profile(profiles[i])]

\* A profile is read as its UUID and its version.
LEMMA ProfileIs ==
  ASSUME NEW profile \in AnyUuid \X Id, IsValid(profile[1])
  PROVE  /\ Profile(profile) \in Nested1(AsciiChar)
         /\ Seconds(Of2(Profile(profile), MeantAtom, MeantList))
            = <<UuidText(profile[1]), profile[2]>>
<1>1. PICK u, id : u = profile[1] /\ id = profile[2]
  OBVIOUS
<1>2. u \in AnyUuid /\ id \in Id /\ IsValid(u)
  BY <1>1
<1>3. PICK a, b : a = <<"UUID", u>> /\ b = <<"UInt", id>>
  OBVIOUS
<1>4. a \in Atoms(AsciiChar) /\ MeantAtom(a) = UuidText(u)
  <2>1. u \in {v \in AnyUuid : Len(v[2]) \in {2, 4, 16}}
    BY <1>2 DEF IsValid
  <2>2. a \in {"UUID"} \X {v \in AnyUuid : Len(v[2]) \in {2, 4, 16}}
    BY <1>3, <2>1
  <2>3. a[1] = "UUID" /\ a[2] = u
    BY <1>3
  <2>4. QED
    BY <2>2, <2>3, MeantAtomIs DEF Atoms
<1>5. b \in Atoms(AsciiChar) /\ MeantAtom(b) = id
  <2>1. b[1] = "UInt" /\ b[2] = id
    BY <1>3
  <2>2. b \in Atoms(AsciiChar)
    BY <1>2, <1>3, IdMeant
  <2>3. QED
    BY <2>1, <2>2, MeantAtomIs
<1>6. PICK l : l = <<a, b>>
  OBVIOUS
<1>7. l \in Seq(Atoms(AsciiChar)) /\ Len(l) = 2 /\ l[1] = a /\ l[2] = b /\ DOMAIN l = 1..2
  BY <1>4, <1>5, <1>6
<1>8. Profile(profile) = <<"ElemSeq", l>>
  BY Zenon, <1>1, <1>3, <1>6 DEF Profile
<1>9. Profile(profile) \in Nested1(AsciiChar)
  <2>1. "ElemSeq" \in Lists
    BY DEF Lists
  <2>2. <<"ElemSeq", l>> \in ListsOf(Atoms(AsciiChar))
    BY <1>7, <2>1 DEF ListsOf
  <2>3. QED
    BY <1>8, <2>2 DEF Nested1
<1>10. PICK e : e = <<"ElemSeq", l>>
  OBVIOUS
<1>11. e[1] \in Lists /\ e[2] = l
  BY <1>10 DEF Lists
<1>12. a[1] \notin Lists /\ b[1] \notin Lists
  BY <1>4, <1>5, AtomIsNoList
<1> DEFINE v == [i \in DOMAIN e[2] |-> Of1(e[2][i], MeantAtom, MeantList)]
<1>13. v = [i \in 1..2 |-> v[i]] /\ v[1] = UuidText(u) /\ v[2] = id
  <2>1. Of1(a, MeantAtom, MeantList) = UuidText(u) /\ Of1(b, MeantAtom, MeantList) = id
    BY <1>4, <1>5, <1>12, AtomMeant
  <2>2. DOMAIN e[2] = 1..2
    BY <1>7, <1>11
  <2>3. v[1] = Of1(e[2][1], MeantAtom, MeantList) /\ v[2] = Of1(e[2][2], MeantAtom, MeantList)
    BY <2>2
  <2>4. e[2][1] = a /\ e[2][2] = b
    BY <1>7, <1>11
  <2>5. v = [i \in 1..2 |-> v[i]]
    BY <2>2
  <2> HIDE DEF v
  <2>6. QED
    BY <2>1, <2>3, <2>4, <2>5
<1>14. Of2(e, MeantAtom, MeantList) = MeantList(e, v)
  BY <1>11 DEF Of2
<1> HIDE DEF v
<1>15. PICK m : m = MeantList(e, v)
  OBVIOUS
<1>16. DOMAIN m = 1..2 /\ \A i \in 1..2 : m[i][2] = v[i]
  <2>1. DOMAIN v = 1..2
    BY <1>13
  <2>2. m = [i \in 1..2 |-> <<e[2][i][1], v[i]>>]
    BY <1>15, <2>1 DEF MeantList
  <2>3. QED
    BY <2>2
<1>17. Seconds(m) = <<UuidText(u), id>>
  <2>1. Seconds(m) = [i \in 1..2 |-> m[i][2]]
    BY <1>16 DEF Seconds
  <2>2. PICK t, w : t = UuidText(u) /\ w = <<t, id>>
    OBVIOUS
  <2>3. w = [i \in 1..2 |-> w[i]] /\ w[1] = t /\ w[2] = id
    BY <2>2
  <2>4. \A i \in 1..2 : m[i][2] = w[i]
    <3>1. m[1][2] = w[1] /\ m[2][2] = w[2]
      BY <1>13, <1>16, <2>2, <2>3
    <3>2. \A i \in 1..2 : i = 1 \/ i = 2
      OBVIOUS
    <3>3. QED
      BY <3>1, <3>2
  <2>5. Seconds(m) = w
    BY <2>1, <2>3, <2>4
  <2>6. QED
    BY <2>2, <2>5
<1>18. QED
  BY <1>1, <1>8, <1>9, <1>10, <1>14, <1>15, <1>17

\* The profiles are read as those that were given.
LEMMA ProfilesAre ==
  ASSUME NEW profiles \in Seq(AnyUuid \X Id), \A p \in Range(profiles) : IsValid(p[1])
  PROVE  LET m == Meant(<<"ElemSeq", Profiles(profiles)>>)
         IN  /\ <<"ElemSeq", Profiles(profiles)>> \in Nested3(AsciiChar)
             /\ [i \in DOMAIN m |-> Seconds(m[i][2])]
                = [i \in DOMAIN profiles |-> <<UuidText(profiles[i][1]), profiles[i][2]>>]
<1>1. PICK n, list, e : n = Len(profiles) /\ list = Profiles(profiles) /\ e = <<"ElemSeq", list>>
  OBVIOUS
<1>2. n \in Nat /\ DOMAIN profiles = 1..n /\ \A i \in 1..n : profiles[i] \in AnyUuid \X Id
  BY <1>1, LenProperties, ElementOfSeq
<1>3. \A i \in 1..n : IsValid(profiles[i][1])
  <2>1. \A i \in 1..n : profiles[i] \in Range(profiles)
    BY <1>2 DEF Range
  <2>2. QED
    BY <2>1
<1>4. list = [i \in 1..n |-> Profile(profiles[i])]
  BY <1>1, <1>2 DEF Profiles
<1>5. list = [i \in 1..n |-> list[i]] /\ DOMAIN list = 1..n
      /\ \A i \in 1..n : list[i] = Profile(profiles[i])
  BY <1>4
<1>6. \A i \in 1..n : list[i] \in Nested1(AsciiChar)
  BY <1>2, <1>3, <1>5, ProfileIs
<1>7. e[1] \in Lists /\ e[2] = list
  BY <1>1 DEF Lists
<1>8. e \in Nested3(AsciiChar)
  <2>1. Nested1(AsciiChar) \subseteq Nested2(AsciiChar)
    <3>1. \A x \in ListsOf(Atoms(AsciiChar)) : x \in ListsOf(Nested1(AsciiChar))
      BY AtomsNested DEF ListsOf
    <3>2. QED
      BY <3>1 DEF Nested1, Nested2
  <2>2. \A i \in 1..n : list[i] \in Nested2(AsciiChar)
    BY <1>6, <2>1
  <2>3. list \in Seq(Nested2(AsciiChar))
    BY <1>2, <1>5, <2>2, SequenceOf
  <2>4. "ElemSeq" \in Lists
    BY DEF Lists
  <2>5. QED
    BY <1>1, <2>3, <2>4 DEF Nested3, ListsOf
<1>9. PICK m : m = Meant(e)
  OBVIOUS
<1>10. DOMAIN m = 1..n /\ \A i \in 1..n : m[i][2] = Of2(list[i], MeantAtom, MeantList)
  BY <1>2, <1>5, <1>7, <1>9, MeantListIs
<1>11. \A i \in 1..n : Seconds(m[i][2]) = <<UuidText(profiles[i][1]), profiles[i][2]>>
  <2>1. ASSUME NEW i \in 1..n PROVE Seconds(m[i][2]) = <<UuidText(profiles[i][1]), profiles[i][2]>>
    <3>1. m[i][2] = Of2(Profile(profiles[i]), MeantAtom, MeantList)
      BY <1>5, <1>10
    <3>2. profiles[i] \in AnyUuid \X Id /\ IsValid(profiles[i][1])
      BY <1>2, <1>3
    <3>3. QED
      BY Zenon, <3>1, <3>2, ProfileIs
  <2>2. QED
    BY <2>1
<1>12. [i \in DOMAIN m |-> Seconds(m[i][2])]
       = [i \in DOMAIN profiles |-> <<UuidText(profiles[i][1]), profiles[i][2]>>]
  <2>1. [i \in 1..n |-> Seconds(m[i][2])] = [i \in 1..n |-> <<UuidText(profiles[i][1]), profiles[i][2]>>]
    BY Zenon, <1>11
  <2>2. QED
    BY Zenon, <1>2, <1>10, <2>1
<1>13. QED
  BY Zenon, <1>1, <1>8, <1>9, <1>12

\* The attributes of a sequence are those of a set; one attribute, if given.
Has(attributes, set) ==
  attributes \in Seq(Id \X Nested3(AsciiChar)) /\ Range(attributes) = set
Part(id, e, given) == {a \in {<<id, e>>} : given}

\* What is in it.
LEMMA PartIs ==
  ASSUME NEW id, NEW e, NEW given \in BOOLEAN
  PROVE  \A a : a \in Part(id, e, given) <=> given /\ a = <<id, e>>
BY DEF Part

\* The concatenation has the attributes of both.
LEMMA HasBoth ==
  ASSUME NEW a, NEW b, NEW s, NEW t, Has(a, s), Has(b, t)
  PROVE  Has(a \o b, s \cup t)
<1>1. a \o b \in Seq(Id \X Nested3(AsciiChar))
  BY ConcatProperties DEF Has
<1>2. Range(a \o b) = Range(a) \cup Range(b)
  BY RangeConcatenation DEF Has
<1>3. QED
  BY <1>1, <1>2 DEF Has

\* Attr has one attribute.
LEMMA AttrHas ==
  ASSUME NEW id \in Id, NEW type, NEW value, NEW e \in Nested3(AsciiChar), e = <<type, value>>
  PROVE  Has(Attr(id, type, value), Part(id, e, TRUE))
<1>1. PICK a : a = <<id, e>>
  OBVIOUS
<1>2. a \in Id \X Nested3(AsciiChar)
  BY <1>1
<1>3. Attr(id, type, value) = <<a>>
  BY Zenon, <1>1 DEF Attr
<1>4. PICK l : l = <<a>>
  OBVIOUS
<1>5. l \in Seq(Id \X Nested3(AsciiChar))
  BY <1>2, <1>4
<1>6. \A x : x \in Range(l) <=> x = a
  BY <1>4 DEF Range
<1>7. \A x : x \in Part(id, e, TRUE) <=> x = a
  BY <1>1, PartIs
<1>8. Range(l) = Part(id, e, TRUE)
  BY <1>6, <1>7
<1>9. QED
  BY <1>3, <1>4, <1>5, <1>8 DEF Has

\* An argument is given.
IsGiven(value) == value # <<>>

\* Given has it where the argument is given.
LEMMA GivenHas ==
  ASSUME NEW id \in Id, NEW type, NEW value, NEW e, e = <<type, value>>, NEW v,
         IsGiven(v) => e \in Nested3(AsciiChar)
  PROVE  Has(Given(v, Attr(id, type, value)), Part(id, e, IsGiven(v)))
<1>1. CASE v = <<>>
  <2>1. Given(v, Attr(id, type, value)) = <<>>
    BY <1>1 DEF Given
  <2>2. PICK l : l = <<>>
    OBVIOUS
  <2>3. l \in Seq(Id \X Nested3(AsciiChar))
    BY <2>2
  <2>4. \A x : x \notin Range(l)
    BY <2>2 DEF Range
  <2>5. \A x : x \notin Part(id, e, IsGiven(v))
    BY <1>1 DEF Part, IsGiven
  <2>6. Range(l) = Part(id, e, IsGiven(v))
    BY <2>4, <2>5
  <2>7. QED
    BY <2>1, <2>2, <2>3, <2>6 DEF Has
<1>2. CASE v # <<>>
  <2>1. Given(v, Attr(id, type, value)) = Attr(id, type, value)
    BY <1>2 DEF Given
  <2>2. Has(Attr(id, type, value), Part(id, e, TRUE))
    BY <1>2, AttrHas DEF IsGiven
  <2>3. IsGiven(v) = TRUE
    BY <1>2 DEF IsGiven
  <2>4. QED
    BY <2>1, <2>2, <2>3
<1>3. QED
  BY <1>1, <1>2

\* The elements of Pairs (advertise_service).
IdElement(args)      == <<"UUID", args.id[1]>>
ClassesElement(args) == <<"ElemSeq", Uuids(args.classes)>>
ProtocolsElement(args, p) ==
  <<"ElemSeq", <<<<"ElemSeq", <<<<"UUID", Short(1, 0)>>>>>>,
                 <<"ElemSeq", <<<<"UUID", Short(0, 3)>>, <<"UInt", <<p>>>>>>>>>>
               \o Each(Uuids(args.protocols))>>
BrowseElement == <<"ElemSeq", Each(Uuids(<<Short(16, 2)>>))>>
ProfilesElement(args) == <<"ElemSeq", Profiles(args.profiles)>>

\* The types of arguments.
LEMMA ArgsAre ==
  ASSUME NEW args \in Args
  PROVE  /\ args.name \in Seq(Char) /\ args.provider \in Seq(Char) /\ args.description \in Seq(Char)
         /\ args.id \in Seq(AnyUuid) /\ Len(args.id) < 2
         /\ args.classes \in Seq(AnyUuid) /\ args.protocols \in Seq(AnyUuid)
         /\ args.profiles \in Seq(AnyUuid \X Id)
<1>1. args.id \in {ids \in Seq(AnyUuid) : Len(ids) < 2}
  BY DEF Args
<1>2. QED
  BY <1>1 DEF Args

\* The strings of arguments that are ASCII.
LEMMA AsciiStrings ==
  ASSUME NEW args \in Args, Ascii(args)
  PROVE  /\ args.name \in Seq(AsciiChar) /\ args.provider \in Seq(AsciiChar)
         /\ args.description \in Seq(AsciiChar)
<1>1. PICK a, b, c : a = args.name /\ b = args.description /\ c = args.provider
  OBVIOUS
<1>2. a \in Seq(Char) /\ b \in Seq(Char) /\ c \in Seq(Char)
  BY <1>1, ArgsAre
<1>3. Range(a \o b) = Range(a) \cup Range(b)
  BY <1>2, RangeConcatenation
<1>4. PICK ab : ab = a \o b
  OBVIOUS
<1>5. Range((a \o b) \o c) = Range(a \o b) \cup Range(c)
  <2>1. ab \in Seq(Char)
    BY <1>2, <1>4, ConcatProperties
  <2>2. Range(ab \o c) = Range(ab) \cup Range(c)
    BY <1>2, <2>1, RangeConcatenation
  <2>3. QED
    BY Zenon, <1>4, <2>2
<1>6. \A x \in Range(a) \cup Range(b) \cup Range(c) : x < 128
  BY <1>1, <1>3, <1>5 DEF Ascii
<1>7. ASSUME NEW s \in Seq(Char), \A x \in Range(s) : x < 128 PROVE s \in Seq(AsciiChar)
  <2>1. Len(s) \in Nat /\ DOMAIN s = 1..Len(s) /\ \A i \in 1..Len(s) : s[i] \in Char
    BY LenProperties, ElementOfSeq
  <2>2. \A i \in 1..Len(s) : s[i] < 128
    BY <1>7, <2>1 DEF Range
  <2>3. \A i \in 1..Len(s) : s[i] \in AsciiChar
    <3>1. \A x \in Char : x < 128 => x \in AsciiChar
      BY DEF Char, AsciiChar
    <3>2. QED
      BY <2>1, <2>2, <3>1
  <2>4. s = [i \in 1..Len(s) |-> s[i]]
    BY <2>1
  <2>5. QED
    BY <2>1, <2>3, <2>4, SequenceOf
<1>8. QED
  BY <1>1, <1>2, <1>6, <1>7

\* A string is read as its octets.
LEMMA StringIs ==
  ASSUME NEW s \in Seq(AsciiChar)
  PROVE  <<"String", s>> \in Nested3(AsciiChar) /\ Meant(<<"String", s>>) = <<"bytes", Encoded(s)>>
<1>1. PICK e : e = <<"String", s>>
  OBVIOUS
<1>2. e[1] = "String" /\ e[2] = s /\ e[1] \notin Lists
  BY <1>1 DEF Lists
<1>3. e \in Atoms(AsciiChar)
  <2>1. e \in {"String", "URL"} \X Seq(AsciiChar)
    BY <1>1
  <2>2. QED
    BY <2>1 DEF Atoms
<1>4. e \in Nested3(AsciiChar)
  BY <1>3, AtomsNested
<1>5. Meant(e) = <<"bytes", Encoded(s)>>
  BY <1>2, AtomMeant, MeantAtomIs
<1>6. QED
  BY <1>1, <1>4, <1>5

\* The elements of Pairs are nested no deeper than an attribute may be.
LEMMA ElementsNested ==
  ASSUME NEW args \in Args, Valid(args), NEW p \in 1..30
  PROVE  /\ args.id # <<>> => IdElement(args) \in Nested3(AsciiChar)
         /\ ClassesElement(args) \in Nested3(AsciiChar)
         /\ ProtocolsElement(args, p) \in Nested3(AsciiChar)
         /\ BrowseElement \in Nested3(AsciiChar)
         /\ ProfilesElement(args) \in Nested3(AsciiChar)
<1>1. ASSUME args.id # <<>> PROVE IdElement(args) \in Nested3(AsciiChar)
  <2>1. PICK ids : ids = args.id
    OBVIOUS
  <2>2. ids \in Seq(AnyUuid) /\ ids # <<>>
    BY <1>1, <2>1, ArgsAre
  <2>3. 1 \in DOMAIN ids /\ ids[1] \in AnyUuid
    BY <2>2
  <2>4. ids[1] \in Range(ids)
    BY <2>3 DEF Range
  <2>5. IsValid(ids[1])
    BY <2>1, <2>4 DEF Valid
  <2>6. ids[1] \in {v \in AnyUuid : Len(v[2]) \in {2, 4, 16}}
    BY <2>3, <2>5 DEF IsValid
  <2>7. <<"UUID", ids[1]>> \in {"UUID"} \X {v \in AnyUuid : Len(v[2]) \in {2, 4, 16}}
    BY <2>6
  <2>8. <<"UUID", ids[1]>> \in Atoms(AsciiChar)
    BY <2>7 DEF Atoms
  <2>9. QED
    BY <2>1, <2>8, AtomsNested DEF IdElement
<1>2. ListsOf(Atoms(AsciiChar)) \subseteq Nested3(AsciiChar)
  <2>1. \A x \in ListsOf(Atoms(AsciiChar)) : x \in ListsOf(Nested2(AsciiChar))
    BY AtomsNested DEF ListsOf
  <2>2. QED
    BY <2>1 DEF Nested3
<1>3. ClassesElement(args) \in Nested3(AsciiChar)
  <2>1. args.classes \in Seq(AnyUuid) /\ \A u \in Range(args.classes) : IsValid(u)
    BY ArgsAre DEF Valid
  <2>2. QED
    BY <1>2, <2>1, UuidsNested DEF ClassesElement
<1>4. ASSUME NEW uuids \in Seq(AnyUuid), \A u \in Range(uuids) : IsValid(u)
      PROVE  /\ <<"ElemSeq", Each(Uuids(uuids))>> \in Nested3(AsciiChar)
             /\ Each(Uuids(uuids)) \in Seq(Nested1(AsciiChar))
  <2>1. PICK list, n : list = Uuids(uuids) /\ n = Len(uuids)
    OBVIOUS
  <2>2. list = [i \in 1..n |-> list[i]]
    BY Zenon, <1>4, <2>1, UuidsNested
  <2>3. Len(list) = n /\ n \in Nat /\ \A i \in 1..n : list[i] \in Atoms(AsciiChar)
    BY <1>4, <2>1, UuidsNested
  <2>4. QED
    BY <2>1, <2>2, <2>3, EachNested
<1>5. BrowseElement \in Nested3(AsciiChar)
  <2>1. PICK u : u = Short(16, 2)
    OBVIOUS
  <2>2. u[1] = "hex" /\ u[2] = <<16, 2>> /\ u = <<"hex", <<16, 2>>>>
    BY <2>1 DEF Short
  <2>3. <<16, 2>> \in Seq(Octet) /\ Len(<<16, 2>>) = 2
    BY DEF Octet
  <2>4. u \in AnyUuid
    BY <2>2, <2>3 DEF AnyUuid
  <2>5. IsValid(u)
    BY <2>2, <2>3 DEF IsValid
  <2>6. PICK uuids : uuids = <<u>>
    OBVIOUS
  <2>7. uuids \in Seq(AnyUuid) /\ \A x \in Range(uuids) : x = u
    BY <2>4, <2>6 DEF Range
  <2>8. <<"ElemSeq", Each(Uuids(uuids))>> \in Nested3(AsciiChar)
    BY <1>4, <2>5, <2>7
  <2>9. QED
    BY <2>1, <2>6, <2>8 DEF BrowseElement
<1>6. ProfilesElement(args) \in Nested3(AsciiChar)
  <2>1. args.profiles \in Seq(AnyUuid \X Id) /\ \A x \in Range(args.profiles) : IsValid(x[1])
    BY ArgsAre DEF Valid
  <2>2. QED
    BY <2>1, ProfilesAre DEF ProfilesElement
<1>7. ProtocolsElement(args, p) \in Nested3(AsciiChar)
  <2>1. PICK a, b, c : /\ a = <<"UUID", Short(1, 0)>>
                       /\ b = <<"UUID", Short(0, 3)>> /\ c = <<"UInt", <<p>>>>
    OBVIOUS
  <2>2. ASSUME NEW x \in Octet, NEW y \in Octet PROVE <<"UUID", Short(x, y)>> \in Atoms(AsciiChar)
    <3>1. PICK o : o = <<x, y>>
      OBVIOUS
    <3>2. o \in Seq(Octet) /\ Len(o) = 2
      BY <3>1
    <3>3. <<"hex", o>> \in {v \in AnyUuid : Len(v[2]) \in {2, 4, 16}}
      BY <3>2 DEF AnyUuid
    <3>4. Short(x, y) = <<"hex", o>>
      BY <3>1 DEF Short
    <3>5. QED
      BY <3>3, <3>4 DEF Atoms
  <2>3. a \in Atoms(AsciiChar) /\ b \in Atoms(AsciiChar)
    <3>1. 0 \in Octet /\ 1 \in Octet /\ 3 \in Octet
      BY DEF Octet
    <3>2. QED
      BY <2>1, <2>2, <3>1
  <2>4. c \in Atoms(AsciiChar)
    <3>1. PICK o : o = <<p>>
      OBVIOUS
    <3>2. o \in Seq(Octet) /\ Len(o) \in IntSizes
      BY <3>1 DEF Octet, IntSizes
    <3>3. <<"UInt", o>> \in {"UInt", "SInt"} \X {q \in Seq(Octet) : Len(q) \in IntSizes}
      BY <3>2
    <3>4. QED
      BY <2>1, <3>1, <3>3 DEF Atoms
  <2>5. PICK l, m : l = <<a>> /\ m = <<b, c>>
    OBVIOUS
  <2>6. l \in Seq(Atoms(AsciiChar)) /\ m \in Seq(Atoms(AsciiChar))
    BY <2>3, <2>4, <2>5
  <2>7. PICK x, y : x = <<"ElemSeq", l>> /\ y = <<"ElemSeq", m>>
    OBVIOUS
  <2>8. x \in Nested1(AsciiChar) /\ y \in Nested1(AsciiChar)
    <3>1. "ElemSeq" \in Lists
      BY DEF Lists
    <3>2. x \in ListsOf(Atoms(AsciiChar)) /\ y \in ListsOf(Atoms(AsciiChar))
      BY <2>6, <2>7, <3>1 DEF ListsOf
    <3>3. QED
      BY <3>2 DEF Nested1
  <2>9. PICK s, t : s = <<x, y>> /\ t = Each(Uuids(args.protocols))
    OBVIOUS
  <2>10. s \in Seq(Nested1(AsciiChar))
    BY <2>8, <2>9
  <2>11. t \in Seq(Nested1(AsciiChar))
    <3>1. args.protocols \in Seq(AnyUuid) /\ \A u \in Range(args.protocols) : IsValid(u)
      BY ArgsAre DEF Valid
    <3>2. QED
      BY <1>4, <2>9, <3>1
  <2>12. ProtocolsElement(args, p) = <<"ElemSeq", s \o t>>
    BY Zenon, <2>1, <2>5, <2>7, <2>9 DEF ProtocolsElement
  <2>13. s \o t \in Seq(Nested1(AsciiChar))
    BY <2>10, <2>11, ConcatProperties
  <2>14. Nested1(AsciiChar) \subseteq Nested2(AsciiChar)
    <3>1. \A z \in ListsOf(Atoms(AsciiChar)) : z \in ListsOf(Nested1(AsciiChar))
      BY AtomsNested DEF ListsOf
    <3>2. QED
      BY <3>1 DEF Nested1, Nested2
  <2>15. s \o t \in Seq(Nested2(AsciiChar))
    <3>1. PICK q : q = s \o t
      OBVIOUS
    <3>2. q \in Seq(Nested1(AsciiChar))
      BY <2>13, <3>1
    <3>3. q \in Seq(Nested2(AsciiChar))
      BY <2>14, <3>2
    <3>4. QED
      BY <3>1, <3>3
  <2>16. "ElemSeq" \in Lists
    BY DEF Lists
  <2>17. PICK q : q = s \o t
    OBVIOUS
  <2>18. <<"ElemSeq", q>> \in ListsOf(Nested2(AsciiChar))
    BY <2>15, <2>16, <2>17 DEF ListsOf
  <2>19. QED
    BY <2>12, <2>17, <2>18 DEF Nested3
<1>8. QED
  BY <1>1, <1>3, <1>5, <1>6, <1>7

\* The attributes of a service.
LEMMA PairsHave ==
  ASSUME NEW args \in Args, Valid(args), Ascii(args), NEW p \in 1..30
  PROVE  Has(Pairs(args, p),
             ((((((Part(<<0, 3>>, IdElement(args), IsGiven(args.id))
              \cup Part(<<0, 1>>, ClassesElement(args), IsGiven(args.classes)))
              \cup Part(<<0, 4>>, ProtocolsElement(args, p), TRUE))
              \cup Part(<<0, 5>>, BrowseElement, TRUE))
              \cup Part(<<0, 9>>, ProfilesElement(args), IsGiven(args.profiles)))
              \cup Part(<<1, 0>>, <<"String", args.name>>, TRUE))
              \cup Part(<<1, 1>>, <<"String", args.description>>, IsGiven(args.description)))
              \cup Part(<<1, 2>>, <<"String", args.provider>>, IsGiven(args.provider)))
<1> DEFINE s1 == Given(args.id, Attr(<<0, 3>>, "UUID", args.id[1]))
           s2 == Given(args.classes, Attr(<<0, 1>>, "ElemSeq", Uuids(args.classes)))
           l3 == <<<<"ElemSeq", <<<<"UUID", Short(1, 0)>>>>>>,
                   <<"ElemSeq", <<<<"UUID", Short(0, 3)>>, <<"UInt", <<p>>>>>>>>>>
                 \o Each(Uuids(args.protocols))
           s3 == Attr(<<0, 4>>, "ElemSeq", l3)
           s4 == Attr(<<0, 5>>, "ElemSeq", Each(Uuids(<<Short(16, 2)>>)))
           s5 == Given(args.profiles, Attr(<<0, 9>>, "ElemSeq", Profiles(args.profiles)))
           s6 == Attr(<<1, 0>>, "String", args.name)
           s7 == Given(args.description, Attr(<<1, 1>>, "String", args.description))
           s8 == Given(args.provider, Attr(<<1, 2>>, "String", args.provider))
<1>1. /\ <<0, 3>> \in Id /\ <<0, 1>> \in Id /\ <<0, 4>> \in Id /\ <<0, 5>> \in Id
      /\ <<0, 9>> \in Id /\ <<1, 0>> \in Id /\ <<1, 1>> \in Id /\ <<1, 2>> \in Id
  BY DEF Id, Octet
<1>2. Has(s1, Part(<<0, 3>>, IdElement(args), IsGiven(args.id)))
  <2>1. IdElement(args) = <<"UUID", args.id[1]>>
    BY DEF IdElement
  <2>2. IsGiven(args.id) => IdElement(args) \in Nested3(AsciiChar)
    BY ElementsNested DEF IsGiven
  <2>3. QED
    BY Zenon, <1>1, <2>1, <2>2, GivenHas
<1>3. Has(s2, Part(<<0, 1>>, ClassesElement(args), IsGiven(args.classes)))
  <2>1. ClassesElement(args) = <<"ElemSeq", Uuids(args.classes)>>
    BY DEF ClassesElement
  <2>2. ClassesElement(args) \in Nested3(AsciiChar)
    BY ElementsNested
  <2>3. QED
    BY Zenon, <1>1, <2>1, <2>2, GivenHas
<1>4. Has(s3, Part(<<0, 4>>, ProtocolsElement(args, p), TRUE))
  <2>1. ProtocolsElement(args, p) = <<"ElemSeq", l3>>
    BY DEF ProtocolsElement
  <2>2. ProtocolsElement(args, p) \in Nested3(AsciiChar)
    BY ElementsNested
  <2> HIDE DEF l3
  <2>3. QED
    BY Zenon, <1>1, <2>1, <2>2, AttrHas
<1>5. Has(s4, Part(<<0, 5>>, BrowseElement, TRUE))
  <2>1. BrowseElement = <<"ElemSeq", Each(Uuids(<<Short(16, 2)>>))>>
    BY DEF BrowseElement
  <2>2. BrowseElement \in Nested3(AsciiChar)
    BY ElementsNested
  <2>3. QED
    BY Zenon, <1>1, <2>1, <2>2, AttrHas
<1>6. Has(s5, Part(<<0, 9>>, ProfilesElement(args), IsGiven(args.profiles)))
  <2>1. ProfilesElement(args) = <<"ElemSeq", Profiles(args.profiles)>>
    BY DEF ProfilesElement
  <2>2. ProfilesElement(args) \in Nested3(AsciiChar)
    BY ElementsNested
  <2>3. QED
    BY Zenon, <1>1, <2>1, <2>2, GivenHas
<1>7. Has(s6, Part(<<1, 0>>, <<"String", args.name>>, TRUE))
  <2>1. <<"String", args.name>> \in Nested3(AsciiChar)
    BY AsciiStrings, StringIs
  <2>2. QED
    BY Zenon, <1>1, <2>1, AttrHas
<1>8. Has(s7, Part(<<1, 1>>, <<"String", args.description>>, IsGiven(args.description)))
  <2>1. <<"String", args.description>> \in Nested3(AsciiChar)
    BY AsciiStrings, StringIs
  <2>2. QED
    BY Zenon, <1>1, <2>1, GivenHas
<1>9. Has(s8, Part(<<1, 2>>, <<"String", args.provider>>, IsGiven(args.provider)))
  <2>1. <<"String", args.provider>> \in Nested3(AsciiChar)
    BY AsciiStrings, StringIs
  <2>2. QED
    BY Zenon, <1>1, <2>1, GivenHas
<1>10. Pairs(args, p) = ((((((s1 \o s2) \o s3) \o s4) \o s5) \o s6) \o s7) \o s8
  BY Zenon DEF Pairs, Profiles, Profile
<1> DEFINE
  p1 == Part(<<0, 3>>, IdElement(args), IsGiven(args.id))
  p2 == Part(<<0, 1>>, ClassesElement(args), IsGiven(args.classes))
  p3 == Part(<<0, 4>>, ProtocolsElement(args, p), TRUE)
  p4 == Part(<<0, 5>>, BrowseElement, TRUE)
  p5 == Part(<<0, 9>>, ProfilesElement(args), IsGiven(args.profiles))
  p6 == Part(<<1, 0>>, <<"String", args.name>>, TRUE)
  p7 == Part(<<1, 1>>, <<"String", args.description>>, IsGiven(args.description))
  p8 == Part(<<1, 2>>, <<"String", args.provider>>, IsGiven(args.provider))
<1>11. /\ Has(s1, p1) /\ Has(s2, p2) /\ Has(s3, p3) /\ Has(s4, p4)
       /\ Has(s5, p5) /\ Has(s6, p6) /\ Has(s7, p7) /\ Has(s8, p8)
  BY Zenon, <1>2, <1>3, <1>4, <1>5, <1>6, <1>7, <1>8, <1>9
<1> HIDE DEF s1, s2, s3, s4, s5, s6, s7, s8, p1, p2, p3, p4, p5, p6, p7, p8
<1>12. Has((s1 \o s2), (p1 \cup p2))
  BY Zenon, <1>11, HasBoth
<1>13. Has(((s1 \o s2) \o s3), ((p1 \cup p2) \cup p3))
  BY Zenon, <1>11, <1>12, HasBoth
<1>14. Has((((s1 \o s2) \o s3) \o s4), (((p1 \cup p2) \cup p3) \cup p4))
  BY Zenon, <1>11, <1>13, HasBoth
<1>15. Has(((((s1 \o s2) \o s3) \o s4) \o s5), ((((p1 \cup p2) \cup p3) \cup p4) \cup p5))
  BY Zenon, <1>11, <1>14, HasBoth
<1>16. Has((((((s1 \o s2) \o s3) \o s4) \o s5) \o s6), (((((p1 \cup p2) \cup p3) \cup p4) \cup p5) \cup p6))
  BY Zenon, <1>11, <1>15, HasBoth
<1>17. Has(((((((s1 \o s2) \o s3) \o s4) \o s5) \o s6) \o s7), ((((((p1 \cup p2) \cup p3) \cup p4) \cup p5) \cup p6) \cup p7))
  BY Zenon, <1>11, <1>16, HasBoth
<1>18. Has((((((((s1 \o s2) \o s3) \o s4) \o s5) \o s6) \o s7) \o s8), (((((((p1 \cup p2) \cup p3) \cup p4) \cup p5) \cup p6) \cup p7) \cup p8))
  BY Zenon, <1>11, <1>17, HasBoth
<1>19. QED
  BY Zenon, <1>10, <1>18 DEF p1, p2, p3, p4, p5, p6, p7, p8

\* The attributes give an identifier this element, if given, and no other.
Single(l, id, e, given) ==
  /\ \A i \in DOMAIN l : l[i][1] = id => given /\ l[i][2] = e
  /\ given => \E i \in DOMAIN l : l[i][1] = id

\* So do those of a service, which are consistent.
LEMMA PairsAre ==
  ASSUME NEW args \in Args, Valid(args), Ascii(args), NEW p \in 1..30, NEW l, l = Pairs(args, p)
  PROVE  /\ AreOf(l, Nested3(AsciiChar)) /\ Consistent(l)
         /\ Single(l, <<0, 3>>, IdElement(args), IsGiven(args.id))
         /\ Single(l, <<0, 1>>, ClassesElement(args), IsGiven(args.classes))
         /\ Single(l, <<0, 9>>, ProfilesElement(args), IsGiven(args.profiles))
         /\ Single(l, <<1, 0>>, <<"String", args.name>>, TRUE)
         /\ Single(l, <<1, 2>>, <<"String", args.provider>>, IsGiven(args.provider))
<1> DEFINE
  e1 == IdElement(args)
  e2 == ClassesElement(args)
  e3 == ProtocolsElement(args, p)
  e4 == BrowseElement
  e5 == ProfilesElement(args)
  e6 == <<"String", args.name>>
  e7 == <<"String", args.description>>
  e8 == <<"String", args.provider>>
  g1 == IsGiven(args.id)
  g2 == IsGiven(args.classes)
  g5 == IsGiven(args.profiles)
  g7 == IsGiven(args.description)
  g8 == IsGiven(args.provider)
<1>1. g1 \in BOOLEAN /\ g2 \in BOOLEAN /\ g5 \in BOOLEAN /\ g7 \in BOOLEAN /\ g8 \in BOOLEAN
  BY DEF IsGiven
<1> DEFINE Is(x) == \/ g1 /\ x = <<<<0, 3>>, e1>>
                    \/ g2 /\ x = <<<<0, 1>>, e2>>
                    \/ x = <<<<0, 4>>, e3>>
                    \/ x = <<<<0, 5>>, e4>>
                    \/ g5 /\ x = <<<<0, 9>>, e5>>
                    \/ x = <<<<1, 0>>, e6>>
                    \/ g7 /\ x = <<<<1, 1>>, e7>>
                    \/ g8 /\ x = <<<<1, 2>>, e8>>
<1>2. Has(l, ((((((Part(<<0, 3>>, e1, g1)
              \cup Part(<<0, 1>>, e2, g2))
              \cup Part(<<0, 4>>, e3, TRUE))
              \cup Part(<<0, 5>>, e4, TRUE))
              \cup Part(<<0, 9>>, e5, g5))
              \cup Part(<<1, 0>>, e6, TRUE))
              \cup Part(<<1, 1>>, e7, g7))
              \cup Part(<<1, 2>>, e8, g8))
  BY Zenon, PairsHave
<1> HIDE DEF e1, e2, e3, e4, e5, e6, e7, e8, g1, g2, g5, g7, g8
<1>3. \A x : x \in Range(l) <=> Is(x)
  <2>1. \A x : /\ x \in Part(<<0, 3>>, e1, g1) <=> g1 /\ x = <<<<0, 3>>, e1>>
               /\ x \in Part(<<0, 1>>, e2, g2) <=> g2 /\ x = <<<<0, 1>>, e2>>
               /\ x \in Part(<<0, 4>>, e3, TRUE) <=> x = <<<<0, 4>>, e3>>
               /\ x \in Part(<<0, 5>>, e4, TRUE) <=> x = <<<<0, 5>>, e4>>
    BY Zenon, <1>1, PartIs
  <2>2. \A x : /\ x \in Part(<<0, 9>>, e5, g5) <=> g5 /\ x = <<<<0, 9>>, e5>>
               /\ x \in Part(<<1, 0>>, e6, TRUE) <=> x = <<<<1, 0>>, e6>>
               /\ x \in Part(<<1, 1>>, e7, g7) <=> g7 /\ x = <<<<1, 1>>, e7>>
               /\ x \in Part(<<1, 2>>, e8, g8) <=> g8 /\ x = <<<<1, 2>>, e8>>
    BY Zenon, <1>1, PartIs
  <2>3. QED
    BY Zenon, <1>2, <2>1, <2>2 DEF Has
<1>4. AreOf(l, Nested3(AsciiChar))
  BY <1>2 DEF Has, AreOf
<1>5. \A i \in DOMAIN l : Is(l[i])
  BY Zenon, <1>3 DEF Range
<1>6. \A x : Is(x) => \E i \in DOMAIN l : l[i] = x
  BY Zenon, <1>3 DEF Range
<1> DEFINE Cell(x, a, b, e) == x[1] = <<a, b>> /\ x[1][1] = a /\ x[1][2] = b /\ x[2] = e
           Cells(x) == \/ g1 /\ Cell(x, 0, 3, e1)
                       \/ g2 /\ Cell(x, 0, 1, e2)
                       \/ Cell(x, 0, 4, e3)
                       \/ Cell(x, 0, 5, e4)
                       \/ g5 /\ Cell(x, 0, 9, e5)
                       \/ Cell(x, 1, 0, e6)
                       \/ g7 /\ Cell(x, 1, 1, e7)
                       \/ g8 /\ Cell(x, 1, 2, e8)
<1>7. \A a, b, e, x : x = <<<<a, b>>, e>> => Cell(x, a, b, e)
  OBVIOUS
<1>8. \A x : Is(x) => Cells(x)
  <2> HIDE DEF Cell
  <2>1. QED
    BY Zenon, <1>7
<1>9. \A i \in DOMAIN l : Cells(l[i])
  <2> HIDE DEF Is, Cells
  <2>1. QED
    BY <1>5, <1>8
<1>10. Consistent(l)
  <2>1. ASSUME NEW x, NEW y, Cells(x), Cells(y), x[1] = y[1] PROVE x[2] = y[2]
    <3>1. x[1][1] = y[1][1] /\ x[1][2] = y[1][2]
      BY <2>1
    <3>2. QED
      BY <2>1, <3>1
  <2> HIDE DEF Cells
  <2>2. QED
    BY <1>9, <2>1 DEF Consistent
<1>11. \A x : Cells(x) => /\ x[1] = <<0, 3>> => g1 /\ x[2] = e1
                          /\ x[1] = <<0, 1>> => g2 /\ x[2] = e2
                          /\ x[1] = <<0, 9>> => g5 /\ x[2] = e5
                          /\ x[1] = <<1, 0>> => x[2] = e6
                          /\ x[1] = <<1, 2>> => g8 /\ x[2] = e8
  <2>1. ASSUME NEW x, Cells(x)
        PROVE  /\ x[1][1] = 0 /\ x[1][2] = 3 => g1 /\ x[2] = e1
               /\ x[1][1] = 0 /\ x[1][2] = 1 => g2 /\ x[2] = e2
               /\ x[1][1] = 0 /\ x[1][2] = 9 => g5 /\ x[2] = e5
               /\ x[1][1] = 1 /\ x[1][2] = 0 => x[2] = e6
               /\ x[1][1] = 1 /\ x[1][2] = 2 => g8 /\ x[2] = e8
    BY <2>1
  <2>2. \A x : /\ x[1] = <<0, 3>> => x[1][1] = 0 /\ x[1][2] = 3
               /\ x[1] = <<0, 1>> => x[1][1] = 0 /\ x[1][2] = 1
               /\ x[1] = <<0, 9>> => x[1][1] = 0 /\ x[1][2] = 9
               /\ x[1] = <<1, 0>> => x[1][1] = 1 /\ x[1][2] = 0
               /\ x[1] = <<1, 2>> => x[1][1] = 1 /\ x[1][2] = 2
    OBVIOUS
  <2> HIDE DEF Cells
  <2>3. ASSUME NEW x, Cells(x)
        PROVE  /\ x[1] = <<0, 3>> => g1 /\ x[2] = e1
               /\ x[1] = <<0, 1>> => g2 /\ x[2] = e2
               /\ x[1] = <<0, 9>> => g5 /\ x[2] = e5
               /\ x[1] = <<1, 0>> => x[2] = e6
               /\ x[1] = <<1, 2>> => g8 /\ x[2] = e8
    <3>1. /\ x[1][1] = 0 /\ x[1][2] = 3 => g1 /\ x[2] = e1
          /\ x[1][1] = 0 /\ x[1][2] = 1 => g2 /\ x[2] = e2
          /\ x[1][1] = 0 /\ x[1][2] = 9 => g5 /\ x[2] = e5
          /\ x[1][1] = 1 /\ x[1][2] = 0 => x[2] = e6
          /\ x[1][1] = 1 /\ x[1][2] = 2 => g8 /\ x[2] = e8
      BY <2>1, <2>3
    <3>2. QED
      BY <2>2, <3>1
  <2>4. QED
    BY Zenon, <2>3
<1>12. \A i \in DOMAIN l :
          /\ l[i][1] = <<0, 3>> => g1 /\ l[i][2] = e1
          /\ l[i][1] = <<0, 1>> => g2 /\ l[i][2] = e2
          /\ l[i][1] = <<0, 9>> => g5 /\ l[i][2] = e5
          /\ l[i][1] = <<1, 0>> => l[i][2] = e6
          /\ l[i][1] = <<1, 2>> => g8 /\ l[i][2] = e8
  <2> HIDE DEF Cells
  <2>1. QED
    BY Zenon, <1>9, <1>11
<1>13. ASSUME NEW a, NEW b, NEW e, Is(<<<<a, b>>, e>>) PROVE \E i \in DOMAIN l : l[i][1] = <<a, b>>
  <2> HIDE DEF Is
  <2>0. \A x : x = <<<<a, b>>, e>> => x[1] = <<a, b>>
    OBVIOUS
  <2>1. PICK i \in DOMAIN l : l[i] = <<<<a, b>>, e>>
    BY Zenon, <1>6, <1>13
  <2>2. l[i][1] = <<a, b>>
    BY Zenon, <2>0, <2>1
  <2>3. QED
    BY Zenon, <2>2
<1>14. /\ g1 => Is(<<<<0, 3>>, e1>>)
       /\ g2 => Is(<<<<0, 1>>, e2>>)
       /\ g5 => Is(<<<<0, 9>>, e5>>)
       /\ Is(<<<<1, 0>>, e6>>)
       /\ g8 => Is(<<<<1, 2>>, e8>>)
  BY Zenon
<1>15. /\ g1 => \E i \in DOMAIN l : l[i][1] = <<0, 3>>
       /\ g2 => \E i \in DOMAIN l : l[i][1] = <<0, 1>>
       /\ g5 => \E i \in DOMAIN l : l[i][1] = <<0, 9>>
       /\ \E i \in DOMAIN l : l[i][1] = <<1, 0>>
       /\ g8 => \E i \in DOMAIN l : l[i][1] = <<1, 2>>
  <2> HIDE DEF Is
  <2>1. QED
    BY Zenon, <1>13, <1>14
<1> HIDE DEF Is, Cells
<1>16. QED
  BY Zenon, <1>4, <1>10, <1>12, <1>15 DEF Single, e1, e2, e5, e6, e8, g1, g2, g5, g8

\* The record has these attributes; it has one of them, if given.
RecordHas(record, l) ==
  /\ DOMAIN record = {l[i][1] : i \in DOMAIN l}
  /\ \A i \in DOMAIN l : record[l[i][1]] = Meant(l[i][2])
Gets(record, id, e, given) ==
  /\ given => id \in DOMAIN record /\ record[id] = Meant(e)
  /\ ~given => id \notin DOMAIN record

\* A record of the attributes has an attribute that is single.
LEMMA GetIs ==
  ASSUME NEW l, NEW record, RecordHas(record, l),
         NEW id, NEW e, NEW given \in BOOLEAN, Single(l, id, e, given)
  PROVE  Gets(record, id, e, given)
<1>1. ASSUME given PROVE id \in DOMAIN record /\ record[id] = Meant(e)
  <2>1. PICK i \in DOMAIN l : l[i][1] = id
    BY <1>1 DEF Single
  <2>2. l[i][2] = e
    BY <2>1 DEF Single
  <2>3. QED
    BY <2>1, <2>2 DEF RecordHas
<1>2. ASSUME ~given PROVE id \notin DOMAIN record
  BY <1>2 DEF Single, RecordHas
<1>3. QED
  BY <1>1, <1>2 DEF Gets

\* An argument is given, or not.
LEMMA GivenOrNot ==
  ASSUME NEW value
  PROVE  IsGiven(value) \in BOOLEAN
BY DEF IsGiven

\* record.get of such an attribute.
LEMMA GetOne ==
  ASSUME NEW record, NEW id, NEW e, NEW given \in BOOLEAN, Gets(record, id, e, given)
  PROVE  /\ given => \A x : x \in Get(record, id) <=> x = Meant(e)
         /\ ~given => \A x : x \notin Get(record, id)
BY DEF Get, Gets

\* What the record of a service is read as.
LEMMA RecordGets ==
  ASSUME NEW args \in Args, Valid(args), Ascii(args), NEW p \in 1..30,
         NEW data \in MakeRecord(Pairs(args, p))
  PROVE  \E record :
           /\ ParseRecord(data) = {record}
           /\ Gets(record, <<0, 3>>, IdElement(args), IsGiven(args.id))
           /\ Gets(record, <<0, 1>>, ClassesElement(args), IsGiven(args.classes))
           /\ Gets(record, <<0, 9>>, ProfilesElement(args), IsGiven(args.profiles))
           /\ Gets(record, <<1, 0>>, <<"String", args.name>>, TRUE)
           /\ Gets(record, <<1, 2>>, <<"String", args.provider>>, IsGiven(args.provider))
<1>1. PICK l : l = Pairs(args, p)
  OBVIOUS
<1>2. AreOf(l, Nested3(AsciiChar)) /\ Consistent(l)
  BY Zenon, <1>1, PairsAre
<1>3. IsRecord(data, l)
  BY <1>1, <1>2, RecordsAreReadAsMade
<1>4. PICK record : ParseRecord(data) = {record} /\ RecordHas(record, l)
  BY Zenon, <1>3 DEF IsRecord, RecordHas
<1>5. TRUE \in BOOLEAN
  OBVIOUS
<1>6. /\ Single(l, <<0, 3>>, IdElement(args), IsGiven(args.id))
      /\ Single(l, <<0, 1>>, ClassesElement(args), IsGiven(args.classes))
      /\ Single(l, <<0, 9>>, ProfilesElement(args), IsGiven(args.profiles))
      /\ Single(l, <<1, 0>>, <<"String", args.name>>, TRUE)
      /\ Single(l, <<1, 2>>, <<"String", args.provider>>, IsGiven(args.provider))
  BY Zenon, <1>1, PairsAre
<1>7. /\ Gets(record, <<0, 3>>, IdElement(args), IsGiven(args.id))
      /\ Gets(record, <<0, 1>>, ClassesElement(args), IsGiven(args.classes))
      /\ Gets(record, <<0, 9>>, ProfilesElement(args), IsGiven(args.profiles))
      /\ Gets(record, <<1, 0>>, <<"String", args.name>>, TRUE)
      /\ Gets(record, <<1, 2>>, <<"String", args.provider>>, IsGiven(args.provider))
  BY Zenon, <1>4, <1>5, <1>6, GetIs, GivenOrNot
<1>8. QED
  BY Zenon, <1>4, <1>7

\* The fields of a dictionary of find_service.
LEMMA DictionaryIs ==
  ASSUME NEW data, NEW r
  PROVE  LET d == Dictionary(data, r)
         IN  /\ d.raw = data
             /\ d.classes = {Seconds(c) : c \in Get(r, <<0, 1>>)}
             /\ d.profiles = {[i \in DOMAIN p |-> Seconds(p[i][2])] : p \in Get(r, <<0, 9>>)}
             /\ d.provider = Get(r, <<1, 2>>)
             /\ d.id = Get(r, <<0, 3>>)
             /\ d.name = Get(r, <<1, 0>>)
BY DEF Dictionary

\* A dictionary has the record it was made of.
LEMMA RawOf ==
  ASSUME NEW data, NEW d \in Describe(data)
  PROVE  d.raw = data
BY DictionaryIs DEF Describe

\* It tells the service identifier that was given.
LEMMA IdTold ==
  ASSUME NEW args \in Args, NEW record,
         Gets(record, <<0, 3>>, IdElement(args), IsGiven(args.id))
  PROVE  Get(record, <<0, 3>>) = {UuidText(u) : u \in Range(args.id)}
<1>1. PICK ids : ids = args.id
  OBVIOUS
<1>2. ids \in Seq(AnyUuid) /\ Len(ids) < 2
  BY <1>1, ArgsAre
<1>3. CASE ids = <<>>
  <2>1. ~IsGiven(args.id)
    BY <1>1, <1>3 DEF IsGiven
  <2>2. \A x : x \notin Get(record, <<0, 3>>)
    BY Zenon, <2>1, GetOne, GivenOrNot
  <2>3. \A u : u \notin Range(ids)
    BY <1>3 DEF Range
  <2>4. QED
    BY <1>1, <2>2, <2>3
<1>4. CASE ids # <<>>
  <2>1. IsGiven(args.id) = TRUE
    BY <1>1, <1>4 DEF IsGiven
  <2>2. \A x : x \in Get(record, <<0, 3>>) <=> x = Meant(IdElement(args))
    BY Zenon, <2>1, GetOne, GivenOrNot
  <2>3. Meant(IdElement(args)) = UuidText(ids[1])
    <3>1. PICK e : e = IdElement(args)
      OBVIOUS
    <3>2. e[1] = "UUID" /\ e[2] = ids[1] /\ e[1] \notin Lists
      BY <1>1, <3>1 DEF IdElement, Lists
    <3>3. QED
      BY <3>1, <3>2, AtomMeant, MeantAtomIs
  <2>4. \A u : u \in Range(ids) <=> u = ids[1]
    <3>0. Len(ids) # 0 /\ Len(ids) \in Nat /\ DOMAIN ids = 1..Len(ids)
      BY <1>2, <1>4, EmptySeq, LenProperties
    <3>1. Len(ids) = 1 /\ DOMAIN ids = 1..1
      BY <1>2, <3>0
    <3>2. \A i \in DOMAIN ids : i = 1
      BY <3>1
    <3>3. 1 \in DOMAIN ids
      BY <3>1
    <3>4. QED
      BY Zenon, <3>2, <3>3 DEF Range
  <2>5. \A x : x \in Get(record, <<0, 3>>) <=> x \in {UuidText(u) : u \in Range(ids)}
    BY Zenon, <2>2, <2>3, <2>4
  <2>6. Get(record, <<0, 3>>) = {UuidText(u) : u \in Range(ids)}
    BY Zenon, <2>5
  <2>7. QED
    BY Zenon, <1>1, <2>6
<1>5. QED
  BY <1>3, <1>4

\* It tells a string that was given.
LEMMA StringTold ==
  ASSUME NEW s \in Seq(AsciiChar), NEW record, NEW id, NEW given \in BOOLEAN,
         Gets(record, id, <<"String", s>>, given)
  PROVE  /\ given => Get(record, id) = {<<"bytes", Encoded(s)>>}
         /\ ~given => Get(record, id) = {}
<1>1. PICK b : b = <<"bytes", Encoded(s)>>
  OBVIOUS
<1>2. Meant(<<"String", s>>) = b
  BY Zenon, <1>1, StringIs
<1>3. given => \A x : x \in Get(record, id) <=> x = b
  BY Zenon, <1>2, GetOne
<1>4. given => \A x : x \in Get(record, id) <=> x \in {b}
  BY <1>3
<1>5. given => Get(record, id) = {b}
  BY <1>4
<1>6. ~given => Get(record, id) = {}
  BY GetOne
<1>7. QED
  BY Zenon, <1>1, <1>5, <1>6

\* It tells the service classes that were given.
LEMMA ClassesTold ==
  ASSUME NEW args \in Args, Valid(args), NEW record,
         Gets(record, <<0, 1>>, ClassesElement(args), IsGiven(args.classes))
  PROVE  {Seconds(c) : c \in Get(record, <<0, 1>>)}
         = IF args.classes = <<>> THEN {}
           ELSE {[i \in DOMAIN args.classes |-> UuidText(args.classes[i])]}
<1>1. CASE args.classes = <<>>
  <2>1. ~IsGiven(args.classes)
    BY <1>1 DEF IsGiven
  <2>2. \A x : x \notin Get(record, <<0, 1>>)
    BY Zenon, <2>1, GetOne, GivenOrNot
  <2>3. QED
    BY <1>1, <2>2
<1>2. CASE args.classes # <<>>
  <2>1. IsGiven(args.classes) = TRUE
    BY <1>2 DEF IsGiven
  <2>2. \A x : x \in Get(record, <<0, 1>>) <=> x = Meant(ClassesElement(args))
    BY Zenon, <2>1, GetOne, GivenOrNot
  <2>3. PICK f : f = [i \in DOMAIN args.classes |-> UuidText(args.classes[i])]
    OBVIOUS
  <2>4. Seconds(Meant(ClassesElement(args))) = f
    <3>1. args.classes \in Seq(AnyUuid) /\ \A u \in Range(args.classes) : IsValid(u)
      BY ArgsAre DEF Valid
    <3>2. QED
      BY Zenon, <2>3, <3>1, UuidsMeant DEF ClassesElement
  <2>5. \A x : x \in {Seconds(c) : c \in Get(record, <<0, 1>>)} <=> x \in {f}
    BY Zenon, <2>2, <2>4
  <2>6. {Seconds(c) : c \in Get(record, <<0, 1>>)} = {f}
    BY Zenon, <2>5
  <2>7. QED
    BY Zenon, <1>2, <2>3, <2>6
<1>3. QED
  BY Zenon, <1>1, <1>2

\* It tells the profiles that were given.
LEMMA ProfilesTold ==
  ASSUME NEW args \in Args, Valid(args), NEW record,
         Gets(record, <<0, 9>>, ProfilesElement(args), IsGiven(args.profiles))
  PROVE  {[i \in DOMAIN p |-> Seconds(p[i][2])] : p \in Get(record, <<0, 9>>)}
         = IF args.profiles = <<>> THEN {}
           ELSE {[i \in DOMAIN args.profiles |->
                    <<UuidText(args.profiles[i][1]), args.profiles[i][2]>>]}
<1>1. CASE args.profiles = <<>>
  <2>1. ~IsGiven(args.profiles)
    BY <1>1 DEF IsGiven
  <2>2. \A x : x \notin Get(record, <<0, 9>>)
    BY Zenon, <2>1, GetOne, GivenOrNot
  <2>3. QED
    BY <1>1, <2>2
<1>2. CASE args.profiles # <<>>
  <2>1. IsGiven(args.profiles) = TRUE
    BY <1>2 DEF IsGiven
  <2>2. \A x : x \in Get(record, <<0, 9>>) <=> x = Meant(ProfilesElement(args))
    BY Zenon, <2>1, GetOne, GivenOrNot
  <2>3. PICK f : f = [i \in DOMAIN args.profiles |->
                        <<UuidText(args.profiles[i][1]), args.profiles[i][2]>>]
    OBVIOUS
  <2> DEFINE G(p) == [i \in DOMAIN p |-> Seconds(p[i][2])]
  <2>4. G(Meant(ProfilesElement(args))) = f
    <3>1. args.profiles \in Seq(AnyUuid \X Id) /\ \A u \in Range(args.profiles) : IsValid(u[1])
      BY ArgsAre DEF Valid
    <3>2. QED
      BY Zenon, <2>3, <3>1, ProfilesAre DEF ProfilesElement
  <2> HIDE DEF G
  <2>5. \A x : x \in {G(p) : p \in Get(record, <<0, 9>>)} <=> x \in {f}
    BY Zenon, <2>2, <2>4
  <2>6. {G(p) : p \in Get(record, <<0, 9>>)} = {f}
    BY Zenon, <2>5
  <2>7. QED
    BY Zenon, <1>2, <2>3, <2>6 DEF G
<1>3. QED
  BY Zenon, <1>1, <1>2

\* The record of a service, of which strings are ASCII, is read, and tells what
\* the service was advertised with.
LEMMA Understood ==
  ASSUME NEW args \in Args, Valid(args), Ascii(args), NEW p \in 1..30,
         NEW data \in MakeRecord(Pairs(args, p))
  PROVE  Describe(data) # {} /\ \A d \in Describe(data) : Tells(d, args)
<1>1. PICK record :
           /\ ParseRecord(data) = {record}
           /\ Gets(record, <<0, 3>>, IdElement(args), IsGiven(args.id))
           /\ Gets(record, <<0, 1>>, ClassesElement(args), IsGiven(args.classes))
           /\ Gets(record, <<0, 9>>, ProfilesElement(args), IsGiven(args.profiles))
           /\ Gets(record, <<1, 0>>, <<"String", args.name>>, TRUE)
           /\ Gets(record, <<1, 2>>, <<"String", args.provider>>, IsGiven(args.provider))
  BY Zenon, RecordGets
<1>2. record \in ParseRecord(data) /\ \A r \in ParseRecord(data) : r = record
  BY <1>1
<1>3. PICK d : d = Dictionary(data, record)
  OBVIOUS
<1>4. d \in Describe(data) /\ \A x \in Describe(data) : x = d
  BY Zenon, <1>2, <1>3 DEF Describe
<1>5. d.name = {<<"bytes", Encoded(args.name)>>}
  <2>1. Get(record, <<1, 0>>) = {<<"bytes", Encoded(args.name)>>}
    BY Zenon, <1>1, AsciiStrings, StringTold
  <2>2. QED
    BY Zenon, <1>3, <2>1, DictionaryIs
<1>6. d.provider = Text(args.provider)
  <2>1. args.provider \in Seq(AsciiChar)
    BY AsciiStrings
  <2>2. /\ IsGiven(args.provider) => Get(record, <<1, 2>>) = {<<"bytes", Encoded(args.provider)>>}
        /\ ~IsGiven(args.provider) => Get(record, <<1, 2>>) = {}
    BY <1>1, <2>1, StringTold, GivenOrNot
  <2>3. Get(record, <<1, 2>>) = Text(args.provider)
    BY Zenon, <2>2 DEF Text, IsGiven
  <2>4. QED
    BY Zenon, <1>3, <2>3, DictionaryIs
<1>7. d.id = {UuidText(u) : u \in Range(args.id)}
  <2>1. Get(record, <<0, 3>>) = {UuidText(u) : u \in Range(args.id)}
    BY Zenon, <1>1, IdTold
  <2>2. d.id = Get(record, <<0, 3>>)
    BY Zenon, <1>3, DictionaryIs
  <2>3. QED
    BY Zenon, <2>1, <2>2
<1>8. d.classes = IF args.classes = <<>> THEN {}
                  ELSE {[i \in DOMAIN args.classes |-> UuidText(args.classes[i])]}
  <2>1. d.classes = {Seconds(c) : c \in Get(record, <<0, 1>>)}
    BY Zenon, <1>3, DictionaryIs
  <2>2. QED
    BY Zenon, <1>1, <2>1, ClassesTold
<1>9. d.profiles = IF args.profiles = <<>> THEN {}
                   ELSE {[i \in DOMAIN args.profiles |->
                            <<UuidText(args.profiles[i][1]), args.profiles[i][2]>>]}
  <2>1. d.profiles = {[i \in DOMAIN q |-> Seconds(q[i][2])] : q \in Get(record, <<0, 9>>)}
    BY Zenon, <1>3, DictionaryIs
  <2>2. QED
    BY Zenon, <1>1, <2>1, ProfilesTold
<1>10. Tells(d, args)
  BY Zenon, <1>5, <1>6, <1>7, <1>8, <1>9 DEF Tells
<1>11. QED
  BY Zenon, <1>4, <1>10

-----------------------------------------------------------------------------
\* The inductive invariant of handles.  An object with a handle holds the
\* record that is registered with it, no two objects hold one, and each is held,
\* if by one that was collected;
\* one with a record and no handle is one for which registering failed.
FdsTyped == /\ fd \in [Objects -> {0} \cup Fds] /\ fds \in [Fds -> {0} \cup Files]
            /\ port \in [Files -> {0} \cup Ports]

HandlesTyped == /\ issued \in Nat /\ handle \in [Objects -> 0..issued]
                /\ raw = [o \in Objects |-> raw[o]]
                /\ DOMAIN records \subseteq 1..issued /\ DOMAIN told = DOMAIN records

Holding(o) ==
  IF handle[o] = 0 THEN raw[o] # {} => o \in failed
  ELSE handle[o] \in DOMAIN records /\ raw[o] = {records[handle[o]]}

HandlesInv ==
  /\ HandlesTyped
  /\ \A o \in Objects : Holding(o)
  /\ \A o, q \in Objects : handle[o] = handle[q] => o = q \/ handle[o] = 0
  /\ \A h \in DOMAIN records : \E o \in Objects : handle[o] = h

\* It holds at the start.
LEMMA HandlesStart == ServicesAssumption /\ Init => HandlesInv
<1> SUFFICES ASSUME Init PROVE HandlesInv
  OBVIOUS
<1>1. HandlesTyped
  <2>1. \A o \in Objects : handle[o] = 0 /\ raw[o] = {}
    BY DEF Init
  <2>2. raw = [o \in Objects |-> raw[o]]
    BY DEF Init
  <2>3. DOMAIN records = {} /\ DOMAIN told = {} /\ issued = 0
    BY DEF Init
  <2>4. handle = [o \in Objects |-> 0]
    BY DEF Init
  <2>5. QED
    BY <2>2, <2>3, <2>4 DEF HandlesTyped
<1>2. QED
  BY <1>1 DEF Init, HandlesInv, Holding

\* It is kept by what leaves objects and records as they are.
LEMMA HandlesKept ==
  ASSUME HandlesInv, UNCHANGED <<raw, handle, issued, records, told, failed>>
  PROVE  HandlesInv'
BY DEF HandlesInv, HandlesTyped, Holding

\* advertise_service keeps it: an object that may advertise has no handle, and the
\* handle it gets is new.
LEMMA HandlesAdvertised ==
  ASSUME HandlesInv, NEW o \in Objects, NEW args \in Services, Advertise(o, args)
  PROVE  HandlesInv'
<1>1. PICK data : /\ raw' = [raw EXCEPT ![o] = {data}]
                  /\ \/ /\ issued' = issued + 1
                        /\ handle' = [handle EXCEPT ![o] = issued']
                        /\ records' = [h \in DOMAIN records \cup {issued'} |->
                                         IF h = issued' THEN data ELSE records[h]]
                        /\ told' = [h \in DOMAIN records' |->
                                      IF h = issued' THEN args ELSE told[h]]
                        /\ UNCHANGED failed
                     \/ /\ failed' = failed \cup {o}
                        /\ UNCHANGED <<handle, records, issued, told>>
  BY DEF Advertise
<1>2. raw[o] = {}
  BY DEF Advertise, MayAdvertise
<1>3. handle[o] = 0
  BY <1>2 DEF HandlesInv, Holding
<1>4. raw = [q \in Objects |-> raw[q]] /\ handle \in [Objects -> 0..issued] /\ issued \in Nat
  BY DEF HandlesInv, HandlesTyped
<1>5. /\ raw' = [q \in Objects |-> raw'[q]]
      /\ \A q \in Objects : raw'[q] = IF q = o THEN {data} ELSE raw[q]
  BY <1>1, <1>4
<1>6. CASE /\ issued' = issued + 1
           /\ handle' = [handle EXCEPT ![o] = issued']
           /\ records' = [h \in DOMAIN records \cup {issued'} |->
                            IF h = issued' THEN data ELSE records[h]]
           /\ told' = [h \in DOMAIN records' |-> IF h = issued' THEN args ELSE told[h]]
           /\ UNCHANGED failed
  <2> DEFINE n == issued + 1
  <2>1. issued' = n /\ n \in Nat /\ n # 0 /\ 0..issued \subseteq 0..n /\ n \in 0..n /\ n \notin 0..issued
        /\ 1..issued \subseteq 1..n /\ n \in 1..n /\ 0 \in 0..n /\ 1..issued \subseteq 0..issued
    BY <1>4, <1>6
  <2> HIDE DEF n
  <2>2. \A q \in Objects : handle'[q] = IF q = o THEN n ELSE handle[q]
    BY <1>4, <1>6, <2>1
  <2>3. handle' \in [Objects -> 0..n]
    BY <1>4, <1>6, <2>1
  <2>4. /\ DOMAIN records' = DOMAIN records \cup {n}
        /\ records'[n] = data
        /\ \A h \in DOMAIN records : h # n => records'[h] = records[h]
    BY <1>6, <2>1
  <2>5. DOMAIN told' = DOMAIN records'
    BY <1>6
  <2>6. DOMAIN records \subseteq 1..issued
    BY DEF HandlesInv, HandlesTyped
  <2>7. HandlesTyped'
    BY <1>5, <2>1, <2>3, <2>4, <2>5, <2>6 DEF HandlesTyped
  <2>8. \A h \in DOMAIN records : h # n /\ records'[h] = records[h]
    BY <2>1, <2>4, <2>6
  <2>9. ASSUME NEW q \in Objects PROVE Holding(q)'
    <3>1. CASE q = o
      BY <1>5, <2>1, <2>2, <2>4, <3>1 DEF Holding
    <3>2. CASE q # o
      <4>1. handle'[q] = handle[q] /\ raw'[q] = raw[q] /\ failed' = failed
        BY <1>5, <1>6, <2>2, <3>2
      <4>2. Holding(q)
        BY DEF HandlesInv
      <4>3. QED
        BY <2>4, <2>8, <4>1, <4>2 DEF Holding
    <3>3. QED
      BY <3>1, <3>2
  <2>10. ASSUME NEW a \in Objects, NEW b \in Objects, handle'[a] = handle'[b]
         PROVE  a = b \/ handle'[a] = 0
    <3>1. handle[a] # n /\ handle[b] # n
      BY <1>4, <2>1
    <3>2. QED
      BY <2>2, <2>10, <3>1 DEF HandlesInv
  <2>11. ASSUME NEW h \in DOMAIN records' PROVE \E q \in Objects : handle'[q] = h
    <3>1. CASE h = n
      BY <2>2, <3>1
    <3>2. CASE h # n
      <4>1. PICK q \in Objects : handle[q] = h
        BY <2>4, <3>2 DEF HandlesInv
      <4>2. q # o
        <5>1. h # 0
          BY <2>4, <2>6, <3>2, <1>4
        <5>2. QED
          BY <1>3, <4>1, <5>1
      <4>3. QED
        BY <2>2, <4>1, <4>2
    <3>3. QED
      BY <3>1, <3>2
  <2>12. QED
    BY <2>7, <2>9, <2>10, <2>11 DEF HandlesInv
<1>7. CASE failed' = failed \cup {o} /\ UNCHANGED <<handle, records, issued, told>>
  <2>1. HandlesTyped'
    BY <1>5, <1>7 DEF HandlesInv, HandlesTyped
  <2>2. ASSUME NEW q \in Objects PROVE Holding(q)'
    <3>1. Holding(q)
      BY DEF HandlesInv
    <3>2. CASE q = o
      BY <1>3, <1>7, <3>2 DEF Holding
    <3>3. CASE q # o
      BY <1>5, <1>7, <3>1, <3>3 DEF Holding
    <3>4. QED
      BY <3>2, <3>3
  <2>3. QED
    BY <1>7, <2>1, <2>2 DEF HandlesInv
<1>8. QED
  BY <1>1, <1>6, <1>7

\* stop_advertising keeps it: the handle is of no other object.
LEMMA HandlesStopped ==
  ASSUME HandlesInv, NEW o \in Objects, Stop(o)
  PROVE  HandlesInv'
<1>1. /\ raw = [q \in Objects |-> raw[q]] /\ handle \in [Objects -> 0..issued] /\ issued \in Nat
      /\ DOMAIN records \subseteq 1..issued
  BY DEF HandlesInv, HandlesTyped
<1>2. /\ handle[o] # 0 /\ issued' = issued /\ failed' = failed
      /\ records' = [h \in DOMAIN records \ {handle[o]} |-> records[h]]
      /\ told' = [h \in DOMAIN records' |-> told[h]]
      /\ raw' = [raw EXCEPT ![o] = {}] /\ handle' = [handle EXCEPT ![o] = 0]
  BY DEF Stop, system
<1>3. /\ raw' = [q \in Objects |-> raw'[q]]
      /\ \A q \in Objects : raw'[q] = IF q = o THEN {} ELSE raw[q]
  BY <1>1, <1>2
<1>4. /\ handle' \in [Objects -> 0..issued]
      /\ \A q \in Objects : handle'[q] = IF q = o THEN 0 ELSE handle[q]
  <2>1. 0 \in 0..issued
    BY <1>1
  <2>2. QED
    BY <1>1, <1>2, <2>1
<1>5. /\ DOMAIN records' = DOMAIN records \ {handle[o]} /\ DOMAIN told' = DOMAIN records'
      /\ \A h \in DOMAIN records' : records'[h] = records[h]
  BY <1>2
<1>6. HandlesTyped'
  BY <1>1, <1>2, <1>3, <1>4, <1>5 DEF HandlesTyped
<1>7. ASSUME NEW q \in Objects PROVE Holding(q)'
  <2>1. CASE q = o
    BY <1>3, <1>4, <2>1 DEF Holding
  <2>2. CASE q # o
    <3>1. Holding(q) /\ (handle[q] = handle[o] => handle[q] = 0)
      BY <2>2 DEF HandlesInv
    <3>2. handle'[q] = handle[q] /\ raw'[q] = raw[q] /\ failed' = failed
      BY <1>2, <1>3, <1>4, <2>2
    <3>3. QED
      BY <1>2, <1>5, <3>1, <3>2 DEF Holding
  <2>3. QED
    BY <2>1, <2>2
<1>8. ASSUME NEW a \in Objects, NEW b \in Objects, handle'[a] = handle'[b]
      PROVE  a = b \/ handle'[a] = 0
  BY <1>4, <1>8 DEF HandlesInv
<1>9. ASSUME NEW h \in DOMAIN records' PROVE \E q \in Objects : handle'[q] = h
  <2>1. PICK q \in Objects : handle[q] = h
    BY <1>5 DEF HandlesInv
  <2>2. q # o
    BY <1>5, <2>1
  <2>3. QED
    BY <1>4, <2>1, <2>2
<1>10. QED
  BY <1>6, <1>7, <1>8, <1>9 DEF HandlesInv

\* The inductive invariant of handles holds always.
THEOREM HandlesCorrect == Spec => []HandlesInv
<1>1. Init => HandlesInv
  BY HandlesStart, ServicesAssumption
<1>2. HandlesInv /\ [Next]_vars => HandlesInv'
  <2> SUFFICES ASSUME HandlesInv, [Next]_vars PROVE HandlesInv'
    OBVIOUS
  <2>1. ASSUME NEW o \in Objects, NEW d \in Fds, Open(o, d) PROVE HandlesInv'
    BY <2>1, HandlesKept DEF Open
  <2>2. ASSUME NEW o \in Objects, NEW p \in Ports, Bind(o, p) PROVE HandlesInv'
    BY <2>2, HandlesKept DEF Bind
  <2>3. ASSUME NEW o \in Objects, Close(o) PROVE HandlesInv'
    BY <2>3, HandlesKept DEF Close
  <2>4. ASSUME NEW o \in Objects, NEW args \in Services, Advertise(o, args) PROVE HandlesInv'
    BY <2>4, HandlesAdvertised
  <2>5. ASSUME NEW o \in Objects, Stop(o) PROVE HandlesInv'
    BY <2>5, HandlesStopped
  <2>6. ASSUME NEW name, NEW raws, FindService(name, raws) PROVE HandlesInv'
    BY <2>6, HandlesKept DEF FindService, system
  <2>7. CASE UNCHANGED vars
    BY <2>7, HandlesKept DEF vars, system
  <2>8. ASSUME NEW o \in Objects, Collect(o) PROVE HandlesInv'
    BY <2>8, HandlesKept DEF Collect, system
  <2>9. QED
    BY <2>1, <2>2, <2>3, <2>4, <2>5, <2>6, <2>7, <2>8 DEF Next
<1>3. QED
  BY <1>1, <1>2, PTL DEF Spec

\* What is advertised is registered, until it is stopped, and what is registered
\* is of some object, to be stopped unless the object was collected, but where
\* registering failed (advertise_service and stop_advertising, around
\* set_service_raw).
THEOREM AdvertisedServicesAreRegistered == Spec => []AdvertisedIsRegistered
<1>1. HandlesInv => AdvertisedIsRegistered
  BY DEF HandlesInv, Holding, AdvertisedIsRegistered
<1>2. QED
  BY <1>1, HandlesCorrect, PTL

-----------------------------------------------------------------------------
\* The inductive invariant of searches.  A record that is registered was made of
\* the arguments it was advertised with, and of a port; what was found, if
\* anything, is what find_service makes of some records.
Told(h) == /\ told[h] \in Services /\ Valid(told[h])
           /\ \E p \in Ports : records[h] \in MakeRecord(Pairs(told[h], p))

Found(name, raws) == [name |-> name, raws |-> raws, result |-> Search(name, raws)]

ToldInv == /\ FdsTyped /\ DOMAIN told = DOMAIN records
           /\ \A h \in DOMAIN records : Told(h)
           /\ found = Nothing \/ \E name, raws : found = Found(name, raws)

\* It holds at the start.
LEMMA ToldStart == ServicesAssumption /\ Init => ToldInv
<1> SUFFICES ASSUME ServicesAssumption, Init PROVE ToldInv
  OBVIOUS
<1>1. FdsTyped
  BY DEF FdsTyped, Init
<1>2. DOMAIN told = {} /\ DOMAIN records = {} /\ found = Nothing
  BY DEF Init
<1>3. QED
  BY <1>1, <1>2 DEF ToldInv

\* It is kept by what leaves the records as they are.
LEMMA ToldKept ==
  ASSUME ToldInv, FdsTyped', UNCHANGED <<records, told>>,
         found' = Nothing \/ found' = found \/ \E name, raws : found' = Found(name, raws)
  PROVE  ToldInv'
<1>1. \A h \in DOMAIN records' : Told(h)'
  BY DEF ToldInv, Told
<1>2. DOMAIN told' = DOMAIN records'
  BY DEF ToldInv
<1>3. (found = Nothing \/ \E name, raws : found = Found(name, raws))'
  <2>1. found = Nothing \/ \E name, raws : found = Found(name, raws)
    BY DEF ToldInv
  <2>2. QED
    BY Zenon, <2>1 DEF Nothing, Found
<1>4. QED
  BY <1>1, <1>2, <1>3 DEF ToldInv

\* A new object keeps it.
LEMMA ToldOpened ==
  ASSUME ServicesAssumption, ToldInv, NEW o \in Objects, NEW d \in Fds, Open(o, d)
  PROVE  ToldInv'
<1>1. /\ fd \in [Objects -> {0} \cup Fds] /\ fds \in [Fds -> {0} \cup Files]
      /\ port \in [Files -> {0} \cup Ports]
  BY DEF ToldInv, FdsTyped
<1>2. /\ fd' = [fd EXCEPT ![o] = d] /\ found' = Nothing /\ UNCHANGED <<records, told>>
  BY DEF Open
<1>3. \/ \E f \in Files : fds' = [fds EXCEPT ![d] = f] /\ port' = [port EXCEPT ![f] = 0]
      \/ \E p \in Objects : fds' = [fds EXCEPT ![d] = FileOf(p)] /\ UNCHANGED port
  BY DEF Open
<1>4. \A p \in Objects : FileOf(p) \in {0} \cup Files
  <2>1. ASSUME NEW p \in Objects PROVE FileOf(p) \in {0} \cup Files
    <3>1. CASE fd[p] = 0
      BY <3>1 DEF FileOf
    <3>2. CASE fd[p] # 0
      <4>1. fd[p] \in Fds
        BY <1>1, <3>2
      <4>2. QED
        BY <1>1, <3>2, <4>1 DEF FileOf
    <3>3. QED
      BY <3>1, <3>2
  <2>2. QED
    BY <2>1
<1>5. fd' \in [Objects -> {0} \cup Fds]
  BY <1>1, <1>2
<1>6. fds' \in [Fds -> {0} \cup Files] /\ port' \in [Files -> {0} \cup Ports]
  BY <1>1, <1>3, <1>4
<1>7. QED
  BY <1>2, <1>5, <1>6, ToldKept DEF FdsTyped

\* The port of an object is one, if it has any.
LEMMA FileTyped ==
  ASSUME FdsTyped, NEW o \in Objects, FileOf(o) # 0
  PROVE  FileOf(o) \in Files /\ port[FileOf(o)] \in {0} \cup Ports /\ fd[o] \in Fds
<1>1. /\ fd \in [Objects -> {0} \cup Fds] /\ fds \in [Fds -> {0} \cup Files]
      /\ port \in [Files -> {0} \cup Ports]
  BY DEF FdsTyped
<1>2. fd[o] # 0
  BY DEF FileOf
<1>3. fd[o] \in Fds
  BY <1>1, <1>2
<1>4. FileOf(o) = fds[fd[o]]
  BY <1>2 DEF FileOf
<1>5. QED
  BY <1>1, <1>3, <1>4

\* advertise_service keeps it.
LEMMA ToldAdvertised ==
  ASSUME ServicesAssumption, HandlesInv, ToldInv, NEW o \in Objects, NEW args \in Services,
         Advertise(o, args)
  PROVE  ToldInv'
<1>1. FdsTyped'
  BY DEF ToldInv, FdsTyped, Advertise
<1>2. PICK p \in Ports : \E data \in MakeRecord(Pairs(args, p)) :
           /\ \/ /\ issued' = issued + 1
                 /\ records' = [h \in DOMAIN records \cup {issued'} |->
                                  IF h = issued' THEN data ELSE records[h]]
                 /\ told' = [h \in DOMAIN records' |->
                               IF h = issued' THEN args ELSE told[h]]
              \/ UNCHANGED <<records, told>>
  <2>1. FileOf(o) # 0 /\ port[FileOf(o)] # 0
    BY DEF Advertise, MayAdvertise
  <2>2. port[FileOf(o)] \in Ports
    BY <2>1, FileTyped DEF ToldInv
  <2>3. QED
    BY <2>2 DEF Advertise
<1>3. PICK data \in MakeRecord(Pairs(args, p)) :
           \/ /\ issued' = issued + 1
              /\ records' = [h \in DOMAIN records \cup {issued'} |->
                               IF h = issued' THEN data ELSE records[h]]
              /\ told' = [h \in DOMAIN records' |-> IF h = issued' THEN args ELSE told[h]]
           \/ UNCHANGED <<records, told>>
  BY <1>2
<1>4. found' = Nothing /\ Valid(args)
  BY DEF Advertise
<1>5. CASE /\ issued' = issued + 1
           /\ records' = [h \in DOMAIN records \cup {issued'} |->
                            IF h = issued' THEN data ELSE records[h]]
           /\ told' = [h \in DOMAIN records' |-> IF h = issued' THEN args ELSE told[h]]
  <2>1. PICK n : n = issued'
    OBVIOUS
  <2>2. /\ DOMAIN records' = DOMAIN records \cup {n} /\ DOMAIN told' = DOMAIN records'
        /\ records'[n] = data /\ told'[n] = args
        /\ \A h \in DOMAIN records : h # n => records'[h] = records[h] /\ told'[h] = told[h]
    BY <1>5, <2>1
  <2>3. ASSUME NEW h \in DOMAIN records' PROVE Told(h)'
    <3>1. CASE h = n
      <4>1. told'[h] = args /\ records'[h] = data
        BY <2>2, <3>1
      <4>2. QED
        BY Zenon, <1>3, <1>4, <4>1 DEF Told
    <3>2. CASE h # n
      <4>1. Told(h) /\ records'[h] = records[h] /\ told'[h] = told[h]
        BY <2>2, <3>2 DEF ToldInv
      <4>2. QED
        BY Zenon, <4>1 DEF Told
    <3>3. QED
      BY <3>1, <3>2
  <2>4. (found = Nothing)'
    BY <1>4 DEF Nothing
  <2>5. QED
    BY <1>1, <2>2, <2>3, <2>4 DEF ToldInv
<1>6. CASE UNCHANGED <<records, told>>
  BY <1>1, <1>4, <1>6, ToldKept
<1>7. QED
  BY <1>3, <1>5, <1>6

\* stop_advertising keeps it.
LEMMA ToldStopped ==
  ASSUME ToldInv, NEW o \in Objects, Stop(o)
  PROVE  ToldInv'
<1>1. FdsTyped'
  BY DEF ToldInv, FdsTyped, Stop, system
<1>2. /\ records' = [h \in DOMAIN records \ {handle[o]} |-> records[h]]
      /\ told' = [h \in DOMAIN records' |-> told[h]] /\ found' = Nothing
  BY DEF Stop
<1>3. /\ DOMAIN records' \subseteq DOMAIN records /\ DOMAIN told' = DOMAIN records'
      /\ \A h \in DOMAIN records' : records'[h] = records[h] /\ told'[h] = told[h]
  BY <1>2
<1>4. ASSUME NEW h \in DOMAIN records' PROVE Told(h)'
  <2>1. Told(h) /\ records'[h] = records[h] /\ told'[h] = told[h]
    BY <1>3 DEF ToldInv
  <2>2. QED
    BY Zenon, <2>1 DEF Told
<1>5. (found = Nothing)'
  BY <1>2 DEF Nothing
<1>6. QED
  BY <1>1, <1>3, <1>4, <1>5 DEF ToldInv

\* The inductive invariant of searches holds always.
THEOREM ToldCorrect == Spec => []ToldInv
<1>1. Init => ToldInv
  BY ToldStart, ServicesAssumption
<1>2. HandlesInv /\ ToldInv /\ [Next]_vars => ToldInv'
  <2> SUFFICES ASSUME HandlesInv, ToldInv, [Next]_vars PROVE ToldInv'
    OBVIOUS
  <2>0. FdsTyped
    BY DEF ToldInv
  <2>1. ASSUME NEW o \in Objects, NEW d \in Fds, Open(o, d) PROVE ToldInv'
    BY <2>1, ServicesAssumption, ToldOpened
  <2>2. ASSUME NEW o \in Objects, NEW p \in Ports, Bind(o, p) PROVE ToldInv'
    <3>1. FdsTyped'
      BY <2>0, <2>2 DEF Bind, FdsTyped
    <3>2. QED
      BY <2>2, <3>1, ToldKept DEF Bind
  <2>3. ASSUME NEW o \in Objects, Close(o) PROVE ToldInv'
    <3>1. FdsTyped'
      BY <2>0, <2>3 DEF Close, FdsTyped
    <3>2. QED
      BY <2>3, <3>1, ToldKept DEF Close
  <2>4. ASSUME NEW o \in Objects, NEW args \in Services, Advertise(o, args) PROVE ToldInv'
    BY <2>4, ServicesAssumption, ToldAdvertised
  <2>5. ASSUME NEW o \in Objects, Stop(o) PROVE ToldInv'
    BY <2>5, ToldStopped
  <2>6. ASSUME NEW name, NEW raws, FindService(name, raws) PROVE ToldInv'
    <3>1. FdsTyped'
      BY <2>0, <2>6 DEF FindService, system, FdsTyped
    <3>2. found' = Found(name, raws) /\ UNCHANGED <<records, told>>
      BY <2>6 DEF FindService, Found
    <3>3. QED
      BY <3>1, <3>2, ToldKept
  <2>7. CASE UNCHANGED vars
    <3>1. FdsTyped'
      BY <2>0, <2>7 DEF vars, system, FdsTyped
    <3>2. QED
      BY <2>7, <3>1, ToldKept DEF vars
  <2>8. ASSUME NEW o \in Objects, Collect(o) PROVE ToldInv'
    <3>1. FdsTyped'
      BY <2>0, <2>8 DEF Collect, system, FdsTyped
    <3>2. QED
      BY <2>8, <3>1, ToldKept DEF Collect
  <2>9. QED
    BY <2>1, <2>2, <2>3, <2>4, <2>5, <2>6, <2>7, <2>8 DEF Next
<1>3. QED
  BY <1>1, <1>2, HandlesCorrect, PTL DEF Spec

\* It implies that what was advertised is found.
LEMMA ToldIsFound ==
  ASSUME ServicesAssumption, ToldInv
  PROVE  FoundAsAdvertised
<1> SUFFICES ASSUME found # Nothing, found.raws \subseteq Range(records)
             PROVE  /\ found.result = {} =>
                         \E h \in DOMAIN records : records[h] \in found.raws /\ ~Ascii(told[h])
                    /\ \A ds \in found.result : \A d \in ds : \A h \in DOMAIN records :
                         records[h] = d.raw /\ Ascii(told[h]) => Tells(d, told[h])
  <2>1. CASE found = Nothing
    BY <2>1 DEF FoundAsAdvertised, Nothing
  <2>2. CASE found # Nothing
    BY <2>2 DEF FoundAsAdvertised
  <2>3. QED
    BY <2>1, <2>2
<1>1. PICK name, raws : found = Found(name, raws)
  BY DEF ToldInv
<1>2. found.raws = raws /\ found.result = Search(name, raws)
  BY <1>1 DEF Found
<1>3. ASSUME NEW h \in DOMAIN records, Ascii(told[h])
      PROVE  Describe(records[h]) # {} /\ \A d \in Describe(records[h]) : Tells(d, told[h])
  <2>1. told[h] \in Services /\ Valid(told[h])
    BY DEF ToldInv, Told
  <2>2. PICK p \in Ports : records[h] \in MakeRecord(Pairs(told[h], p))
    BY DEF ToldInv, Told
  <2>3. told[h] \in Args /\ p \in 1..30
    BY <2>1 DEF ServicesAssumption
  <2>4. QED
    BY Zenon, <1>3, <2>1, <2>2, <2>3, Understood
<1>4. ASSUME found.result = {}
      PROVE  \E h \in DOMAIN records : records[h] \in found.raws /\ ~Ascii(told[h])
  <2>1. PICK data \in raws : Describe(data) = {}
    BY <1>2, <1>4 DEF Search
  <2>2. PICK h \in DOMAIN records : records[h] = data
    BY <1>2, <2>1 DEF Range
  <2>3. ~Ascii(told[h])
    BY Zenon, <1>3, <2>1, <2>2
  <2>4. QED
    BY <1>2, <2>1, <2>2, <2>3
<1>5. ASSUME NEW ds \in found.result, NEW d \in ds, NEW h \in DOMAIN records,
             records[h] = d.raw, Ascii(told[h])
      PROVE  Tells(d, told[h])
  <2>1. d \in UNION {Describe(data) : data \in raws}
    BY <1>2 DEF Search
  <2>2. PICK data \in raws : d \in Describe(data)
    BY <2>1
  <2>3. d.raw = data
    BY <2>2, RawOf
  <2>4. d \in Describe(records[h])
    BY <1>5, <2>2, <2>3
  <2>5. QED
    BY Zenon, <1>3, <1>5, <2>4
<1>6. QED
  BY <1>4, <1>5

\* A search finds of each service registered here what it was advertised with,
\* and raises only where there is one with a string that is not ASCII: for
\* arguments of any length, and any number of services (advertise_service,
\* find_service, with sdp_make_data_element and sdp_parse_raw_record).
THEOREM ServicesAreFoundAsAdvertised == Spec => []FoundAsAdvertised
<1>1. ToldInv => FoundAsAdvertised
  BY ToldIsFound, ServicesAssumption
<1>2. QED
  BY <1>1, ToldCorrect, PTL

=============================================================================
