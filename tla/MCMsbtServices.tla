--------------------------- MODULE MCMsbtServices ---------------------------
\* Services of different shape, of which two have a name that is not ASCII, the
\* one so that what is cut off of it reads as an attribute, and
\* one a name long enough for sizes of two octets, one with a UUID that is no
\* hexadecimal number and one with a UUID of no valid length; peers with every
\* type of element.
EXTENDS MsbtServices

Long(i) == <<"hex", [j \in 1..16 |-> i]>>
Plain == [name |-> <<65, 66>>, id |-> <<>>, classes |-> <<>>, profiles |-> <<>>,
          provider |-> <<>>, description |-> <<>>, protocols |-> <<>>]

MCServices ==
  {Plain,
   [Plain EXCEPT !.name = <<65, 233>>],
   [Plain EXCEPT !.name = <<233, 233, 233, 233, 9, 2, 0, 0>>],
   [Plain EXCEPT !.name = [i \in 1..260 |-> 65], !.provider = <<80>>],
   [Plain EXCEPT !.id = <<Long(7)>>, !.classes = <<Short(17, 1), Long(3)>>,
                 !.profiles = <<<<Short(17, 1), <<1, 0>>>>>>, !.provider = <<80>>,
                 !.description = <<68>>, !.protocols = <<Short(0, 8)>>],
   [Plain EXCEPT !.id = <<<<"sloppy", <<1, 2>>>>>>],
   [Plain EXCEPT !.classes = <<<<"hex", <<1, 2, 3>>>>>>]}

Wides == [i \in 1..4 |-> [Zeros(16) EXCEPT ![1] = <<0, 0, 128, 200>>[i], ![16] = (i + 1) % 2]]

\* Objects differ by name only.
Symmetry == Permutations(Objects)

MCNames == {<<65, 66>>}

MCPeers ==
  {<<<<<<0, 1>>, <<"ElemSeq", <<<<"UUID", Short(17, 1)>>, <<"UUID", Long(3)>>>>>>>>,
     <<<<1, 0>>, <<"String", <<233, 65>>>>>>,
     <<<<0, 9>>, <<"ElemSeq", <<<<"ElemSeq", <<<<"UUID", Short(17, 1)>>,
                                             <<"UInt", <<1, 2>>>>>>>>>>>>>>>>,
   <<<<<<2, 0>>, <<"Nil", <<>>>>>>, <<<<2, 1>>, <<"Bool", <<1>>>>>>,
     <<<<2, 2>>, <<"URL", <<47, 66>>>>>>,
     <<<<2, 3>>, <<"AltElemSeq", <<<<"ElemSeq", <<>>>>, <<"Nil", <<>>>>>>>>>>,
     <<<<2, 4>>, <<"UInt", [i \in 1..4 |-> 255]>>>>,
     <<<<2, 5>>, <<"SInt", [i \in 1..8 |-> 128]>>>>,
     <<<<2, 6>>, <<"UInt", [i \in 1..16 |-> 128]>>>>>>,
   [i \in 1..4 |-> <<<<3, i>>, <<"SInt", Wides[i]>>>>]}
=============================================================================
