------------------------------ MODULE MCRlpStream ------------------------------
(* A value of every type; bytes that with a few others make a payload of   *)
(* 55, 56 and more than 255 bytes; nested lists that end together.         *)
EXTENDS RlpStream

Filled(n) == Octets([i \in 1..n |-> 200])
U16 == [t |-> "uint", size |-> 2]

MCValues ==
    {Uint(2, 0), Uint(2, 128), Uint(2, 300), Bool(FALSE),
     Octets(<<0>>), Filled(54), Filled(198),
     Option(U16, <<>>), Option(U16, <<Uint(2, 1)>>),
     Struct(<<Uint(2, 7), Vec(U16, <<Uint(2, 1), Uint(2, 0)>>), HashOf(<<9, 9>>),
              Option(U16, <<>>)>>),
     Wrapper(Uint(2, 300))}
MCRawPairs == {<<Uint(2, 300), Option(U16, <<>>)>>, <<Filled(198), Filled(54)>>}
===============================================================================
