------------------------------ MODULE MCReporter ------------------------------
(* Reporter with two files and the directory they are in: none of them      *)
(* changes while it is packed, the first grows, or it shrinks by no more    *)
(* or by exactly what the second has to give.                              *)
EXTENDS Reporter

CONSTANTS f, g, d

Behind == <<Item(g, 1, <<3>>), Item(d, 0, <<>>)>>
MCPackings ==
  {<<>>} \cup {<<Item(f, 2, data)>> \o Behind : data \in {<<1, 2>>, <<1, 2, 9>>, <<1>>, <<>>}}
MCLeftovers == {<<7, 7, 7>>}
==============================================================================
