------------------------------- MODULE Archive -------------------------------
(***************************************************************************)
(* What TarGz puts in an archive and UnTarGz takes out of it               *)
(* (src/common/archive.go).  Every error on the way in is logged and       *)
(* passed over (handleError), so what a file or a directory becomes        *)
(* depends on those packed before it.                                      *)
(*                                                                         *)
(* An item is a file as the packer finds it: its name, the size that Stat  *)
(* gave and the bytes that the copy then read.  A directory is an item of  *)
(* no bytes, packed after what is in it.                                   *)
(***************************************************************************)
EXTENDS Integers, SequencesExt

Item(name, size, data) == [name |-> name, size |-> size, data |-> data]
Entries(names) == [name : names, size : Nat, data : Seq(Int)]

Whole(e) == Len(e.data) = e.size
Cut(data, n) == IF Len(data) > n THEN SubSeq(data, 1, n) ELSE data
Filled(e, data) == [e EXCEPT !.data = Cut(@ \o data, e.size)]

\* mutant: what a file grew by after its Stat goes in as well
AddGrown(entries, it) ==
  IF entries = <<>> \/ Whole(Last(entries)) THEN Append(entries, it)
  ELSE Front(entries) \o <<Filled(Last(entries), it.data)>>

\* tarGzFile: WriteHeader is refused as long as the entry before it wants
\* bytes, and the copy that follows all the same gives it those of this file;
\* bytes beyond the size in the header are refused.
Add(entries, it) ==
  IF entries = <<>> \/ Whole(Last(entries))
  THEN Append(entries, Filled(Item(it.name, it.size, <<>>), it.data))
  ELSE Front(entries) \o <<Filled(Last(entries), it.data)>>

\* tarGzDir, over what it walks through
Pack(items) == FoldLeft(Add, <<>>, items)

\* unTarFile: os.Create empties a file that is there
Unpacked(tree, e) == [tree EXCEPT ![e.name] = e.data]

\* the items before the first that came short
Sound(items) ==
  {i \in DOMAIN items : \A j \in 1 .. i : Len(items[j].data) >= items[j].size}
==============================================================================
