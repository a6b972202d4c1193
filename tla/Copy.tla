--------------------------------- MODULE Copy ---------------------------------
(***************************************************************************)
(* What a download promises about the files it makes: a place of a piece   *)
(* that was verified holds the source's byte and is never written again    *)
(* while the session lives, whatever layout the files have and whatever    *)
(* fails.  Where a place is on which disk file, and how its byte gets      *)
(* there, is the business of Transfer and FileStore.                       *)
(***************************************************************************)
CONSTANTS
  Places, Bytes,
  Source,          \* the byte of each place in the files of the server
  Pieces, PieceOf  \* the pieces, and the piece each place belongs to

VARIABLES
  content,         \* the byte of each place on the agent's disk
  verified         \* the pieces the session holds, announces and counts

vars == <<content, verified>>

Right(c) == {i \in Pieces : \A k \in Places : PieceOf[k] = i => c[k] = Source[k]}

Init == content \in [Places -> Bytes] /\ verified = {}

\* bytes arrive, or are damaged, outside of what is verified
Write ==
  /\ content' \in [Places -> Bytes]
  /\ \A k \in Places : PieceOf[k] \in verified => content'[k] = content[k]
  /\ UNCHANGED verified

\* ... and may complete a piece
Verify(i) ==
  /\ content' \in [Places -> Bytes]
  /\ \A k \in Places : PieceOf[k] \in verified => content'[k] = content[k]
  /\ i \in Right(content')
  /\ verified' = verified \cup {i}

\* the session ends, or its process dies
Stop == verified' = {} /\ UNCHANGED content

\* a session finds on disk what was there, in files it may have resized
Resume ==
  /\ verified = {}
  /\ content' \in [Places -> Bytes]
  /\ verified' \in SUBSET Right(content')

Next == Write \/ Stop \/ Resume \/ \E i \in Pieces : Verify(i)

Spec == Init /\ [][Next]_vars

\* What is verified is right.
VerifiedRight == verified \subseteq Right(content)
==============================================================================
