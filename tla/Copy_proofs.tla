------------------------------ MODULE Copy_proofs ------------------------------
(* Theorems about Copy, for any places, bytes and pieces.                    *)
EXTENDS Copy, TLAPS

TypeOK == content \in [Places -> Bytes] /\ verified \in SUBSET Pieces

CopyInv == TypeOK /\ VerifiedRight

\* what is not touched stays right
LEMMA RightKept ==
  ASSUME NEW c, NEW d, NEW held,
         \A k \in Places : PieceOf[k] \in held => d[k] = c[k],
         held \subseteq Right(c)
  PROVE  held \subseteq Right(d)
BY DEF Right

LEMMA CopyStep == CopyInv /\ [Next]_vars => CopyInv'
<1> SUFFICES ASSUME CopyInv, [Next]_vars PROVE CopyInv'
  OBVIOUS
<1> USE DEF CopyInv, TypeOK, VerifiedRight
<1>1. CASE Write
  <2>1. verified \subseteq Right(content')
    BY <1>1, RightKept DEF Write
  <2> QED
    BY <1>1, <2>1 DEF Write, Right
<1>2. CASE Stop
  BY <1>2 DEF Stop, Right
<1>3. CASE Resume
  BY <1>3 DEF Resume, Right
<1>4. ASSUME NEW i \in Pieces, Verify(i) PROVE CopyInv'
  <2>1. verified \subseteq Right(content')
    BY <1>4, RightKept DEF Verify
  <2> QED
    BY <1>4, <2>1 DEF Verify, Right
<1>5. CASE UNCHANGED vars
  BY <1>5 DEF vars, Right
<1> QED
  BY <1>1, <1>2, <1>3, <1>4, <1>5 DEF Next

LEMMA Invariance == Spec => []CopyInv
<1>1. Init => CopyInv
  BY DEF Init, CopyInv, TypeOK, VerifiedRight
<1> QED
  BY <1>1, CopyStep, PTL DEF Spec

\* Whatever is written, lost and found again: what is verified is right.
THEOREM VerifiedRightAlways == Spec => []VerifiedRight
BY Invariance, PTL DEF CopyInv
==============================================================================
