------------------------------ MODULE FileStore ------------------------------
(***************************************************************************)
(* The file store of a session: several files seen as one row of bytes     *)
(* (src/p2p/file.go) on files of the OS (osfile.go), and what pieces and   *)
(* blocks of that row are (piece.go, session.go).  A layout is the         *)
(* sequence of the lengths of the files, a disk the sequence of their      *)
(* contents.  Positions, pieces and blocks count from 0 as in the code,    *)
(* files from 1.                                                           *)
(***************************************************************************)
EXTENDS Integers, SequencesExt

CONSTANTS
  PieceLen,        \* MetaInfo.PieceLen
  BlockLen         \* standardBlockLen

ASSUME LengthsAssumption ==
  BlockLen \in Nat \ {0} /\ PieceLen \in {n * BlockLen : n \in 1 .. PieceLen}

Absent == <<-1>>   \* a file that does not exist

Least(a, b) == IF a < b THEN a ELSE b
Zeros(n) == [k \in 1 .. n |-> 0]

-----------------------------------------------------------------------------
\* NewFileStore: where each file begins, and all of it
Offset(lens, i) ==
  LET sum[j \in Nat] == IF j = 0 THEN 0 ELSE sum[j - 1] + lens[j]
  IN  sum[i - 1]
TotalSize(lens) == Offset(lens, Len(lens) + 1)

\* mutant: a longer file is left as it is
ResizedLonger(file, n) ==
  IF file = Absent THEN Zeros(n)
  ELSE IF Len(file) > n THEN file ELSE file \o Zeros(n - Len(file))

\* ensureExists: the file has the length it should, whatever it was
Resized(file, n) ==
  IF file = Absent     THEN Zeros(n)
  ELSE IF Len(file) > n THEN SubSeq(file, 1, n)
  ELSE file \o Zeros(n - Len(file))

\* fileStore.find, a binary search for the last file that begins at off or
\* before it
Find(lens, off) ==
  LET search[w \in (0 .. Len(lens)) \X (0 .. Len(lens))] ==
        LET low == w[1]
            high == w[2]
            probe == (low + high) \div 2
        IN  IF low >= high - 1 THEN low
            ELSE IF off < Offset(lens, probe + 1) THEN search[<<low, probe>>]
            ELSE search[<<probe, high>>]
  IN  search[<<0, Len(lens)>>] + 1

\* The loop of RawReadAt and RawWriteAt: which bytes of which file are those
\* at off .. off + n - 1.  Files of no bytes are passed over.
Chunks(lens, off, n) ==
  LET loop[w \in (1 .. Len(lens) + 1) \X Nat \X Nat] ==
        LET i == w[1]
            o == w[2]
            p == w[3]
            at == o - Offset(lens, i)
            chunk == Least(p, lens[i] - at)
        IN  IF i > Len(lens) \/ p = 0 THEN <<>>
            ELSE IF at >= lens[i] THEN loop[<<i + 1, o, p>>]
            ELSE <<[file |-> i, at |-> at, from |-> n - p, n |-> chunk]>>
                 \o loop[<<i + 1, o + chunk, p - chunk>>]
  IN  loop[<<Find(lens, off), off, n>>]

\* RawReadAt: the bytes there, and zeros behind the end of the store
Read(disk, lens, off, n) ==
  LET cs == Chunks(lens, off, n)
      read[j \in 0 .. Len(cs)] ==
        IF j = 0 THEN <<>>
        ELSE read[j - 1] \o SubSeq(disk[cs[j].file], cs[j].at + 1, cs[j].at + cs[j].n)
      bytes == read[Len(cs)]
  IN  bytes \o Zeros(n - Len(bytes))

\* WriteAt of an os.File
Patched(file, at, bytes) ==
  [k \in 1 .. Len(file) |->
     IF k - at \in 1 .. Len(bytes) THEN bytes[k - at] ELSE file[k]]

\* RawWriteAt: one chunk after the other; what would be behind the end of the
\* store has no place
PutChunk(bytes, disk, c) ==
  [disk EXCEPT ![c.file] = Patched(@, c.at, SubSeq(bytes, c.from + 1, c.from + c.n))]

Written(disk, lens, bytes, off) ==
  FoldLeft(LAMBDA d, c : PutChunk(bytes, d, c), disk, Chunks(lens, off, Len(bytes)))

\* What reading and writing should come to: place k of the row, counted from
\* 1, is in the file that covers it.
FileOf(lens, k) == CHOOSE i \in DOMAIN lens : k - Offset(lens, i) \in 1 .. lens[i]
ByteAt(disk, lens, k) ==
  LET i == FileOf(lens, k)
      at == k - Offset(lens, i)
  IN  IF at \in DOMAIN disk[i] THEN disk[i][at] ELSE 0

-----------------------------------------------------------------------------
\* countPieces; the last piece is what is left, or a full one
NumPieces(lens) == (TotalSize(lens) + PieceLen - 1) \div PieceLen
LastLength(lens) ==
  IF TotalSize(lens) % PieceLen = 0 THEN PieceLen ELSE TotalSize(lens) % PieceLen

PiecesOf(lens) == 0 .. NumPieces(lens) - 1

pieceLength(lens, p) == IF p < NumPieces(lens) - 1 THEN PieceLen ELSE LastLength(lens)

\* NewActivePiece
NumBlocks(lens, p) == (pieceLength(lens, p) + BlockLen - 1) \div BlockLen

\* mutant: blocks laid one byte too close
BlockAtShort(p, b) == p * PieceLen + b * (BlockLen - 1)

\* requestBlockImp: where a block begins, and its length
BlockAt(p, b) == p * PieceLen + b * BlockLen
BlockLength(lens, p, b) ==
  IF p = NumPieces(lens) - 1 THEN Least(BlockLen, LastLength(lens) - b * BlockLen)
                             ELSE BlockLen

\* mutant: the last piece taken one byte too short
SumShort(disk, lens, p) ==
  Read(disk, lens, p * PieceLen, Least(PieceLen, TotalSize(lens) - p * PieceLen - 1))

\* computePieceSum, and computeSums for each piece: bytes stand for their hash
Sum(disk, lens, p) ==
  Read(disk, lens, p * PieceLen, Least(PieceLen, TotalSize(lens) - p * PieceLen))

\* checkPieces
GoodPieces(disk, lens, sums) == {p \in PiecesOf(lens) : Sum(disk, lens, p) = sums[p]}
==============================================================================
