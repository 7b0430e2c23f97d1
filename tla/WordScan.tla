------------------------------ MODULE WordScan ------------------------------
(***************************************************************************)
(* hi_diff_memcmp_ptr and hi_diff_memdiff_ptr of src/src/hi_diff.c: where  *)
(* two blocks first differ, and where they are first equal.  Both go over  *)
(* the blocks a word at a time, to the word that holds the answer or near  *)
(* the end, and then a byte at a time.  The second one finds an equal byte *)
(* in a word as a zero byte of the XOR, with the usual bit trick.  A byte   *)
(* here is its bits and a word the bits of its bytes, lowest first: the     *)
(* operators on words are the bitwise ones and a subtraction that borrows.  *)
(***************************************************************************)
EXTENDS Integers, FiniteSets

CONSTANTS BITS,     \* bits of a byte: 8 in the code
          OPSIZ,    \* bytes in a word of hi_diff_memcmp_ptr: 8
          OP4SIZ,   \* bytes in a word of hi_diff_memdiff_ptr: 4
          MaxLen    \* bound: the longest block

ASSUME ScanAssumption ==
  /\ BITS \in Nat \ {0, 1}
  /\ OPSIZ \in Nat \ {0} /\ OP4SIZ \in Nat \ {0}
  /\ MaxLen \in Nat

VARIABLES
  routine,   \* the function called, "memcmp" or "memdiff"
  src, dst,  \* the blocks it is called with
  len,       \* the bytes left
  ptr,       \* srcptr - src, which dstptr - dst is equal to
  pc,        \* "words", "bytes" or "returned"
  result,    \* what it returns
  read       \* auxiliary: one past the last byte read

vars == <<routine, src, dst, len, ptr, pc, result, read>>

Length == Cardinality(DOMAIN src)

\* An unsigned char.
Char == [0 .. BITS - 1 -> {0, 1}]

\* The blocks of one file: the other one may hold anything, and the result only
\* depends on how the bytes compare.
Patterns(n) ==
  {[i \in 0 .. n - 1 |-> IF i % 2 = 0 THEN a ELSE b] : a, b \in Char}

Init ==
  /\ routine \in {"memcmp", "memdiff"}
  /\ \E n \in 1 .. MaxLen :
       /\ len = n
       /\ src \in Patterns(n)
       /\ dst \in [0 .. n - 1 -> Char]
  /\ ptr = 0
  /\ pc = "words"
  /\ result = 0
  /\ read = 0

\* A byte of a block, or of whatever follows it in the file.
At(block, i) ==
  IF i \in DOMAIN block THEN block[i] ELSE [k \in 0 .. BITS - 1 |-> 0]

\* The word of width bytes at p, the first byte in the lowest bits.
Word(block, p, width) ==
  [i \in 0 .. width * BITS - 1 |-> At(block, p + i \div BITS)[i % BITS]]

Width == IF routine = "memcmp" THEN OPSIZ ELSE OP4SIZ

Xor(word1, word2) == [i \in DOMAIN word1 |-> (word1[i] + word2[i]) % 2]

\* Bug: the constant has its one bit in the lowest byte only.
OneLow(i) == IF i = 0 THEN 1 ELSE 0

\* Bit i of 0x01010101.
LowBits(i) == IF i % BITS = 0 THEN 1 ELSE 0

\* Bit i of 0x80808080.
HighBits(i) == IF i % BITS = BITS - 1 THEN 1 ELSE 0

\* The subtraction of 0x01010101 borrows from bit i: a bit below it is too small,
\* and none in between can pay.
Borrow(value, i) ==
  IF \E j \in 0 .. i - 1 :
       /\ value[j] < LowBits(j)
       /\ \A k \in j + 1 .. i - 1 : value[k] <= LowBits(k)
    THEN 1 ELSE 0

\* ((value - 0x01010101) & ~value & 0x80808080) != 0.  The code's constants are
\* longer than the word; the mask takes the rest away.
HasZeroByte(value) ==
  \E i \in DOMAIN value :
    /\ (value[i] + LowBits(i) + Borrow(value, i)) % 2 = 1
    /\ value[i] = 0
    /\ HighBits(i) = 1

WordHit ==
  IF routine = "memcmp" THEN Word(src, ptr, Width) # Word(dst, ptr, Width)
  ELSE \E value \in {Xor(Word(src, ptr, Width), Word(dst, ptr, Width))} :
         HasZeroByte(value)

ByteHit == (At(src, ptr) = At(dst, ptr)) = (routine = "memdiff")

ReadTo(n) == read' = IF n > read THEN n ELSE read

\* Bug: the words go on while any byte is left.
AnyLeft == len > 0

WordLeft == len > Width

NextWord ==
  /\ pc = "words" /\ WordLeft /\ ~WordHit
  /\ ptr' = ptr + Width
  /\ len' = len - Width
  /\ ReadTo(ptr + Width)
  /\ UNCHANGED <<routine, src, dst, pc, result>>

\* The word that holds the answer "will be caught by the next while".
StopWord ==
  /\ pc = "words" /\ WordLeft /\ WordHit
  /\ pc' = "bytes"
  /\ ReadTo(ptr + Width)
  /\ UNCHANGED <<routine, src, dst, len, ptr, result>>

LastWord ==
  /\ pc = "words" /\ ~WordLeft
  /\ pc' = "bytes"
  /\ UNCHANGED <<routine, src, dst, len, ptr, result, read>>

NextByte ==
  /\ pc = "bytes" /\ len # 0 /\ ~ByteHit
  /\ ptr' = ptr + 1
  /\ len' = len - 1
  /\ ReadTo(ptr + 1)
  /\ UNCHANGED <<routine, src, dst, pc, result>>

Found ==
  /\ pc = "bytes" /\ len # 0 /\ ByteHit
  /\ result' = ptr
  /\ pc' = "returned"
  /\ ReadTo(ptr + 1)
  /\ UNCHANGED <<routine, src, dst, len, ptr>>

NotFound ==
  /\ pc = "bytes" /\ len = 0
  /\ result' = -1
  /\ pc' = "returned"
  /\ UNCHANGED <<routine, src, dst, len, ptr, read>>

Returned == pc = "returned" /\ UNCHANGED vars

Next ==
  \/ NextWord \/ StopWord \/ LastWord
  \/ NextByte \/ Found \/ NotFound
  \/ Returned

Spec == Init /\ [][Next]_vars

-----------------------------------------------------------------------------
Hits == {i \in DOMAIN src : (src[i] = dst[i]) = (routine = "memdiff")}

\* What is returned is the first byte that differs, or is equal, and -1 if none
\* does: no word passed over held one, which SimpleDiff!StopsAt relies on.
FirstHitReturned ==
  pc = "returned" =>
    IF Hits = {} THEN result = -1
    ELSE result \in Hits /\ \A i \in Hits : result <= i

\* No word is read beyond the end of the block, where the mapping may end.
ReadsInside == read <= Length
=============================================================================
