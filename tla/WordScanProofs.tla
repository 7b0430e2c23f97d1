--------------------------- MODULE WordScanProofs ---------------------------
(***************************************************************************)
(* What the scans by words rest on, for words and bytes of any width: a    *)
(* word that is passed over holds no hit, so the scan returns what one     *)
(* byte by byte would, and it never reads behind the blocks.               *)
(***************************************************************************)
EXTENDS WordScan, FiniteSetTheorems, TLAPS

\* Bit k of byte q is bit q * BITS + k of the word.
LEMMA BitOfWord ==
  ASSUME NEW width \in Nat, NEW q \in 0 .. width - 1, NEW k \in 0 .. BITS - 1
  PROVE  /\ q * BITS + k \in 0 .. width * BITS - 1
         /\ (q * BITS + k) \div BITS = q
         /\ (q * BITS + k) % BITS = k
<1>1. BITS \in Nat \ {0, 1} /\ q \in Nat /\ k \in Nat /\ k < BITS
  BY ScanAssumption
<1>2. q * BITS \in Nat /\ width * BITS \in Nat
  BY <1>1
<1>3. (q + 1) * BITS <= width * BITS
  BY <1>1
<1>4. (q + 1) * BITS = q * BITS + BITS
  BY <1>1
<1>5. q * BITS + k \in 0 .. width * BITS - 1
  BY <1>1, <1>2, <1>3, <1>4
<1>6. (q * BITS + k) \div BITS = q /\ (q * BITS + k) % BITS = k
  BY <1>1, <1>2
<1> QED
  BY <1>5, <1>6

\* A byte of the word is the byte of the block.
LEMMA ByteOfWord ==
  ASSUME NEW block, NEW p, NEW width \in Nat,
         NEW q \in 0 .. width - 1, NEW k \in 0 .. BITS - 1
  PROVE  Word(block, p, width)[q * BITS + k] = At(block, p + q)[k]
BY BitOfWord DEF Word

\* The bit trick misses no zero byte: subtracting one from it, and perhaps a
\* borrow, borrows up to its highest bit.
LEMMA ZeroByteFound ==
  ASSUME NEW width \in Nat,
         NEW value \in [0 .. width * BITS - 1 -> {0, 1}],
         NEW q \in 0 .. width - 1,
         \A k \in 0 .. BITS - 1 : value[q * BITS + k] = 0
  PROVE  HasZeroByte(value)
<1>1. /\ BITS \in Nat \ {0, 1} /\ 0 \in 0 .. BITS - 1 /\ BITS - 1 \in 0 .. BITS - 1
      /\ q * BITS \in Nat
  BY ScanAssumption
<1> DEFINE high == q * BITS + (BITS - 1)
           low == q * BITS
<1>2. /\ high \in DOMAIN value
      /\ high % BITS = BITS - 1
      /\ value[high] = 0
  BY <1>1, BitOfWord
<1>3. /\ low \in 0 .. high - 1
      /\ low % BITS = 0
      /\ value[low] = 0
  <2>1. low = q * BITS + 0
    BY <1>1
  <2>2. (q * BITS + 0) % BITS = 0 /\ value[q * BITS + 0] = 0
    BY <1>1, BitOfWord
  <2>3. low \in 0 .. high - 1
    BY <1>1
  <2> QED
    BY <2>1, <2>2, <2>3
<1>4. ASSUME NEW k \in low + 1 .. high - 1 PROVE value[k] <= LowBits(k)
  <2>1. k - low \in 0 .. BITS - 1 /\ k = q * BITS + (k - low)
    BY <1>1, <1>4
  <2>2. value[k] = 0
    BY <2>1
  <2> QED
    BY <2>2 DEF LowBits
<1>5. Borrow(value, high) = 1
  <2>1. value[low] < LowBits(low)
    BY <1>3 DEF LowBits
  <2> QED
    BY <1>3, <1>4, <2>1 DEF Borrow
<1>6. LowBits(high) = 0 /\ HighBits(high) = 1
  BY <1>1, <1>2 DEF LowBits, HighBits
<1> QED
  BY <1>2, <1>5, <1>6 DEF HasZeroByte

-----------------------------------------------------------------------------
\* The blocks the routine was called with.
BlocksOK ==
  /\ routine \in {"memcmp", "memdiff"}
  /\ Length \in Nat
  /\ src \in [0 .. Length - 1 -> Char]
  /\ dst \in [0 .. Length - 1 -> Char]

\* The bytes of the blocks are those passed over, none of which is a hit, and
\* those left.
ScanInv ==
  /\ BlocksOK
  /\ ptr \in Nat /\ len \in Nat /\ ptr + len = Length
  /\ read \in Nat /\ read <= Length
  /\ pc \in {"words", "bytes", "returned"}
  /\ \A i \in 0 .. ptr - 1 : i \notin Hits
  /\ FirstHitReturned

LEMMA WidthType == Width \in Nat \ {0}
BY ScanAssumption DEF Width

\* No byte of a word that is passed over is a hit: equal words have equal bytes,
\* and an equal byte makes a zero byte of the XOR.
LEMMA PassedOver ==
  ASSUME ScanInv, WordLeft, ~WordHit,
         NEW i \in ptr .. ptr + Width - 1
  PROVE  i \notin Hits
<1>1. BlocksOK /\ ptr \in Nat /\ len \in Nat /\ ptr + len = Length /\ Width \in Nat
  BY WidthType DEF ScanInv
<1>2. PICK q \in 0 .. Width - 1 : i = ptr + q
  BY <1>1
<1>3. i \in DOMAIN src /\ i \in DOMAIN dst
  BY <1>1, <1>2 DEF WordLeft, BlocksOK
<1>4. At(src, ptr + q) = src[i] /\ At(dst, ptr + q) = dst[i]
  BY <1>2, <1>3 DEF At
<1>5. src[i] \in Char /\ dst[i] \in Char
  BY <1>1, <1>3 DEF BlocksOK
<1>6. CASE routine = "memcmp"
  <2>1. Word(src, ptr, Width) = Word(dst, ptr, Width)
    BY <1>6 DEF WordHit
  <2>2. ASSUME NEW k \in 0 .. BITS - 1 PROVE src[i][k] = dst[i][k]
    <3>1. Word(src, ptr, Width)[q * BITS + k] = src[i][k]
      BY <1>1, <1>4, ByteOfWord
    <3>2. Word(dst, ptr, Width)[q * BITS + k] = dst[i][k]
      BY <1>1, <1>4, ByteOfWord
    <3> QED
      BY <2>1, <3>1, <3>2
  <2>3. src[i] = dst[i]
    <3>1. /\ src[i] = [k \in 0 .. BITS - 1 |-> src[i][k]]
          /\ dst[i] = [k \in 0 .. BITS - 1 |-> dst[i][k]]
      BY <1>5 DEF Char
    <3>2. [k \in 0 .. BITS - 1 |-> src[i][k]] = [k \in 0 .. BITS - 1 |-> dst[i][k]]
      BY <2>2
    <3> QED
      BY <3>1, <3>2, Zenon
  <2> QED
    BY <1>6, <2>3 DEF Hits
<1>7. CASE routine = "memdiff"
  <2> SUFFICES ASSUME src[i] = dst[i] PROVE FALSE
    BY <1>7 DEF Hits
  <2> DEFINE value == Xor(Word(src, ptr, Width), Word(dst, ptr, Width))
  <2>1. value \in [0 .. Width * BITS - 1 -> {0, 1}]
    <3>1. ASSUME NEW block \in [0 .. Length - 1 -> Char],
                 NEW b \in 0 .. Width * BITS - 1
          PROVE  Word(block, ptr, Width)[b] \in {0, 1}
      <4>1. At(block, ptr + b \div BITS) \in Char
        BY DEF At, Char
      <4>2. b % BITS \in 0 .. BITS - 1
        BY <1>1, ScanAssumption
      <4> QED
        BY <4>1, <4>2 DEF Word, Char
    <3>2. DOMAIN Word(src, ptr, Width) = 0 .. Width * BITS - 1
      BY DEF Word
    <3>3. ASSUME NEW a \in {0, 1}, NEW b \in {0, 1} PROVE (a + b) % 2 \in {0, 1}
      OBVIOUS
    <3> QED
      BY <1>1, <3>1, <3>2, <3>3 DEF Xor, BlocksOK
  <2>2. ASSUME NEW k \in 0 .. BITS - 1 PROVE value[q * BITS + k] = 0
    <3>1. q * BITS + k \in 0 .. Width * BITS - 1
      BY <1>1, BitOfWord
    <3>2. /\ Word(src, ptr, Width)[q * BITS + k] = src[i][k]
          /\ Word(dst, ptr, Width)[q * BITS + k] = src[i][k]
      BY <1>1, <1>4, ByteOfWord
    <3>3. src[i][k] \in {0, 1}
      BY <1>5 DEF Char
    <3>4. q * BITS + k \in DOMAIN Word(src, ptr, Width)
      BY <3>1 DEF Word
    <3>5. value[q * BITS + k] = (src[i][k] + src[i][k]) % 2
      BY <3>2, <3>4 DEF Xor
    <3> QED
      BY <3>3, <3>5
  <2>3. HasZeroByte(value)
    BY <1>1, <2>1, <2>2, ZeroByteFound
  <2> QED
    BY <1>7, <2>3 DEF WordHit
<1> QED
  BY <1>1, <1>6, <1>7 DEF BlocksOK

LEMMA ScanInit == Init => ScanInv
<1> SUFFICES ASSUME Init PROVE ScanInv
  OBVIOUS
<1>1. PICK n \in 1 .. MaxLen :
        /\ len = n
        /\ src \in Patterns(n)
        /\ dst \in [0 .. n - 1 -> Char]
  BY DEF Init
<1>2. n \in Nat /\ src \in [0 .. n - 1 -> Char]
  BY <1>1, ScanAssumption DEF Patterns
<1>3. Length = n
  <2>1. DOMAIN src = 0 .. n - 1
    BY <1>2
  <2>2. Cardinality(0 .. n - 1) = n
    BY <1>2, FS_Interval
  <2> QED
    BY <2>1, <2>2 DEF Length
<1> QED
  BY <1>1, <1>2, <1>3 DEF Init, ScanInv, BlocksOK, FirstHitReturned

LEMMA ScanNext == ScanInv /\ [Next]_vars => ScanInv'
<1> SUFFICES ASSUME ScanInv, [Next]_vars PROVE ScanInv'
  OBVIOUS
<1>1. /\ BlocksOK /\ ptr \in Nat /\ len \in Nat /\ ptr + len = Length
      /\ read \in Nat /\ read <= Length /\ Width \in Nat \ {0}
      /\ \A i \in 0 .. ptr - 1 : i \notin Hits
  BY WidthType DEF ScanInv
<1>2. ASSUME UNCHANGED <<routine, src, dst>>
      PROVE  BlocksOK' /\ Length' = Length /\ Hits' = Hits
  BY <1>1, <1>2 DEF BlocksOK, Length, Hits
<1>3. CASE NextWord
  <2>1. /\ ptr' = ptr + Width /\ len' = len - Width /\ pc' = "words" /\ len > Width
        /\ UNCHANGED <<routine, src, dst>>
        /\ WordLeft /\ ~WordHit /\ ReadTo(ptr + Width)
    BY <1>3 DEF NextWord, WordLeft
  <2>2. ASSUME NEW i \in 0 .. ptr + Width - 1 PROVE i \notin Hits
    BY <1>1, <2>1, PassedOver
  <2>3. read' \in Nat /\ read' <= Length
    BY <1>1, <2>1 DEF ReadTo
  <2> QED
    BY <1>1, <1>2, <2>1, <2>2, <2>3 DEF ScanInv, FirstHitReturned
<1>4. CASE StopWord
  <2>1. /\ ptr' = ptr /\ len' = len /\ pc' = "bytes" /\ len > Width
        /\ UNCHANGED <<routine, src, dst>> /\ ReadTo(ptr + Width)
    BY <1>4 DEF StopWord, WordLeft
  <2>2. read' \in Nat /\ read' <= Length
    BY <1>1, <2>1 DEF ReadTo
  <2> QED
    BY <1>1, <1>2, <2>1, <2>2 DEF ScanInv, FirstHitReturned
<1>5. CASE LastWord
  <2>1. /\ UNCHANGED <<routine, src, dst, ptr, len, read>> /\ pc' = "bytes"
    BY <1>5 DEF LastWord
  <2> QED
    BY <1>1, <1>2, <2>1 DEF ScanInv, FirstHitReturned
<1>6. CASE NextByte
  <2>1. /\ ptr' = ptr + 1 /\ len' = len - 1 /\ pc' = "bytes" /\ len # 0
        /\ UNCHANGED <<routine, src, dst>> /\ ~ByteHit /\ ReadTo(ptr + 1)
    BY <1>6 DEF NextByte
  <2>2. ptr \in DOMAIN src /\ ptr \in DOMAIN dst
    BY <1>1, <2>1 DEF BlocksOK
  <2>3. ptr \notin Hits
    BY <2>1, <2>2 DEF ByteHit, Hits, At
  <2>4. ASSUME NEW i \in 0 .. ptr + 1 - 1 PROVE i \notin Hits
    BY <1>1, <2>3
  <2>5. read' \in Nat /\ read' <= Length
    BY <1>1, <2>1 DEF ReadTo
  <2>6. ptr' \in Nat /\ len' \in Nat /\ ptr' + len' = Length
    BY <1>1, <2>1
  <2> QED
    BY <1>2, <2>1, <2>4, <2>5, <2>6 DEF ScanInv, FirstHitReturned
<1>7. CASE Found
  <2>1. /\ UNCHANGED <<routine, src, dst, ptr, len>> /\ pc' = "returned" /\ len # 0
        /\ result' = ptr /\ ByteHit /\ ReadTo(ptr + 1)
    BY <1>7 DEF Found
  <2>2. ptr \in DOMAIN src /\ ptr \in DOMAIN dst
    BY <1>1, <2>1 DEF BlocksOK
  <2>3. ptr \in Hits
    BY <2>1, <2>2 DEF ByteHit, Hits, At
  <2>4. ASSUME NEW i \in Hits PROVE ptr <= i
    <3>1. i \in 0 .. Length - 1
      BY <1>1 DEF Hits, BlocksOK
    <3> QED
      BY <1>1, <3>1
  <2>5. read' \in Nat /\ read' <= Length
    BY <1>1, <2>1 DEF ReadTo
  <2>6. FirstHitReturned'
    BY <1>2, <2>1, <2>3, <2>4 DEF FirstHitReturned
  <2> QED
    BY <1>1, <1>2, <2>1, <2>5, <2>6 DEF ScanInv
<1>8. CASE NotFound
  <2>1. /\ UNCHANGED <<routine, src, dst, ptr, len, read>> /\ pc' = "returned"
        /\ len = 0 /\ result' = -1
    BY <1>8 DEF NotFound
  <2>2. Hits = {}
    <3>1. Hits \subseteq 0 .. Length - 1
      BY <1>1 DEF Hits, BlocksOK
    <3> QED
      BY <1>1, <2>1, <3>1
  <2>3. FirstHitReturned'
    BY <1>2, <2>1, <2>2 DEF FirstHitReturned
  <2> QED
    BY <1>1, <1>2, <2>1, <2>3 DEF ScanInv
<1>9. CASE UNCHANGED vars
  <2>1. UNCHANGED <<routine, src, dst, len, ptr, pc, result, read>>
    BY <1>9 DEF vars
  <2> QED
    BY <1>1, <1>2, <2>1 DEF ScanInv, FirstHitReturned
<1> QED
  BY <1>3, <1>4, <1>5, <1>6, <1>7, <1>8, <1>9 DEF Next, Returned

LEMMA SpecScan == Spec => []ScanInv
BY ScanInit, ScanNext, PTL DEF Spec

\* The scans by words, hi_diff_memcmp_ptr and hi_diff_memdiff_ptr, return the
\* first byte that differs, or is equal, and -1 if none does.
THEOREM FirstByteFound == Spec => []FirstHitReturned
<1>1. ScanInv => FirstHitReturned
  BY DEF ScanInv
<1> QED
  BY <1>1, SpecScan, PTL

\* They read no byte behind the blocks.
THEOREM NoReadBehind == Spec => []ReadsInside
<1>1. ScanInv => ReadsInside
  BY DEF ScanInv, ReadsInside
<1> QED
  BY <1>1, SpecScan, PTL
=============================================================================
