-------------------------- MODULE HashTableProofs --------------------------
(***************************************************************************)
(* What hi_hash_generate_thread puts into its table, for every file and    *)
(* block: a window's hash is a hash, and the loop lists every window of    *)
(* the block under its hash, in the order of the file.                     *)
(***************************************************************************)
EXTENDS HashTable, SequenceTheorems, WellFoundedInduction, TLAPS

\* A mapped file has bytes at every offset below its size.
LEMMA MemoryBytes ==
  ASSUME NEW file \in Files
  PROVE  /\ file.size \in Nat \ {0}
         /\ file.memory \in [0 .. file.size - 1 -> Byte]
         /\ \A i \in 0 .. file.size - 1 : file.memory[i] \in Nat
<1>1. PICK n \in 1 .. MaxSize :
        file \in [size : {n}, memory : [0 .. n - 1 -> Byte], beyond : Beyond]
  BY DEF Files
<1>2. /\ n \in Nat \ {0}
      /\ file.size = n
      /\ file.memory \in [0 .. n - 1 -> Byte]
  BY <1>1, FileAssumption
<1> QED
  BY <1>2, FileAssumption

\* The order of the natural numbers as a relation.
Smaller == {p \in Nat \X Nat : p[1] < p[2]}

\* The library's theorem, without the operator it takes as a parameter.
LEMMA SmallerWellFounded == IsWellFoundedOn(Smaller, Nat)
BY NatLessThanWellFounded DEF Smaller, OpToRel

\* A set of natural numbers that is not empty has a least element: what
\* induction is replaced by here.
LEMMA LeastNumber ==
  ASSUME NEW T \in SUBSET Nat, T # {}
  PROVE  \E x \in T : \A y \in T : x <= y
<1>1. PICK x \in T : \A y \in T : ~ (<<y, x>> \in Smaller)
  BY SmallerWellFounded, WFMin
<1>2. ASSUME NEW y \in T PROVE x <= y
  <2>1. ~ (<<y, x>> \in Smaller)
    BY <1>1
  <2>2. <<y, x>> \in Nat \X Nat
    OBVIOUS
  <2> QED
    BY <2>1, <2>2 DEF Smaller
<1> QED
  BY <1>2

-----------------------------------------------------------------------------
\* The hash stays a hash whatever is added to it or taken from it.
LEMMA AddType ==
  ASSUME NEW h \in Nat, NEW byte \in Nat
  PROVE  rabinkarp_add(h, byte) \in Hash
<1>1. h * BASE + byte \in Nat
  BY HashAssumption
<1>2. uint32(h * BASE + byte) \in Nat
  BY <1>1, HashAssumption DEF uint32
<1> QED
  BY <1>2, HashAssumption DEF rabinkarp_add, Hash

\* f gives the hash of the first n bytes at start, for n up to N.
Prefixed(f, file, start, N) ==
  f = [n \in 0 .. N |->
         IF n = 0 THEN 0
         ELSE IF start + n - 1 < file.size
         THEN rabinkarp_add(f[n - 1], file.memory[start + n - 1])
         ELSE f[n - 1]]

\* A hash with a byte of the file added is a hash.
LEMMA PrefixNext ==
  ASSUME NEW file \in Files, NEW i \in Nat, NEW h \in Hash
  PROVE  (IF i < file.size THEN rabinkarp_add(h, file.memory[i]) ELSE h) \in Hash
<1>1. CASE i < file.size
  <2>1. file.memory[i] \in Nat
    BY <1>1, MemoryBytes
  <2>2. h \in Nat
    BY HashAssumption DEF Hash
  <2> QED
    BY <1>1, <2>1, <2>2, AddType
<1>2. CASE ~(i < file.size)
  BY <1>2
<1> QED
  BY <1>1, <1>2

\* The recursive function of WindowHash exists: were there a shortest length
\* without one, the function for the length before it could be extended.
LEMMA PrefixesExist ==
  ASSUME NEW file \in Files, NEW start \in Nat, NEW N \in Nat
  PROVE  \E f \in [0 .. N -> Hash] : Prefixed(f, file, start, N)
<1> DEFINE Has(m) == \E f \in [0 .. m -> Hash] : Prefixed(f, file, start, m)
           T == {m \in Nat : ~Has(m)}
<1>1. Has(0)
  <2> DEFINE f == [n \in 0 .. 0 |-> 0]
  <2>1. 0 \in Hash
    BY HashAssumption DEF Hash
  <2>2. f \in [0 .. 0 -> Hash]
    BY <2>1
  <2>3. Prefixed(f, file, start, 0)
    BY DEF Prefixed
  <2> QED
    BY <2>2, <2>3
<1>2. ASSUME NEW m \in Nat, Has(m) PROVE Has(m + 1)
  <2>1. PICK f \in [0 .. m -> Hash] : Prefixed(f, file, start, m)
    BY <1>2
  <2> DEFINE next == IF start + (m + 1) - 1 < file.size
                     THEN rabinkarp_add(f[m], file.memory[start + (m + 1) - 1])
                     ELSE f[m]
             g == [n \in 0 .. m + 1 |-> IF n = m + 1 THEN next ELSE f[n]]
  <2>2. next \in Hash
    <3>1. start + (m + 1) - 1 \in Nat /\ f[m] \in Hash
      BY <2>1
    <3> QED
      BY <3>1, PrefixNext
  <2> HIDE DEF next
  <2>3. g \in [0 .. m + 1 -> Hash]
    <3>1. ASSUME NEW n \in 0 .. m + 1 PROVE (IF n = m + 1 THEN next ELSE f[n]) \in Hash
      <4>1. n # m + 1 => n \in 0 .. m
        OBVIOUS
      <4> QED
        BY <2>1, <2>2, <4>1
    <3> QED
      BY <3>1
  <2> DEFINE Value(h, n) == IF n = 0 THEN 0
                            ELSE IF start + n - 1 < file.size
                            THEN rabinkarp_add(h[n - 1], file.memory[start + n - 1])
                            ELSE h[n - 1]
  <2>4. ASSUME NEW n \in 0 .. m + 1 PROVE g[n] = Value(g, n)
    <3>1. CASE n = m + 1
      <4>1. n - 1 = m /\ n # 0 /\ g[n - 1] = f[m] /\ g[n] = next
        BY <3>1
      <4> QED
        BY <3>1, <4>1 DEF next
    <3>2. CASE n # m + 1
      <4>1. n \in 0 .. m /\ g[n] = f[n] /\ (n # 0 => n - 1 \in 0 .. m /\ g[n - 1] = f[n - 1])
        BY <3>2
      <4>2. f[n] = Value(f, n)
        BY <2>1, <4>1 DEF Prefixed
      <4> QED
        BY <4>1, <4>2
    <3> QED
      BY <3>1, <3>2
  <2> HIDE DEF g
  <2>5. g = [n \in 0 .. m + 1 |-> Value(g, n)]
    BY <2>3, <2>4
  <2> QED
    BY <2>3, <2>5 DEF Prefixed
<1>3. ASSUME N \in T PROVE FALSE
  <2>1. T \in SUBSET Nat /\ T # {}
    BY <1>3
  <2>2. PICK x \in T : \A y \in T : x <= y
    BY <2>1, LeastNumber
  <2> HIDE DEF Has
  <2>3. x \in Nat /\ x # 0
    BY <1>1, <2>2
  <2>4. x - 1 \in Nat /\ (x - 1) + 1 = x
    BY <2>3
  <2>5. Has(x - 1)
    <3>1. ASSUME x - 1 \in T PROVE FALSE
      <4>1. x <= x - 1
        BY <2>2, <3>1
      <4> QED
        BY <2>3, <4>1
    <3> QED
      BY <2>4, <3>1
  <2>6. Has((x - 1) + 1)
    BY <1>2, <2>4, <2>5
  <2> QED
    BY <2>2, <2>4, <2>6
<1> QED
  BY <1>3

\* Its values are hashes.
LEMMA PrefixesType ==
  ASSUME NEW file \in Files, NEW start \in Nat, NEW N \in Nat, NEW f,
         Prefixed(f, file, start, N)
  PROVE  f \in [0 .. N -> Hash]
<1> DEFINE T == {n \in 0 .. N : f[n] \notin Hash}
<1>1. ASSUME NEW n \in 0 .. N
      PROVE  f[n] = IF n = 0 THEN 0
                    ELSE IF start + n - 1 < file.size
                    THEN rabinkarp_add(f[n - 1], file.memory[start + n - 1])
                    ELSE f[n - 1]
  BY DEF Prefixed
<1>2. ASSUME T # {} PROVE FALSE
  <2>1. T \in SUBSET Nat
    OBVIOUS
  <2>2. PICK x \in T : \A y \in T : x <= y
    BY <1>2, <2>1, LeastNumber
  <2>3. x \in 0 .. N /\ f[x] \notin Hash
    BY <2>2
  <2>4. x # 0
    BY <1>1, <2>3, HashAssumption DEF Hash
  <2>5. x - 1 \in 0 .. N /\ ~(x <= x - 1)
    BY <2>3, <2>4
  <2>6. f[x - 1] \in Hash
    BY <2>2, <2>5
  <2>7. start + x - 1 \in Nat
    BY <2>3, <2>4
  <2>8. f[x] \in Hash
    BY <1>1, <2>3, <2>4, <2>6, <2>7, PrefixNext
  <2> QED
    BY <2>3, <2>8
<1>3. ASSUME NEW n \in 0 .. N PROVE f[n] \in Hash
  BY <1>2
<1>4. f = [n \in 0 .. N |-> f[n]]
  BY DEF Prefixed
<1> QED
  BY <1>3, <1>4

\* The hash of a window is the last of its prefixes.
LEMMA WindowHashIsPrefix ==
  ASSUME NEW file \in Files, NEW start \in Nat
  PROVE  \E f \in [0 .. hashbytes -> Hash] :
           Prefixed(f, file, start, hashbytes) /\ WindowHash(file, start) = f[hashbytes]
<1>1. \E f : Prefixed(f, file, start, hashbytes)
  BY PrefixesExist, HashAssumption
<1> DEFINE p == CHOOSE f : Prefixed(f, file, start, hashbytes)
<1>2. Prefixed(p, file, start, hashbytes)
  BY <1>1
<1>3. WindowHash(file, start) = p[hashbytes]
  BY DEF WindowHash, Prefixed
<1>4. p \in [0 .. hashbytes -> Hash]
  BY <1>2, PrefixesType, HashAssumption
<1> HIDE DEF p
<1> QED
  BY <1>2, <1>3, <1>4

-----------------------------------------------------------------------------
\* The windows of a block are in the order of the file, inside the block.
LEMMA OffsetsAscend ==
  ASSUME NEW job \in Nat \ {0}
  PROVE  /\ blocksize \in Nat \ {0}
         /\ (job - 1) * blocksize \in Nat /\ job * blocksize \in Nat
         /\ JobOffsets(job) \in [1 .. BlockWindows -> Nat]
         /\ \A k \in 1 .. BlockWindows :
              /\ (job - 1) * blocksize <= JobOffsets(job)[k]
              /\ JobOffsets(job)[k] < job * blocksize
         /\ \A k, l \in 1 .. BlockWindows : k < l => JobOffsets(job)[k] < JobOffsets(job)[l]
<1> DEFINE first == (job - 1) * blocksize
<1>1. hashbytes \in Nat \ {0} /\ BlockWindows \in Nat \ {0} /\ job - 1 \in Nat
  BY HashAssumption, TableAssumption
<1>2. blocksize \in Nat \ {0}
  BY <1>1 DEF blocksize
<1>3. first \in Nat /\ job * blocksize \in Nat /\ job * blocksize = first + blocksize
  <2> DEFINE size == blocksize
  <2>1. size \in Nat
    BY <1>2
  <2> HIDE DEF size
  <2>2. (job - 1) * size \in Nat /\ job * size \in Nat /\ job * size = (job - 1) * size + size
    BY <1>1, <2>1
  <2> QED
    BY <2>2 DEF size
<1> HIDE DEF first
<1>4. ASSUME NEW k \in 1 .. BlockWindows
      PROVE  /\ (k - 1) * hashbytes \in Nat
             /\ (k - 1) * hashbytes < blocksize
             /\ JobOffsets(job)[k] = first + (k - 1) * hashbytes
  <2>1. k - 1 \in Nat /\ BlockWindows - 1 \in Nat /\ k - 1 <= BlockWindows - 1
    BY <1>1
  <2>2. (k - 1) * hashbytes \in Nat /\ (k - 1) * hashbytes <= (BlockWindows - 1) * hashbytes
    BY <1>1, <2>1
  <2>3. (BlockWindows - 1) * hashbytes < hashbytes * BlockWindows
    BY <1>1
  <2>4. (BlockWindows - 1) * hashbytes \in Int /\ hashbytes * BlockWindows \in Int
    BY <1>1
  <2>5. (k - 1) * hashbytes < hashbytes * BlockWindows
    BY <2>2, <2>3, <2>4
  <2>6. JobOffsets(job)[k] = first + (k - 1) * hashbytes
    BY DEF JobOffsets, first
  <2> QED
    BY <2>2, <2>5, <2>6 DEF blocksize
<1>5. ASSUME NEW k \in 1 .. BlockWindows
      PROVE  JobOffsets(job)[k] \in Nat /\ first <= JobOffsets(job)[k]
             /\ JobOffsets(job)[k] < job * blocksize
  BY <1>2, <1>3, <1>4
<1>6. JobOffsets(job) \in [1 .. BlockWindows -> Nat]
  <2>1. JobOffsets(job) = [k \in 1 .. BlockWindows |-> JobOffsets(job)[k]]
    BY DEF JobOffsets
  <2> QED
    BY <1>5, <2>1
<1>7. ASSUME NEW k \in 1 .. BlockWindows, NEW l \in 1 .. BlockWindows, k < l
      PROVE  JobOffsets(job)[k] < JobOffsets(job)[l]
  <2>1. (l - 1) * hashbytes >= k * hashbytes /\ k * hashbytes = (k - 1) * hashbytes + hashbytes
    BY <1>1, <1>7
  <2>2. /\ (l - 1) * hashbytes \in Nat /\ (k - 1) * hashbytes \in Nat
        /\ JobOffsets(job)[k] = first + (k - 1) * hashbytes
        /\ JobOffsets(job)[l] = first + (l - 1) * hashbytes
    BY <1>4
  <2>3. (k - 1) * hashbytes < (l - 1) * hashbytes
    BY <1>1, <2>1, <2>2
  <2> QED
    BY <1>3, <2>2, <2>3
<1> QED
  BY <1>2, <1>3, <1>5, <1>6, <1>7 DEF first

\* No two blocks have a window in common.
LEMMA BlocksDisjoint ==
  ASSUME NEW job \in Nat \ {0}, NEW other \in Nat \ {0},
         NEW k \in 1 .. BlockWindows, NEW l \in 1 .. BlockWindows,
         JobOffsets(job)[k] = JobOffsets(other)[l]
  PROVE  job = other
<1>1. ASSUME NEW i \in Nat \ {0}, NEW j \in Nat \ {0}, i < j
      PROVE  i * blocksize <= (j - 1) * blocksize
  <2>1. blocksize \in Nat
    BY OffsetsAscend
  <2>2. i <= j - 1 /\ j - 1 \in Nat
    BY <1>1
  <2> QED
    BY <2>1, <2>2
<1>2. /\ JobOffsets(job)[k] \in Nat /\ JobOffsets(other)[l] \in Nat
      /\ (job - 1) * blocksize <= JobOffsets(job)[k] /\ JobOffsets(job)[k] < job * blocksize
      /\ (other - 1) * blocksize <= JobOffsets(other)[l]
      /\ JobOffsets(other)[l] < other * blocksize
      /\ (job - 1) * blocksize \in Nat /\ job * blocksize \in Nat
      /\ (other - 1) * blocksize \in Nat /\ other * blocksize \in Nat
  BY OffsetsAscend
<1>3. ~(job < other)
  BY <1>1, <1>2
<1>4. ~(other < job)
  BY <1>1, <1>2
<1> QED
  BY <1>3, <1>4

\* x is in s at one place, and at none.
Once(s, x) == \E i \in 1 .. Len(s) : \A l \in 1 .. Len(s) : s[l] = x <=> l = i
Never(s, x) == \A i \in 1 .. Len(s) : s[i] # x

Ascending(s) == \A i, l \in 1 .. Len(s) : i < l => s[i] < s[l]

\* In an ascending array nothing is twice.
LEMMA AscendingOnce ==
  ASSUME NEW s \in Seq(Nat), Ascending(s), NEW i \in 1 .. Len(s)
  PROVE  Once(s, s[i])
<1>1. Len(s) \in Nat /\ \A l \in 1 .. Len(s) : s[l] \in Nat
  BY LenProperties, ElementOfSeq
<1>2. ASSUME NEW l \in 1 .. Len(s), s[l] = s[i] PROVE l = i
  <2>1. ~(l < i) /\ ~(i < l)
    BY <1>1, <1>2 DEF Ascending
  <2> QED
    BY <2>1
<1> QED
  BY <1>2 DEF Once
-----------------------------------------------------------------------------
\* The n-th window goes into the table.
Enters(table, file, job, n) ==
  [table EXCEPT ![WindowHash(file, JobOffsets(job)[n])] = Append(@, JobOffsets(job)[n])]

\* What the table has when the first n windows are in it.
Filed(table, file, job, n) ==
  /\ table \in [Hash -> Seq(Nat)]
  /\ \A h \in Hash :
       /\ Ascending(table[h])
       /\ \A i \in 1 .. Len(table[h]) : \E k \in 1 .. n :
            table[h][i] = JobOffsets(job)[k] /\ WindowHash(file, JobOffsets(job)[k]) = h
  /\ \A k \in 1 .. n : \E i \in 1 .. Len(table[WindowHash(file, JobOffsets(job)[k])]) :
       table[WindowHash(file, JobOffsets(job)[k])][i] = JobOffsets(job)[k]

\* A window's hash is a hash.
LEMMA WindowHashType ==
  ASSUME NEW file \in Files, NEW start \in Nat
  PROVE  WindowHash(file, start) \in Hash
<1>1. PICK f \in [0 .. hashbytes -> Hash] : WindowHash(file, start) = f[hashbytes]
  BY WindowHashIsPrefix
<1> QED
  BY <1>1, HashAssumption

\* One more window goes to the end of its array, past all that are there.
LEMMA EntersFiled ==
  ASSUME NEW file \in Files, NEW job \in Nat \ {0}, NEW n \in 0 .. BlockWindows - 1,
         NEW table, Filed(table, file, job, n)
  PROVE  Filed(Enters(table, file, job, n + 1), file, job, n + 1)
<1> DEFINE start == JobOffsets(job)[n + 1]
           hash == WindowHash(file, start)
           after == Enters(table, file, job, n + 1)
<1>1. n + 1 \in 1 .. BlockWindows /\ n \in Nat /\ BlockWindows \in Nat
  BY TableAssumption
<1>2. start \in Nat /\ hash \in Hash
  BY <1>1, OffsetsAscend, WindowHashType
<1>3. table \in [Hash -> Seq(Nat)]
  BY DEF Filed
<1>4. after = [table EXCEPT ![hash] = Append(table[hash], start)]
  BY DEF Enters
<1>5. table[hash] \in Seq(Nat) /\ Len(table[hash]) \in Nat
  BY <1>2, <1>3, LenProperties
<1> DEFINE len == Len(table[hash])
<1> HIDE DEF after, hash, start
<1>6. /\ Append(table[hash], start) \in Seq(Nat)
      /\ Len(Append(table[hash], start)) = len + 1
      /\ \A i \in 1 .. len : Append(table[hash], start)[i] = table[hash][i]
      /\ Append(table[hash], start)[len + 1] = start
  BY <1>2, <1>5, AppendProperties
<1>7. /\ after \in [Hash -> Seq(Nat)]
      /\ after[hash] = Append(table[hash], start)
      /\ \A h \in Hash : h # hash => after[h] = table[h]
  BY <1>2, <1>3, <1>4, <1>6
<1>8. ASSUME NEW h \in Hash
      PROVE  /\ Ascending(table[h])
             /\ \A i \in 1 .. Len(table[h]) : \E k \in 1 .. n :
                  table[h][i] = JobOffsets(job)[k] /\ WindowHash(file, JobOffsets(job)[k]) = h
  BY DEF Filed
<1>9. \A k \in 1 .. n : JobOffsets(job)[k] < start
  <2> SUFFICES ASSUME NEW k \in 1 .. n PROVE JobOffsets(job)[k] < start
    OBVIOUS
  <2>1. k \in 1 .. BlockWindows /\ k < n + 1
    BY <1>1
  <2> QED
    BY <1>1, <2>1, OffsetsAscend DEF start
<1>10. \A i \in 1 .. len : table[hash][i] < start
  BY <1>2, <1>8, <1>9
<1>11. Ascending(after[hash])
  <2> SUFFICES ASSUME NEW i \in 1 .. len + 1, NEW l \in 1 .. len + 1, i < l
               PROVE  after[hash][i] < after[hash][l]
    BY <1>6, <1>7 DEF Ascending
  <2>1. i \in 1 .. len /\ after[hash][i] = table[hash][i]
    BY <1>5, <1>6, <1>7
  <2>2. CASE l = len + 1
    BY <1>6, <1>7, <1>10, <2>1, <2>2
  <2>3. CASE l # len + 1
    <3>1. l \in 1 .. len
      BY <1>5, <2>3
    <3>2. after[hash][l] = table[hash][l]
      BY <1>6, <1>7, <3>1
    <3>3. table[hash][i] < table[hash][l]
      BY <1>2, <1>8, <2>1, <3>1 DEF Ascending
    <3> QED
      BY <2>1, <3>2, <3>3
  <2> QED
    BY <2>2, <2>3
<1>12. ASSUME NEW i \in 1 .. Len(after[hash])
       PROVE  \E k \in 1 .. n + 1 :
                after[hash][i] = JobOffsets(job)[k] /\ WindowHash(file, JobOffsets(job)[k]) = hash
  <2>1. CASE i = len + 1
    <3>1. n + 1 \in 1 .. n + 1 /\ after[hash][i] = JobOffsets(job)[n + 1]
          /\ WindowHash(file, JobOffsets(job)[n + 1]) = hash
      BY <1>1, <1>6, <1>7, <2>1 DEF start, hash
    <3> QED
      BY <3>1
  <2>2. CASE i # len + 1
    <3>1. i \in 1 .. len
      BY <1>5, <1>6, <1>7, <2>2
    <3>2. after[hash][i] = table[hash][i]
      BY <1>6, <1>7, <3>1
    <3>3. PICK k \in 1 .. n :
            table[hash][i] = JobOffsets(job)[k] /\ WindowHash(file, JobOffsets(job)[k]) = hash
      BY <1>2, <1>8, <3>1
    <3>4. k \in 1 .. n + 1
      BY <1>1
    <3> QED
      BY <3>2, <3>3, <3>4
  <2> QED
    BY <2>1, <2>2
<1>13. ASSUME NEW h \in Hash, h # hash
       PROVE  /\ Ascending(after[h])
              /\ \A i \in 1 .. Len(after[h]) : \E k \in 1 .. n + 1 :
                   after[h][i] = JobOffsets(job)[k] /\ WindowHash(file, JobOffsets(job)[k]) = h
  <2>1. after[h] = table[h]
    BY <1>7, <1>13
  <2>2. \A k \in 1 .. n : k \in 1 .. n + 1
    BY <1>1
  <2> QED
    BY <1>8, <2>1, <2>2
<1>14. ASSUME NEW k \in 1 .. n + 1
       PROVE  \E i \in 1 .. Len(after[WindowHash(file, JobOffsets(job)[k])]) :
                after[WindowHash(file, JobOffsets(job)[k])][i] = JobOffsets(job)[k]
  <2> DEFINE h == WindowHash(file, JobOffsets(job)[k])
  <2>1. CASE k = n + 1
    <3>1. h = hash /\ JobOffsets(job)[k] = start
      BY <2>1 DEF hash, start
    <3>2. len + 1 \in 1 .. Len(after[hash])
      BY <1>5, <1>6, <1>7
    <3> HIDE DEF h
    <3>3. \E i \in 1 .. Len(after[h]) : after[h][i] = JobOffsets(job)[k]
      BY <1>6, <1>7, <3>1, <3>2
    <3> QED
      BY <3>3 DEF h
  <2>2. CASE k # n + 1
    <3>1. k \in 1 .. n /\ k \in 1 .. BlockWindows
      BY <1>1, <2>2
    <3>2. h \in Hash
      BY <3>1, OffsetsAscend, WindowHashType
    <3>3. PICK i \in 1 .. Len(table[h]) : table[h][i] = JobOffsets(job)[k]
      BY <3>1 DEF Filed
    <3> HIDE DEF h
    <3>4. CASE h = hash
      <4>1. i \in 1 .. len /\ table[hash][i] = JobOffsets(job)[k]
        BY <3>3, <3>4
      <4>2. i \in 1 .. Len(after[hash])
        BY <1>5, <1>6, <1>7, <4>1
      <4>3. after[hash][i] = table[hash][i]
        BY <1>6, <1>7, <4>1
      <4>4. \E m \in 1 .. Len(after[h]) : after[h][m] = JobOffsets(job)[k]
        BY <3>4, <4>1, <4>2, <4>3
      <4> QED
        BY <4>4 DEF h
    <3>5. CASE h # hash
      BY <1>7, <3>2, <3>3, <3>5 DEF h
    <3> QED
      BY <3>4, <3>5
  <2> QED
    BY <2>1, <2>2
<1>15. \A h \in Hash :
         /\ Ascending(after[h])
         /\ \A i \in 1 .. Len(after[h]) : \E k \in 1 .. n + 1 :
              after[h][i] = JobOffsets(job)[k] /\ WindowHash(file, JobOffsets(job)[k]) = h
  BY <1>11, <1>12, <1>13
<1>16. Filed(after, file, job, n + 1)
  BY <1>7, <1>14, <1>15 DEF Filed
<1> QED
  BY <1>16 DEF after

\* f gives the table after n windows, for n up to N.
Looped(f, file, job, N) ==
  f = [n \in 0 .. N |-> IF n = 0 THEN EmptyTable
                        ELSE [f[n - 1] EXCEPT
                                ![WindowHash(file, JobOffsets(job)[n])]
                                  = Append(@, JobOffsets(job)[n])]]

\* The recursive function of LocalTable exists.
LEMMA LoopExists ==
  ASSUME NEW file, NEW job, NEW N \in Nat
  PROVE  \E f : Looped(f, file, job, N)
<1> DEFINE Has(m) == \E f : Looped(f, file, job, m)
           T == {m \in Nat : ~Has(m)}
<1>1. Has(0)
  <2> DEFINE f == [n \in 0 .. 0 |-> EmptyTable]
  <2>1. Looped(f, file, job, 0)
    BY DEF Looped
  <2> QED
    BY <2>1
<1>2. ASSUME NEW m \in Nat, Has(m) PROVE Has(m + 1)
  <2>1. PICK f : Looped(f, file, job, m)
    BY <1>2
  <2> DEFINE next == Enters(f[m], file, job, m + 1)
             g == [n \in 0 .. m + 1 |-> IF n = m + 1 THEN next ELSE f[n]]
             Value(t, n) == IF n = 0 THEN EmptyTable ELSE Enters(t[n - 1], file, job, n)
  <2>2. f = [n \in 0 .. m |-> Value(f, n)]
    BY <2>1 DEF Looped, Enters
  <2> HIDE DEF next
  <2>3. ASSUME NEW n \in 0 .. m + 1 PROVE g[n] = Value(g, n)
    <3>1. CASE n = m + 1
      <4>1. n - 1 = m /\ n # 0 /\ g[n - 1] = f[m] /\ g[n] = next
        BY <3>1
      <4> QED
        BY <3>1, <4>1 DEF next
    <3>2. CASE n # m + 1
      <4>1. n \in 0 .. m /\ g[n] = f[n] /\ (n # 0 => n - 1 \in 0 .. m /\ g[n - 1] = f[n - 1])
        BY <3>2
      <4>2. f[n] = Value(f, n)
        BY <2>2, <4>1
      <4> QED
        BY <4>1, <4>2
    <3> QED
      BY <3>1, <3>2
  <2>4. g = [n \in 0 .. m + 1 |-> g[n]]
    OBVIOUS
  <2> HIDE DEF g
  <2>5. g = [n \in 0 .. m + 1 |-> Value(g, n)]
    BY <2>3, <2>4
  <2>6. Looped(g, file, job, m + 1)
    BY <2>5 DEF Looped, Enters
  <2> QED
    BY <2>6
<1>3. ASSUME N \in T PROVE FALSE
  <2>1. T \in SUBSET Nat /\ T # {}
    BY <1>3
  <2>2. PICK x \in T : \A y \in T : x <= y
    BY <2>1, LeastNumber
  <2> HIDE DEF Has
  <2>3. x \in Nat /\ x # 0
    BY <1>1, <2>2
  <2>4. x - 1 \in Nat /\ (x - 1) + 1 = x
    BY <2>3
  <2>5. Has(x - 1)
    <3>1. ASSUME x - 1 \in T PROVE FALSE
      <4>1. x <= x - 1
        BY <2>2, <3>1
      <4> QED
        BY <2>3, <4>1
    <3> QED
      BY <2>4, <3>1
  <2>6. Has((x - 1) + 1)
    BY <1>2, <2>4, <2>5
  <2> QED
    BY <2>2, <2>4, <2>6
<1> QED
  BY <1>3

\* The empty table has nothing.
LEMMA EmptyFiled ==
  ASSUME NEW file, NEW job
  PROVE  Filed(EmptyTable, file, job, 0) /\ \A h \in Hash : EmptyTable[h] = << >>
<1>1. << >> \in Seq(Nat) /\ Len(<< >>) = 0
  BY EmptySeq
<1>2. EmptyTable \in [Hash -> Seq(Nat)] /\ \A h \in Hash : EmptyTable[h] = << >>
  BY <1>1 DEF EmptyTable
<1> QED
  BY <1>1, <1>2 DEF Filed, Ascending

\* The table of a job has all windows of its block, each under its hash and
\* nothing else, in ascending order.
LEMMA LocalTableFiled ==
  ASSUME NEW file \in Files, NEW job \in Nat \ {0}
  PROVE  Filed(LocalTable(file, job), file, job, BlockWindows)
<1>1. BlockWindows \in Nat
  BY TableAssumption
<1> DEFINE f == CHOOSE t : Looped(t, file, job, BlockWindows)
<1>2. Looped(f, file, job, BlockWindows)
  BY <1>1, LoopExists
<1>3. LocalTable(file, job) = f[BlockWindows]
  BY DEF LocalTable, Looped
<1> HIDE DEF f
<1>4. ASSUME NEW n \in 0 .. BlockWindows
      PROVE  f[n] = IF n = 0 THEN EmptyTable ELSE Enters(f[n - 1], file, job, n)
  BY <1>2 DEF Looped, Enters
<1> DEFINE T == {n \in 0 .. BlockWindows : ~Filed(f[n], file, job, n)}
<1>5. ASSUME T # {} PROVE FALSE
  <2>1. T \in SUBSET Nat
    OBVIOUS
  <2>2. PICK x \in T : \A y \in T : x <= y
    BY <1>5, <2>1, LeastNumber
  <2>3. x \in 0 .. BlockWindows /\ ~Filed(f[x], file, job, x)
    BY <2>2
  <2>4. x # 0
    <3>1. ASSUME x = 0 PROVE FALSE
      <4>1. f[0] = EmptyTable
        BY <1>1, <1>4
      <4> QED
        BY <2>3, <3>1, <4>1, EmptyFiled
    <3> QED
      BY <3>1
  <2>5. x - 1 \in 0 .. BlockWindows /\ ~(x <= x - 1) /\ x - 1 \in 0 .. BlockWindows - 1
        /\ (x - 1) + 1 = x
    BY <1>1, <2>3, <2>4
  <2>6. Filed(f[x - 1], file, job, x - 1)
    BY <2>2, <2>5
  <2>7. Filed(Enters(f[x - 1], file, job, (x - 1) + 1), file, job, (x - 1) + 1)
    BY <2>5, <2>6, EntersFiled
  <2>8. f[x] = Enters(f[x - 1], file, job, x)
    BY <1>4, <2>3, <2>4
  <2> QED
    BY <2>3, <2>5, <2>7, <2>8
<1>6. BlockWindows \in 0 .. BlockWindows
  BY <1>1
<1> QED
  BY <1>3, <1>5, <1>6

\* The arrays of a job: a window of the block is in the array of its hash
\* once, and a window of another block is in none.
LEMMA LocalArrays ==
  ASSUME NEW file \in Files, NEW job \in Nat \ {0}, NEW h \in Hash
  PROVE  /\ LocalTable(file, job) \in [Hash -> Seq(Nat)]
         /\ Ascending(LocalTable(file, job)[h])
         /\ \A k \in 1 .. BlockWindows :
              WindowHash(file, JobOffsets(job)[k]) = h =>
                /\ Once(LocalTable(file, job)[h], JobOffsets(job)[k])
                /\ LocalTable(file, job)[h] # << >>
         /\ \A other \in Nat \ {0} : other # job =>
              \A k \in 1 .. BlockWindows : Never(LocalTable(file, job)[h], JobOffsets(other)[k])
<1> DEFINE s == LocalTable(file, job)[h]
<1>1. Filed(LocalTable(file, job), file, job, BlockWindows)
  BY LocalTableFiled
<1>2. /\ LocalTable(file, job) \in [Hash -> Seq(Nat)] /\ s \in Seq(Nat) /\ Ascending(s)
      /\ \A i \in 1 .. Len(s) : \E k \in 1 .. BlockWindows : s[i] = JobOffsets(job)[k]
  BY <1>1 DEF Filed
<1>3. ASSUME NEW k \in 1 .. BlockWindows, WindowHash(file, JobOffsets(job)[k]) = h
      PROVE  \E i \in 1 .. Len(s) : s[i] = JobOffsets(job)[k]
  BY <1>1, <1>3 DEF Filed
<1> HIDE DEF s
<1>4. ASSUME NEW k \in 1 .. BlockWindows, WindowHash(file, JobOffsets(job)[k]) = h
      PROVE  Once(s, JobOffsets(job)[k]) /\ s # << >>
  <2>1. PICK i \in 1 .. Len(s) : s[i] = JobOffsets(job)[k]
    BY <1>3, <1>4
  <2>2. Once(s, s[i])
    BY <1>2, AscendingOnce
  <2>3. s # << >>
    <3>1. Len(<< >>) = 0
      BY EmptySeq
    <3>2. ~(i \in 1 .. 0)
      OBVIOUS
    <3> QED
      BY <3>1, <3>2
  <2> QED
    BY <2>1, <2>2, <2>3
<1>5. ASSUME NEW other \in Nat \ {0}, other # job, NEW l \in 1 .. BlockWindows
      PROVE  Never(s, JobOffsets(other)[l])
  <2> SUFFICES ASSUME NEW i \in 1 .. Len(s), s[i] = JobOffsets(other)[l] PROVE FALSE
    BY DEF Never
  <2>1. PICK k \in 1 .. BlockWindows : s[i] = JobOffsets(job)[k]
    BY <1>2
  <2> QED
    BY <1>5, <2>1, BlocksDisjoint
<1> QED
  BY <1>2, <1>4, <1>5 DEF s
-----------------------------------------------------------------------------
\* The first element is the least.
FirstLeast(s) == \A i \in 1 .. Len(s) : s[1] <= s[i]

\* What a sequence put behind another one holds.
LEMMA JoinedHolds ==
  ASSUME NEW s \in Seq(Nat), NEW r \in Seq(Nat)
  PROVE  /\ s \o r \in Seq(Nat)
         /\ \A x : Once(s, x) /\ Never(r, x) => Once(s \o r, x)
         /\ \A x : Never(s, x) /\ Once(r, x) => Once(s \o r, x)
         /\ \A x : Never(s, x) /\ Never(r, x) => Never(s \o r, x)
         /\ FirstLeast(s) /\ FirstLeast(r) /\ s # << >> /\ r # << >> /\ s[1] <= r[1]
              => FirstLeast(s \o r)
         /\ ToSet(s \o r) = ToSet(s) \cup ToSet(r)
<1> DEFINE n == Len(s)
           m == Len(r)
           j == s \o r
<1>1. /\ n \in Nat /\ m \in Nat /\ (s # << >> => n # 0) /\ (r # << >> => m # 0)
      /\ \A i \in 1 .. n : s[i] \in Nat
      /\ \A i \in 1 .. m : r[i] \in Nat
      /\ DOMAIN s = 1 .. n /\ DOMAIN r = 1 .. m
  BY LenProperties, ElementOfSeq, EmptySeq
<1>2. /\ j \in Seq(Nat) /\ Len(j) = n + m
      /\ \A i \in 1 .. n + m : j[i] = IF i <= n THEN s[i] ELSE r[i - n]
  BY ConcatProperties
<1>3. DOMAIN j = 1 .. n + m
  BY <1>2, LenProperties
<1> HIDE DEF n, m, j
<1>4. \A i \in 1 .. n : i \in 1 .. n + m /\ j[i] = s[i]
  <2> SUFFICES ASSUME NEW i \in 1 .. n PROVE i \in 1 .. n + m /\ j[i] = s[i]
    OBVIOUS
  <2>1. i \in 1 .. n + m /\ i <= n
    BY <1>1
  <2> QED
    BY <1>2, <2>1
<1>5. \A i \in 1 .. m : n + i \in 1 .. n + m /\ j[n + i] = r[i]
  <2> SUFFICES ASSUME NEW i \in 1 .. m PROVE n + i \in 1 .. n + m /\ j[n + i] = r[i]
    OBVIOUS
  <2>1. n + i \in 1 .. n + m /\ ~(n + i <= n) /\ (n + i) - n = i
    BY <1>1
  <2> QED
    BY <1>2, <2>1
<1>6. \A i \in 1 .. n + m : i \in 1 .. n \/ (i - n \in 1 .. m /\ i = n + (i - n))
  BY <1>1
<1>7. ASSUME NEW x, Once(s, x), Never(r, x) PROVE Once(j, x)
  <2>1. PICK i \in 1 .. n : \A l \in 1 .. n : s[l] = x <=> l = i
    BY <1>7 DEF Once, n
  <2>2. \A l \in 1 .. m : r[l] # x
    BY <1>7 DEF Never, m
  <2>3. \A l \in 1 .. n + m : j[l] = x <=> l = i
    <3> SUFFICES ASSUME NEW l \in 1 .. n + m PROVE j[l] = x <=> l = i
      OBVIOUS
    <3>1. CASE l \in 1 .. n
      BY <1>4, <2>1, <3>1
    <3>2. CASE l - n \in 1 .. m /\ l = n + (l - n)
      <4>1. j[l] # x
        BY <1>5, <2>2, <3>2
      <4>2. l # i
        BY <1>1, <3>2
      <4> QED
        BY <4>1, <4>2
    <3> QED
      BY <1>6, <3>1, <3>2
  <2>4. i \in 1 .. n + m
    BY <1>4
  <2> QED
    BY <1>2, <2>3, <2>4 DEF Once
<1>8. ASSUME NEW x, Never(s, x), Once(r, x) PROVE Once(j, x)
  <2>1. PICK i \in 1 .. m : \A l \in 1 .. m : r[l] = x <=> l = i
    BY <1>8 DEF Once, m
  <2>2. \A l \in 1 .. n : s[l] # x
    BY <1>8 DEF Never, n
  <2>3. \A l \in 1 .. n + m : j[l] = x <=> l = n + i
    <3> SUFFICES ASSUME NEW l \in 1 .. n + m PROVE j[l] = x <=> l = n + i
      OBVIOUS
    <3>1. CASE l \in 1 .. n
      <4>1. j[l] # x
        BY <1>4, <2>2, <3>1
      <4>2. l # n + i
        BY <1>1, <3>1
      <4> QED
        BY <4>1, <4>2
    <3>2. CASE l - n \in 1 .. m /\ l = n + (l - n)
      <4>1. j[l] = r[l - n]
        BY <1>5, <3>2
      <4>2. l - n = i <=> l = n + i
        BY <1>1
      <4> QED
        BY <2>1, <3>2, <4>1, <4>2
    <3> QED
      BY <1>6, <3>1, <3>2
  <2>4. n + i \in 1 .. n + m
    BY <1>5
  <2>5. \E at \in 1 .. n + m : \A l \in 1 .. n + m : j[l] = x <=> l = at
    BY <2>3, <2>4
  <2> QED
    BY <1>2, <2>5 DEF Once
<1>9. ASSUME NEW x, Never(s, x), Never(r, x) PROVE Never(j, x)
  <2>1. /\ \A l \in 1 .. n : j[l] # x
        /\ \A l \in 1 .. m : j[n + l] # x
    BY <1>4, <1>5, <1>9 DEF Never, n, m
  <2>2. \A l \in 1 .. n + m : j[l] # x
    BY <1>6, <2>1
  <2> QED
    BY <1>2, <2>2 DEF Never
<1>10. ASSUME FirstLeast(s), FirstLeast(r), s # << >>, r # << >>, s[1] <= r[1]
       PROVE  FirstLeast(j)
  <2>1. 1 \in 1 .. n /\ 1 \in 1 .. m
    BY <1>1, <1>10
  <2>2. j[1] = s[1] /\ s[1] \in Nat /\ r[1] \in Nat
    BY <1>1, <1>4, <2>1
  <2>3. ASSUME NEW i \in 1 .. n PROVE j[1] <= j[i]
    BY <1>4, <1>10, <2>2 DEF FirstLeast, n
  <2>4. ASSUME NEW i \in 1 .. m PROVE j[1] <= j[n + i]
    <3>1. r[1] <= r[i] /\ r[i] \in Nat
      BY <1>1, <1>10 DEF FirstLeast, m
    <3> QED
      BY <1>5, <1>10, <2>2, <3>1
  <2>5. \A i \in 1 .. n + m : j[1] <= j[i]
    BY <1>6, <2>3, <2>4
  <2> QED
    BY <1>2, <2>5 DEF FirstLeast
<1>11. ToSet(j) = ToSet(s) \cup ToSet(r)
  <2>1. \A x : x \in ToSet(j) <=> \E i \in 1 .. n + m : j[i] = x
    BY <1>3 DEF ToSet
  <2>2. \A x : x \in ToSet(s) <=> \E i \in 1 .. n : s[i] = x
    BY <1>1 DEF ToSet
  <2>3. \A x : x \in ToSet(r) <=> \E i \in 1 .. m : r[i] = x
    BY <1>1 DEF ToSet
  <2>4. ASSUME NEW x, \E i \in 1 .. n + m : j[i] = x
        PROVE  (\E i \in 1 .. n : s[i] = x) \/ (\E i \in 1 .. m : r[i] = x)
    <3>1. PICK i \in 1 .. n + m : j[i] = x
      BY <2>4
    <3> QED
      BY <1>4, <1>5, <1>6, <3>1
  <2>5. ASSUME NEW x, (\E i \in 1 .. n : s[i] = x) \/ (\E i \in 1 .. m : r[i] = x)
        PROVE  \E i \in 1 .. n + m : j[i] = x
    BY <1>4, <1>5, <2>5
  <2> QED
    BY <2>1, <2>2, <2>3, <2>4, <2>5
<1> QED
  BY <1>2, <1>7, <1>8, <1>9, <1>10, <1>11 DEF j

\* merge_hashes loses nothing, lists nothing twice, and the least offset comes
\* first.
LEMMA MergedHolds ==
  ASSUME NEW s \in Seq(Nat), NEW r \in Seq(Nat), r # << >>
  PROVE  /\ merge_hashes(s, r) \in Seq(Nat)
         /\ \A x : Once(s, x) /\ Never(r, x) => Once(merge_hashes(s, r), x)
         /\ \A x : Never(s, x) /\ Once(r, x) => Once(merge_hashes(s, r), x)
         /\ \A x : Never(s, x) /\ Never(r, x) => Never(merge_hashes(s, r), x)
         /\ FirstLeast(s) /\ FirstLeast(r) => FirstLeast(merge_hashes(s, r))
         /\ ToSet(merge_hashes(s, r)) = ToSet(s) \cup ToSet(r)
<1>1. Len(<< >>) = 0 /\ DOMAIN << >> = {} /\ Len(r) \in Nat /\ Len(s) \in Nat
      /\ (s # << >> => Len(s) # 0) /\ Len(r) # 0
  BY EmptySeq, LenProperties
<1>2. /\ s # << >> => s[1] \in Nat
      /\ r[1] \in Nat
  BY <1>1, ElementOfSeq
<1>3. CASE s = << >>
  <2>1. merge_hashes(s, r) = r
    BY <1>3 DEF merge_hashes
  <2>2. ToSet(s) = {}
    BY <1>1, <1>3 DEF ToSet
  <2>3. \A x : ~Once(s, x)
    BY <1>1, <1>3 DEF Once
  <2> QED
    BY <2>1, <2>2, <2>3
<1>4. CASE s # << >> /\ s[1] < r[1]
  <2>1. merge_hashes(s, r) = s \o r
    BY <1>4 DEF merge_hashes
  <2>2. s[1] <= r[1]
    BY <1>2, <1>4
  <2> QED
    BY <1>4, <2>1, <2>2, JoinedHolds
<1>5. CASE s # << >> /\ ~(s[1] < r[1])
  <2>1. merge_hashes(s, r) = r \o s
    BY <1>5 DEF merge_hashes
  <2>2. r[1] <= s[1]
    BY <1>2, <1>5
  <2> QED
    BY <1>5, <2>1, <2>2, JoinedHolds
<1> QED
  BY <1>3, <1>4, <1>5
-----------------------------------------------------------------------------
\* f gives the table after n of the jobs of order have merged, for n up to N.
Folded(f, file, order, N) ==
  f = [n \in 0 .. N |-> IF n = 0 THEN EmptyTable
                        ELSE MergeTable(f[n - 1], LocalTable(file, order[n]))]

\* The recursive function of MergedTable exists.
LEMMA FoldExists ==
  ASSUME NEW file, NEW order, NEW N \in Nat
  PROVE  \E f : Folded(f, file, order, N)
<1> DEFINE Has(m) == \E f : Folded(f, file, order, m)
           T == {m \in Nat : ~Has(m)}
<1>1. Has(0)
  <2> DEFINE f == [n \in 0 .. 0 |-> EmptyTable]
  <2>1. Folded(f, file, order, 0)
    BY DEF Folded
  <2> QED
    BY <2>1
<1>2. ASSUME NEW m \in Nat, Has(m) PROVE Has(m + 1)
  <2>1. PICK f : Folded(f, file, order, m)
    BY <1>2
  <2> DEFINE next == MergeTable(f[m], LocalTable(file, order[m + 1]))
             g == [n \in 0 .. m + 1 |-> IF n = m + 1 THEN next ELSE f[n]]
             Value(t, n) == IF n = 0 THEN EmptyTable
                            ELSE MergeTable(t[n - 1], LocalTable(file, order[n]))
  <2>2. f = [n \in 0 .. m |-> Value(f, n)]
    BY <2>1 DEF Folded
  <2> HIDE DEF next
  <2>3. ASSUME NEW n \in 0 .. m + 1 PROVE g[n] = Value(g, n)
    <3>1. CASE n = m + 1
      <4>1. n - 1 = m /\ n # 0 /\ g[n - 1] = f[m] /\ g[n] = next
        BY <3>1
      <4> QED
        BY <3>1, <4>1 DEF next
    <3>2. CASE n # m + 1
      <4>1. n \in 0 .. m /\ g[n] = f[n] /\ (n # 0 => n - 1 \in 0 .. m /\ g[n - 1] = f[n - 1])
        BY <3>2
      <4>2. f[n] = Value(f, n)
        BY <2>2, <4>1
      <4> QED
        BY <4>1, <4>2
    <3> QED
      BY <3>1, <3>2
  <2>4. g = [n \in 0 .. m + 1 |-> g[n]]
    OBVIOUS
  <2> HIDE DEF g
  <2>5. g = [n \in 0 .. m + 1 |-> Value(g, n)]
    BY <2>3, <2>4
  <2>6. Folded(g, file, order, m + 1)
    BY <2>5 DEF Folded
  <2> QED
    BY <2>6
<1>3. ASSUME N \in T PROVE FALSE
  <2>1. T \in SUBSET Nat /\ T # {}
    BY <1>3
  <2>2. PICK x \in T : \A y \in T : x <= y
    BY <2>1, LeastNumber
  <2> HIDE DEF Has
  <2>3. x \in Nat /\ x # 0
    BY <1>1, <2>2
  <2>4. x - 1 \in Nat /\ (x - 1) + 1 = x
    BY <2>3
  <2>5. Has(x - 1)
    <3>1. ASSUME x - 1 \in T PROVE FALSE
      <4>1. x <= x - 1
        BY <2>2, <3>1
      <4> QED
        BY <2>3, <4>1
    <3> QED
      BY <2>4, <3>1
  <2>6. Has((x - 1) + 1)
    BY <1>2, <2>4, <2>5
  <2> QED
    BY <2>2, <2>4, <2>6
<1> QED
  BY <1>3

\* Two orders that begin alike give the same table so far.
LEMMA FoldsAgree ==
  ASSUME NEW file, NEW order, NEW longer, NEW N \in Nat, NEW M \in Nat, N <= M,
         NEW f, NEW g, Folded(f, file, order, N), Folded(g, file, longer, M),
         \A i \in 1 .. N : order[i] = longer[i]
  PROVE  f[N] = g[N]
<1> DEFINE T == {n \in 0 .. N : f[n] # g[n]}
<1>1. ASSUME NEW n \in 0 .. N
      PROVE  f[n] = IF n = 0 THEN EmptyTable
                    ELSE MergeTable(f[n - 1], LocalTable(file, order[n]))
  BY DEF Folded
<1>2. ASSUME NEW n \in 0 .. M
      PROVE  g[n] = IF n = 0 THEN EmptyTable
                    ELSE MergeTable(g[n - 1], LocalTable(file, longer[n]))
  BY DEF Folded
<1>3. ASSUME T # {} PROVE FALSE
  <2>1. T \in SUBSET Nat
    OBVIOUS
  <2>2. PICK x \in T : \A y \in T : x <= y
    BY <1>3, <2>1, LeastNumber
  <2>3. x \in 0 .. N /\ x \in 0 .. M /\ f[x] # g[x]
    BY <2>2
  <2>4. x # 0
    BY <1>1, <1>2, <2>3
  <2>5. x - 1 \in 0 .. N /\ ~(x <= x - 1) /\ x \in 1 .. N
    BY <2>3, <2>4
  <2>6. f[x - 1] = g[x - 1]
    BY <2>2, <2>5
  <2>7. f[x] = MergeTable(f[x - 1], LocalTable(file, order[x]))
    BY <1>1, <2>3, <2>4
  <2>8. g[x] = MergeTable(g[x - 1], LocalTable(file, longer[x]))
    BY <1>2, <2>3, <2>4
  <2>9. order[x] = longer[x]
    BY <2>5
  <2> QED
    BY <2>3, <2>6, <2>7, <2>8, <2>9
<1>4. N \in 0 .. N
  OBVIOUS
<1> QED
  BY <1>3, <1>4

\* The last job of an order merges its table into that of the others.
LEMMA MergedTableNext ==
  ASSUME NEW file
  PROVE  /\ MergedTable(file, << >>) = EmptyTable
         /\ \A S : \A order \in Seq(S), j \in S :
              MergedTable(file, Append(order, j))
                = MergeTable(MergedTable(file, order), LocalTable(file, j))
<1> DEFINE F(order) == CHOOSE f : Folded(f, file, order, Len(order))
<1>1. ASSUME NEW order, Len(order) \in Nat
      PROVE  /\ Folded(F(order), file, order, Len(order))
             /\ MergedTable(file, order) = F(order)[Len(order)]
  <2>1. Folded(F(order), file, order, Len(order))
    BY <1>1, FoldExists
  <2>2. MergedTable(file, order) = F(order)[Len(order)]
    BY DEF MergedTable, Folded
  <2> QED
    BY <2>1, <2>2
<1> HIDE DEF F
<1>2. MergedTable(file, << >>) = EmptyTable
  <2>1. Len(<< >>) = 0
    BY EmptySeq
  <2>2. Folded(F(<< >>), file, << >>, 0) /\ MergedTable(file, << >>) = F(<< >>)[0]
    BY <1>1, <2>1
  <2> QED
    BY <2>2 DEF Folded
<1>3. ASSUME NEW S, NEW order \in Seq(S), NEW j \in S
      PROVE  MergedTable(file, Append(order, j))
               = MergeTable(MergedTable(file, order), LocalTable(file, j))
  <2> DEFINE longer == Append(order, j)
             n == Len(order)
  <2>1. /\ n \in Nat /\ Len(longer) = n + 1 /\ longer[n + 1] = j
        /\ \A i \in 1 .. n : longer[i] = order[i]
    BY AppendProperties, LenProperties
  <2> HIDE DEF longer, n
  <2>2. /\ Folded(F(order), file, order, n) /\ MergedTable(file, order) = F(order)[n]
    BY <1>1, <2>1 DEF n
  <2>3. /\ Folded(F(longer), file, longer, n + 1)
        /\ MergedTable(file, longer) = F(longer)[n + 1]
    <3>1. n + 1 \in Nat
      BY <2>1
    <3> QED
      BY <1>1, <2>1, <3>1
  <2>4. F(order)[n] = F(longer)[n]
    <3>1. n + 1 \in Nat /\ n <= n + 1
      BY <2>1
    <3> QED
      BY <2>1, <2>2, <2>3, <3>1, FoldsAgree
  <2>5. F(longer)[n + 1] = MergeTable(F(longer)[(n + 1) - 1], LocalTable(file, longer[n + 1]))
    <3>1. n + 1 \in 0 .. n + 1 /\ n + 1 # 0
      BY <2>1
    <3> QED
      BY <2>3, <3>1 DEF Folded
  <2>6. (n + 1) - 1 = n
    BY <2>1
  <2> QED
    BY <2>1, <2>2, <2>3, <2>4, <2>5, <2>6 DEF longer
<1> QED
  BY <1>2, <1>3
=============================================================================
