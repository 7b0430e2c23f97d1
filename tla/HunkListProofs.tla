--------------------------- MODULE HunkListProofs ---------------------------
(***************************************************************************)
(* Facts about the hunk list that every algorithm's proofs rest on: what   *)
(* insert_hunk adds is a hunk, and backtrack_hunks keeps the list, and the *)
(* tree made from it, well formed.  First the bytes of a file, and the      *)
(* least number of a set, which is used where one expects an induction.     *)
(***************************************************************************)
EXTENDS HunkList, SequenceTheorems, WellFoundedInduction, TLAPS

\* A mapped file has bytes at every offset below its size.
LEMMA FileBytes ==
  ASSUME NEW file \in Files
  PROVE  /\ file.size \in Nat \ {0}
         /\ file.memory \in [0 .. file.size - 1 -> Byte]
         /\ \A i \in 0 .. file.size - 1 : file.memory[i] \in Nat
<1>1. PICK n \in 1 .. MaxSize :
        file \in [size : {n}, memory : [0 .. n - 1 -> Byte], beyond : Beyond]
  BY DEF Files
<1>2. /\ n \in Nat \ {0}
      /\ file.size = n
      /\ file.memory \in [0 .. n - 1 -> Byte]
  BY <1>1, FileAssumption
<1> QED
  BY <1>2, FileAssumption

-----------------------------------------------------------------------------
\* The order of the natural numbers as a relation.
Below == {p \in Nat \X Nat : p[1] < p[2]}

\* The library's theorem, without the operator it takes as a parameter.
LEMMA BelowWellFounded == IsWellFoundedOn(Below, Nat)
BY NatLessThanWellFounded DEF Below, OpToRel

\* A set of natural numbers that is not empty has a least element: what
\* induction is replaced by here.
LEMMA LeastNatural ==
  ASSUME NEW T \in SUBSET Nat, T # {}
  PROVE  \E x \in T : \A y \in T : x <= y
<1>1. PICK x \in T : \A y \in T : ~ (<<y, x>> \in Below)
  BY BelowWellFounded, WFMin
<1>2. ASSUME NEW y \in T PROVE x <= y
  <2>1. ~ (<<y, x>> \in Below)
    BY <1>1
  <2>2. <<y, x>> \in Nat \X Nat
    OBVIOUS
  <2> QED
    BY <2>1, <2>2 DEF Below
<1> QED
  BY <1>2

\* Intervals of which each begins at most one past the end of the one before
\* cover all that lies between the first start and the last end.
LEMMA ChainCovers ==
  ASSUME NEW len \in Nat \ {0},
         NEW start \in [1 .. len -> Int], NEW end \in [1 .. len -> Int],
         \A k \in 1 .. len - 1 : start[k + 1] <= end[k] + 1,
         NEW i \in Int, start[1] <= i, i <= end[len]
  PROVE  \E n \in 1 .. len : start[n] <= i /\ i <= end[n]
<1> DEFINE T == {m \in 0 .. len - 1 : start[len - m] <= i}
<1>1. len - 1 \in T
  <2>1. len - (len - 1) = 1
    OBVIOUS
  <2> QED
    BY <2>1
<1>2. T \in SUBSET Nat
  OBVIOUS
<1>3. PICK m \in T : \A y \in T : m <= y
  BY <1>1, <1>2, LeastNatural
<1>4. /\ m \in 0 .. len - 1 /\ len - m \in 1 .. len
      /\ start[len - m] <= i
  BY <1>3
<1>5. CASE m = 0
  BY <1>4, <1>5
<1>6. CASE m # 0
  <2>1. m - 1 \in 0 .. len - 1
    BY <1>4, <1>6
  <2>2. ~(start[len - (m - 1)] <= i)
    <3>1. ASSUME start[len - (m - 1)] <= i PROVE FALSE
      <4>1. m - 1 \in T
        BY <2>1, <3>1
      <4>2. m <= m - 1
        BY <1>3, <4>1
      <4> QED
        BY <1>4, <4>2
    <3> QED
      BY <3>1
  <2>3. len - (m - 1) = (len - m) + 1 /\ len - m \in 1 .. len - 1
    BY <1>4, <1>6
  <2>4. start[(len - m) + 1] <= end[len - m] + 1
    BY <2>3
  <2>5. start[(len - m) + 1] \in Int /\ end[len - m] \in Int
    BY <2>1, <2>3
  <2>6. start[(len - m) + 1] > i
    <3>1. start[len - (m - 1)] = start[(len - m) + 1]
      BY <2>3
    <3> QED
      BY <2>2, <2>5, <3>1
  <2>7. i <= end[len - m]
    BY <2>4, <2>5, <2>6
  <2> QED
    BY <1>4, <2>7
<1> QED
  BY <1>5, <1>6

-----------------------------------------------------------------------------
\* Whatever the ends, ClampedHunk makes a hunk of its type.
LEMMA ClampedHunkType ==
  ASSUME NEW type \in HunkType,
         NEW src_start \in Nat, NEW src_end \in Int,
         NEW dst_start \in Nat, NEW dst_end \in Int
  PROVE  ClampedHunk(type, src_start, src_end, dst_start, dst_end) \in Hunk
BY DEF ClampedHunk, Hunk

\* While the walk goes on nothing has gone into the tree, and the loops of
\* backtrack_hunks start at the head of the list.
HunkListInv ==
  /\ HunkListTypeOK
  /\ pc \in {"backtrack", "tree"} => list > 0
  /\ pc \notin {"tree", "done"} => otherhunk = 0 /\ hunks = << >>

\* A hunk cut to the start of another, and a hunk moved back, are hunks.
LEMMA TrimmedType ==
  ASSUME NEW other \in Hunk, NEW hunk \in Hunk
  PROVE  TrimmedTo(other, hunk) \in Hunk
<1> DEFINE src_end == IF hunk.src_start = 0 THEN 0 ELSE hunk.src_start - 1
           dst_end == IF hunk.dst_start = 0 THEN 0 ELSE hunk.dst_start - 1
<1>1. hunk.src_start \in Nat /\ hunk.dst_start \in Nat
  BY DEF Hunk
<1>2. src_end \in Nat /\ dst_end \in Nat
  BY <1>1
<1> HIDE DEF src_end, dst_end
<1>3. [other EXCEPT !.src_end = src_end, !.dst_end = dst_end] \in Hunk
  BY <1>2 DEF Hunk
<1> QED
  BY <1>3 DEF TrimmedTo, src_end, dst_end

\* A hunk that has grown back is a hunk.
LEMMA MovedBackType ==
  ASSUME NEW hunk \in Hunk, NEW n \in Nat, MatchesBack(hunk, n)
  PROVE  MovedBack(hunk, n) \in Hunk
<1>1. n <= hunk.src_start + 1 /\ n <= hunk.dst_start + 1
  BY DEF MatchesBack
<1>2. hunk.src_start + 1 - n \in Nat /\ hunk.dst_start + 1 - n \in Nat
  BY <1>1 DEF Hunk
<1> QED
  BY <1>2 DEF MovedBack, Hunk, HunkType

\* The list stays one of hunks when backtracking has dealt with one of them.
LEMMA AfterBacktrackType ==
  ASSUME working_hunks \in Seq(Hunk), list \in Nat, list <= Len(working_hunks),
         NEW kept \in 0 .. list - 1, NEW hunk \in Hunk
  PROVE  AfterBacktrack(kept, hunk) \in Seq(Hunk)
<1> DEFINE before == SubSeq(working_hunks, 1, kept - 1)
           cut == IF kept = 0 THEN << >> ELSE <<TrimmedTo(working_hunks[kept], hunk)>>
           after == SubSeq(working_hunks, list + 1, Len(working_hunks))
<1>1. before \in Seq(Hunk)
  BY SubSeqProperties, ElementOfSeq
<1>2. cut \in Seq(Hunk)
  <2>1. CASE kept = 0
    BY <2>1
  <2>2. CASE kept # 0
    <3>1. working_hunks[kept] \in Hunk
      BY <2>2, ElementOfSeq
    <3> QED
      BY <2>2, <3>1, TrimmedType
  <2> QED
    BY <2>1, <2>2
<1>3. after \in Seq(Hunk)
  BY SubSeqProperties, ElementOfSeq
<1>4. before \o cut \in Seq(Hunk)
  BY <1>1, <1>2, ConcatProperties
<1>5. before \o cut \o <<hunk>> \in Seq(Hunk)
  BY <1>4, ConcatProperties
<1>6. (before \o cut \o <<hunk>>) \o after \in Seq(Hunk)
  BY <1>3, <1>5, ConcatProperties
<1> QED
  BY <1>6 DEF AfterBacktrack

\* backtrack_hunks keeps the invariant of the list.
LEMMA BacktrackKeepsInv ==
  ASSUME HunkListInv, backtrack_hunks
  PROVE  HunkListInv'
<1> USE DEF HunkListInv, HunkListTypeOK
<1>1. CASE BacktrackHunk
  <2>1. PICK n \in 0 .. MaxSize + 1, kept \in 0 .. list - 1 :
          /\ MatchesBack(working_hunks[list], n)
          /\ working_hunks' = AfterBacktrack(kept, MovedBack(working_hunks[list], n))
          /\ list' = kept + 2
    BY <1>1 DEF BacktrackHunk
  <2>2. list \in Nat /\ list > 0 /\ list <= Len(working_hunks)
    BY <1>1 DEF BacktrackHunk, AtIndexed
  <2>3. MovedBack(working_hunks[list], n) \in Hunk
    BY <2>1, <2>2, MovedBackType, ElementOfSeq, FileAssumption
  <2>4. working_hunks' \in Seq(Hunk)
    BY <2>1, <2>2, <2>3, AfterBacktrackType
  <2>5. otherhunk' = 0 /\ hunks' = << >> /\ pc' = pc /\ src' = src /\ dst' = dst
    BY <1>1 DEF BacktrackHunk, AtIndexed
  <2> QED
    BY <2>1, <2>4, <2>5, LenProperties, EmptySeq
<1>2. CASE BacktrackFault
  BY <1>2 DEF BacktrackFault, AtIndexed
<1>3. CASE BacktrackSkip
  BY <1>3 DEF BacktrackSkip
<1>4. CASE BacktrackDone
  BY <1>4 DEF BacktrackDone
<1>5. CASE TreeCoalesce
  <2>1. /\ list \in 1 .. Len(working_hunks)
        /\ otherhunk \in 1 .. Len(working_hunks)
    BY <1>5 DEF TreeCoalesce, AtTree, Coalesces
  <2>2. working_hunks[list] \in Hunk /\ working_hunks[otherhunk] \in Hunk
    BY <2>1, ElementOfSeq
  <2> DEFINE extended == [working_hunks[otherhunk] EXCEPT
                            !.src_end = working_hunks[list].src_end,
                            !.dst_end = working_hunks[list].dst_end]
  <2>3. extended \in Hunk
    BY <2>2 DEF Hunk
  <2>4. working_hunks' = [working_hunks EXCEPT ![otherhunk] = extended]
    BY <1>5, <2>1, <2>2 DEF TreeCoalesce, Hunk
  <2>5. working_hunks' \in Seq(Hunk) /\ Len(working_hunks') = Len(working_hunks)
    BY <2>1, <2>3, <2>4, ExceptSeq
  <2> QED
    BY <1>5, <2>5 DEF TreeCoalesce, AtTree
<1>6. CASE TreeInsert
  <2> DEFINE node == [key |-> list, value |-> list]
             Node == [key : 1 .. Len(working_hunks), value : 1 .. Len(working_hunks)]
  <2>1. list \in 1 .. Len(working_hunks)
    BY <1>6 DEF TreeInsert, AtTree
  <2>2. hunks \in Seq(Node)
    OBVIOUS
  <2> HIDE DEF Node
  <2>3. node \in Node
    BY <2>1 DEF Node
  <2>4. hunks' \in Seq(Node)
    <3>1. CASE \E n \in DOMAIN hunks :
                 /\ Compare(n) = 0
                 /\ hunks' = [hunks EXCEPT ![n].value = list]
      <4>1. PICK n \in DOMAIN hunks : hunks' = [hunks EXCEPT ![n].value = list]
        BY <3>1
      <4>2. n \in 1 .. Len(hunks) /\ hunks[n] \in Node
        BY <2>2, <4>1, ElementOfSeq, LenProperties
      <4>3. hunks' = [hunks EXCEPT ![n] = [hunks[n] EXCEPT !.value = list]]
        BY <4>1
      <4>4. [hunks[n] EXCEPT !.value = list] \in Node
        BY <2>1, <4>2 DEF Node
      <4> QED
        BY <2>2, <4>2, <4>3, <4>4, ExceptSeq
    <3>2. CASE \E n \in 0 .. Len(hunks) :
                 /\ \A m \in 1 .. n : Compare(m) > 0
                 /\ \A m \in n + 1 .. Len(hunks) : Compare(m) < 0
                 /\ hunks' = SubSeq(hunks, 1, n) \o <<node>>
                               \o SubSeq(hunks, n + 1, Len(hunks))
      <4>1. PICK n \in 0 .. Len(hunks) :
              hunks' = SubSeq(hunks, 1, n) \o <<node>>
                         \o SubSeq(hunks, n + 1, Len(hunks))
        BY <3>2
      <4>2. SubSeq(hunks, 1, n) \in Seq(Node) /\ SubSeq(hunks, n + 1, Len(hunks)) \in Seq(Node)
        BY <2>2, <4>1, SubSeqProperties, ElementOfSeq, LenProperties
      <4>3. SubSeq(hunks, 1, n) \o <<node>> \in Seq(Node)
        BY <2>3, <4>2, ConcatProperties
      <4> QED
        BY <4>1, <4>2, <4>3, ConcatProperties
    <3> QED
      BY <1>6, <3>1, <3>2 DEF TreeInsert
  <2> QED
    BY <1>6, <2>1, <2>4, SMTT(30) DEF TreeInsert, AtTree, Node
<1>7. CASE TreeDone
  BY <1>7 DEF TreeDone
<1> QED
  BY <1>1, <1>2, <1>3, <1>4, <1>5, <1>6, <1>7 DEF backtrack_hunks

-----------------------------------------------------------------------------
\* What the list holds once the hunk at list has grown back to kept.
LEMMA AfterBacktrackElements ==
  ASSUME working_hunks \in Seq(Hunk), list \in 1 .. Len(working_hunks),
         NEW kept \in 1 .. list - 1, NEW hunk \in Hunk
  PROVE  LET after == AfterBacktrack(kept, hunk)
         IN  /\ Len(after) = kept + 1 + Len(working_hunks) - list
             /\ \A i \in 1 .. kept - 1 : after[i] = working_hunks[i]
             /\ after[kept] = TrimmedTo(working_hunks[kept], hunk)
             /\ after[kept + 1] = hunk
             /\ \A i \in kept + 2 .. kept + 1 + Len(working_hunks) - list :
                  after[i] = working_hunks[i + list - kept - 1]
<1> DEFINE n == Len(working_hunks)
           before == SubSeq(working_hunks, 1, kept - 1)
           cut == TrimmedTo(working_hunks[kept], hunk)
           rest == SubSeq(working_hunks, list + 1, n)
<1>1. n \in Nat /\ list \in 1 .. n /\ kept \in 1 .. n - 1
  BY LenProperties
<1>2. working_hunks[kept] \in Hunk
  BY <1>1, ElementOfSeq
<1>3. cut \in Hunk
  BY <1>2, TrimmedType
<1>4. /\ before \in Seq(Hunk) /\ Len(before) = kept - 1
      /\ \A i \in 1 .. kept - 1 : before[i] = working_hunks[i]
  <2>1. \A i \in 1 .. kept - 1 : working_hunks[i] \in Hunk
    BY <1>1, ElementOfSeq
  <2> QED
    BY <1>1, <2>1, SubSeqProperties
<1>5. /\ rest \in Seq(Hunk) /\ Len(rest) = n - list
      /\ \A i \in 1 .. n - list : rest[i] = working_hunks[list + i]
  <2>1. \A i \in list + 1 .. n : working_hunks[i] \in Hunk
    BY <1>1, ElementOfSeq
  <2>2. /\ rest \in Seq(Hunk)
        /\ Len(rest) = IF list + 1 <= n THEN n - (list + 1) + 1 ELSE 0
        /\ \A i \in 1 .. n - (list + 1) + 1 : rest[i] = working_hunks[(list + 1) + i - 1]
    BY <1>1, <2>1, SubSeqProperties
  <2>3. \A i \in 1 .. n - list : (list + 1) + i - 1 = list + i
    BY <1>1
  <2> QED
    BY <1>1, <2>2, <2>3
<1> HIDE DEF before, cut, rest, n
<1>6. <<cut>> \in Seq(Hunk) /\ <<hunk>> \in Seq(Hunk)
  BY <1>3
<1> DEFINE two == before \o <<cut>>
           three == two \o <<hunk>>
<1>7. /\ two \in Seq(Hunk) /\ Len(two) = kept
      /\ \A i \in 1 .. kept - 1 : two[i] = working_hunks[i]
      /\ two[kept] = cut
  BY <1>1, <1>4, <1>6, ConcatProperties
<1> HIDE DEF two
<1>8. /\ three \in Seq(Hunk) /\ Len(three) = kept + 1
      /\ \A i \in 1 .. kept : three[i] = two[i]
      /\ three[kept + 1] = hunk
  BY <1>1, <1>6, <1>7, ConcatProperties
<1> HIDE DEF three
<1>9. /\ Len(three \o rest) = kept + 1 + (n - list)
      /\ \A i \in 1 .. kept + 1 : (three \o rest)[i] = three[i]
      /\ \A i \in kept + 2 .. kept + 1 + (n - list) :
           (three \o rest)[i] = rest[i - (kept + 1)]
  <2>1. /\ Len(three \o rest) = Len(three) + Len(rest)
        /\ \A i \in 1 .. Len(three) + Len(rest) :
             (three \o rest)[i] = IF i <= Len(three) THEN three[i]
                                                    ELSE rest[i - Len(three)]
    BY <1>5, <1>8, ConcatProperties
  <2>2. \A i \in 1 .. kept + 1 + (n - list) :
          (three \o rest)[i] = IF i <= kept + 1 THEN three[i] ELSE rest[i - (kept + 1)]
    BY <1>5, <1>8, <2>1
  <2>3. Len(three \o rest) = kept + 1 + (n - list)
    BY <1>5, <1>8, <2>1
  <2>4. ASSUME NEW i \in 1 .. kept + 1 PROVE (three \o rest)[i] = three[i]
    <3>1. i \in 1 .. kept + 1 + (n - list) /\ i <= kept + 1
      BY <1>1
    <3> QED
      BY <2>2, <3>1
  <2>5. ASSUME NEW i \in kept + 2 .. kept + 1 + (n - list)
        PROVE  (three \o rest)[i] = rest[i - (kept + 1)]
    <3>1. i \in 1 .. kept + 1 + (n - list) /\ ~(i <= kept + 1)
      BY <1>1
    <3> QED
      BY <2>2, <3>1
  <2> QED
    BY <2>3, <2>4, <2>5
<1>10. \A i \in kept + 2 .. kept + 1 + n - list :
         (three \o rest)[i] = working_hunks[i + list - kept - 1]
  <2> SUFFICES ASSUME NEW i \in kept + 2 .. kept + 1 + n - list
               PROVE  (three \o rest)[i] = working_hunks[i + list - kept - 1]
    OBVIOUS
  <2>1. i - (kept + 1) \in 1 .. n - list /\ i \in kept + 2 .. kept + 1 + (n - list)
    BY <1>1
  <2>2. list + (i - (kept + 1)) = i + list - kept - 1
    BY <1>1
  <2> QED
    BY <1>5, <1>9, <2>1, <2>2
<1>11. AfterBacktrack(kept, hunk) = three \o rest
  <2> DEFINE part == IF kept = 0 THEN << >> ELSE <<TrimmedTo(working_hunks[kept], hunk)>>
  <2>1. part = <<cut>>
    BY <1>1 DEF cut
  <2>2. AfterBacktrack(kept, hunk) = ((before \o part) \o <<hunk>>) \o rest
    BY DEF AfterBacktrack, before, rest, n
  <2> HIDE DEF part
  <2> QED
    BY <2>1, <2>2 DEF three, two
<1> DEFINE after == AfterBacktrack(kept, hunk)
<1>12. Len(after) = kept + 1 + n - list
  BY <1>1, <1>9, <1>11
<1>13. \A i \in 1 .. kept - 1 : after[i] = working_hunks[i]
  <2>1. ASSUME NEW i \in 1 .. kept - 1 PROVE after[i] = working_hunks[i]
    <3>1. i \in 1 .. kept /\ i \in 1 .. kept + 1
      BY <1>1
    <3> QED
      BY <1>7, <1>8, <1>9, <1>11, <3>1
  <2> QED
    BY <2>1
<1>14. after[kept] = cut
  <2>1. kept \in 1 .. kept /\ kept \in 1 .. kept + 1
    BY <1>1
  <2> QED
    BY <1>7, <1>8, <1>9, <1>11, <2>1
<1>15. after[kept + 1] = hunk
  <2>1. kept + 1 \in 1 .. kept + 1
    BY <1>1
  <2> QED
    BY <1>8, <1>9, <1>11, <2>1
<1> QED
  BY <1>10, <1>11, <1>12, <1>13, <1>14, <1>15 DEF cut, n

-----------------------------------------------------------------------------
\* The sequence s with e put in after its first n elements.
PutIn(s, n, e) == SubSeq(s, 1, n) \o <<e>> \o SubSeq(s, n + 1, Len(s))

\* What it holds.
LEMMA PutInElements ==
  ASSUME NEW S, NEW s \in Seq(S), NEW e \in S, NEW n \in 0 .. Len(s)
  PROVE  /\ Len(PutIn(s, n, e)) = Len(s) + 1
         /\ \A i \in 1 .. n : PutIn(s, n, e)[i] = s[i]
         /\ PutIn(s, n, e)[n + 1] = e
         /\ \A i \in n + 1 .. Len(s) : PutIn(s, n, e)[i + 1] = s[i]
<1> DEFINE before == SubSeq(s, 1, n)
           after == SubSeq(s, n + 1, Len(s))
           two == before \o <<e>>
           m == Len(s)
<1>1. m \in Nat /\ n \in Nat /\ n <= m
  BY LenProperties
<1>2. /\ before \in Seq(S) /\ Len(before) = n
      /\ \A i \in 1 .. n : before[i] = s[i]
  <2>1. \A i \in 1 .. n : s[i] \in S
    BY <1>1, ElementOfSeq
  <2> QED
    BY <1>1, <2>1, SubSeqProperties
<1>3. /\ after \in Seq(S) /\ Len(after) = m - n
      /\ \A i \in 1 .. m - n : after[i] = s[n + i]
  <2>1. \A i \in n + 1 .. m : s[i] \in S
    BY <1>1, ElementOfSeq
  <2>2. /\ after \in Seq(S)
        /\ Len(after) = IF n + 1 <= m THEN m - (n + 1) + 1 ELSE 0
        /\ \A i \in 1 .. m - (n + 1) + 1 : after[i] = s[(n + 1) + i - 1]
    BY <1>1, <2>1, SubSeqProperties
  <2>3. \A i \in 1 .. m - n : (n + 1) + i - 1 = n + i
    BY <1>1
  <2> QED
    BY <1>1, <2>2, <2>3
<1> HIDE DEF before, after, m
<1>4. /\ two \in Seq(S) /\ Len(two) = n + 1
      /\ \A i \in 1 .. n : two[i] = s[i]
      /\ two[n + 1] = e
  <2>1. <<e>> \in Seq(S) /\ Len(<<e>>) = 1 /\ <<e>>[1] = e
    OBVIOUS
  <2> QED
    BY <1>1, <1>2, <2>1, ConcatProperties
<1> HIDE DEF two
<1>5. /\ Len(two \o after) = m + 1
      /\ \A i \in 1 .. m + 1 : (two \o after)[i] =
           IF i <= n + 1 THEN two[i] ELSE after[i - (n + 1)]
  BY <1>1, <1>3, <1>4, ConcatProperties
<1>6. ASSUME NEW i \in 1 .. n PROVE (two \o after)[i] = s[i]
  <2>1. i \in 1 .. m + 1 /\ i <= n + 1
    BY <1>1
  <2> QED
    BY <1>4, <1>5, <2>1
<1>7. (two \o after)[n + 1] = e
  <2>1. n + 1 \in 1 .. m + 1 /\ n + 1 <= n + 1
    BY <1>1
  <2> QED
    BY <1>4, <1>5, <2>1
<1>8. ASSUME NEW i \in n + 1 .. m PROVE (two \o after)[i + 1] = s[i]
  <2>1. i + 1 \in 1 .. m + 1 /\ ~(i + 1 <= n + 1)
    BY <1>1
  <2>2. (i + 1) - (n + 1) = i - n /\ i - n \in 1 .. m - n /\ n + (i - n) = i
    BY <1>1
  <2> QED
    BY <1>3, <1>5, <2>1, <2>2
<1> QED
  BY <1>5, <1>6, <1>7, <1>8 DEF PutIn, two, before, after, m

\* The order of the tree.
LEMMA CompareHunks ==
  ASSUME NEW hunk1 \in Hunk, NEW hunk2 \in Hunk
  PROVE  /\ compare_diff_hunks(hunk1, hunk2) = 0 <=>
              hunk1.src_start = hunk2.src_start /\ hunk1.src_end = hunk2.src_end
         /\ compare_diff_hunks(hunk1, hunk2) < 0 <=>
              \/ hunk1.src_start < hunk2.src_start
              \/ hunk1.src_start = hunk2.src_start /\ hunk1.src_end < hunk2.src_end
         /\ compare_diff_hunks(hunk1, hunk2) > 0 <=> compare_diff_hunks(hunk2, hunk1) < 0
BY DEF compare_diff_hunks, Hunk

\* Every node there was is there after g_tree_insert, but for the value of one
\* whose key is equal to the new hunk, and the new hunk is a value.
LEMMA InsertNodes ==
  ASSUME HunkListInv, TreeInsert
  PROVE  /\ \A m \in 1 .. Len(hunks') :
              \/ hunks'[m].key = list /\ hunks'[m].value = list
              \/ \E n \in 1 .. Len(hunks) :
                   /\ hunks'[m].key = hunks[n].key
                   /\ \/ hunks'[m].value = hunks[n].value
                      \/ hunks'[m].value = list /\ Compare(n) = 0
         /\ \A n \in 1 .. Len(hunks) : \E m \in 1 .. Len(hunks') :
              /\ hunks'[m].key = hunks[n].key
              /\ \/ hunks'[m].value = hunks[n].value
                 \/ hunks'[m].value = list /\ Compare(n) = 0
         /\ \E m \in 1 .. Len(hunks') : hunks'[m].value = list
         /\ \/ /\ Len(hunks') = Len(hunks)
               /\ \A m \in 1 .. Len(hunks) : hunks'[m].key = hunks[m].key
            \/ \E n \in 0 .. Len(hunks) :
                 /\ Len(hunks') = Len(hunks) + 1
                 /\ \A m \in 1 .. n : Compare(m) > 0 /\ hunks'[m].key = hunks[m].key
                 /\ hunks'[n + 1].key = list
                 /\ \A m \in n + 1 .. Len(hunks) :
                      Compare(m) < 0 /\ hunks'[m + 1].key = hunks[m].key
<1> DEFINE Node == [key : 1 .. Len(working_hunks), value : 1 .. Len(working_hunks)]
           node == [key |-> list, value |-> list]
           len == Len(hunks)
<1>1. /\ hunks \in Seq(Node) /\ len \in Nat /\ DOMAIN hunks = 1 .. len
      /\ node \in Node
  <2>1. hunks \in Seq(Node)
    BY DEF HunkListInv, HunkListTypeOK
  <2>2. Len(working_hunks) \in Nat
    BY LenProperties DEF HunkListInv, HunkListTypeOK
  <2>3. list \in 1 .. Len(working_hunks)
    BY <2>2 DEF HunkListInv, HunkListTypeOK, TreeInsert, AtTree
  <2> QED
    BY <2>1, <2>3, LenProperties
<1>2. ASSUME NEW n \in 1 .. len, Compare(n) = 0,
             hunks' = [hunks EXCEPT ![n].value = list]
      PROVE  /\ Len(hunks') = len
             /\ \A m \in 1 .. len : /\ hunks'[m].key = hunks[m].key
                                    /\ m # n => hunks'[m].value = hunks[m].value
             /\ hunks'[n].value = list
  <2> DEFINE new == [hunks[n] EXCEPT !.value = list]
  <2>1. hunks[n] \in Node
    BY <1>1, ElementOfSeq
  <2>2. new \in Node /\ new.key = hunks[n].key /\ new.value = list
    BY <1>1, <2>1
  <2>3. hunks' = [hunks EXCEPT ![n] = new]
    BY <1>2
  <2> HIDE DEF new, Node
  <2> QED
    BY <1>1, <2>2, <2>3, ExceptSeq
<1>3. ASSUME NEW n \in 0 .. len, hunks' = PutIn(hunks, n, node)
      PROVE  /\ Len(hunks') = len + 1
             /\ \A m \in 1 .. n : hunks'[m] = hunks[m]
             /\ hunks'[n + 1] = node
             /\ \A m \in n + 1 .. len : hunks'[m + 1] = hunks[m]
  <2> HIDE DEF Node, node
  <2> QED
    BY <1>1, <1>3, PutInElements
<1>4. \/ \E n \in 1 .. len : Compare(n) = 0 /\ hunks' = [hunks EXCEPT ![n].value = list]
      \/ \E n \in 0 .. len :
           /\ \A m \in 1 .. n : Compare(m) > 0
           /\ \A m \in n + 1 .. len : Compare(m) < 0
           /\ hunks' = PutIn(hunks, n, node)
  BY <1>1 DEF TreeInsert, PutIn
<1> HIDE DEF Node
<1>5. CASE \E n \in 1 .. len : Compare(n) = 0 /\ hunks' = [hunks EXCEPT ![n].value = list]
  <2>1. PICK n \in 1 .. len : Compare(n) = 0 /\ hunks' = [hunks EXCEPT ![n].value = list]
    BY <1>5
  <2>2. /\ Len(hunks') = len
        /\ \A m \in 1 .. len : /\ hunks'[m].key = hunks[m].key
                               /\ m # n => hunks'[m].value = hunks[m].value
        /\ hunks'[n].value = list
    BY <1>2, <2>1
  <2> HIDE DEF len
  <2>3. ASSUME NEW m \in 1 .. len
        PROVE  /\ hunks'[m].key = hunks[m].key
               /\ \/ hunks'[m].value = hunks[m].value
                  \/ hunks'[m].value = list /\ Compare(m) = 0
    BY <2>1, <2>2
  <2> QED
    BY <2>1, <2>2, <2>3 DEF len
<1>6. CASE \E n \in 0 .. len :
             /\ \A m \in 1 .. n : Compare(m) > 0
             /\ \A m \in n + 1 .. len : Compare(m) < 0
             /\ hunks' = PutIn(hunks, n, node)
  <2>1. PICK n \in 0 .. len :
          /\ \A m \in 1 .. n : Compare(m) > 0
          /\ \A m \in n + 1 .. len : Compare(m) < 0
          /\ hunks' = PutIn(hunks, n, node)
    BY <1>6
  <2>2. /\ Len(hunks') = len + 1
        /\ \A m \in 1 .. n : hunks'[m] = hunks[m]
        /\ hunks'[n + 1] = node
        /\ \A m \in n + 1 .. len : hunks'[m + 1] = hunks[m]
    BY <1>3, <2>1
  <2>3. node.key = list /\ node.value = list
    OBVIOUS
  <2> HIDE DEF len, node
  <2>4. ASSUME NEW m \in 1 .. len + 1
        PROVE  \/ hunks'[m].key = list /\ hunks'[m].value = list
               \/ \E k \in 1 .. len : hunks'[m] = hunks[k]
    <3>1. CASE m \in 1 .. n
      <4>1. m \in 1 .. len
        BY <1>1, <3>1
      <4> QED
        BY <2>2, <3>1, <4>1
    <3>2. CASE m = n + 1
      BY <2>2, <2>3, <3>2
    <3>3. CASE m \in n + 2 .. len + 1
      <4>1. m - 1 \in n + 1 .. len /\ m - 1 \in 1 .. len /\ (m - 1) + 1 = m
        BY <1>1, <3>3
      <4> QED
        BY <2>2, <4>1
    <3> QED
      BY <1>1, <3>1, <3>2, <3>3
  <2>5. ASSUME NEW k \in 1 .. len
        PROVE  \E m \in 1 .. len + 1 : hunks'[m] = hunks[k]
    <3>1. CASE k \in 1 .. n
      <4>1. k \in 1 .. len + 1
        BY <1>1
      <4> QED
        BY <2>2, <3>1, <4>1
    <3>2. CASE k \in n + 1 .. len
      <4>1. k + 1 \in 1 .. len + 1
        BY <1>1
      <4> QED
        BY <2>2, <3>2, <4>1
    <3> QED
      BY <1>1, <3>1, <3>2
  <2>6. n + 1 \in 1 .. len + 1
    BY <1>1
  <2>7. \A m \in 1 .. Len(hunks') :
          \/ hunks'[m].key = list /\ hunks'[m].value = list
          \/ \E k \in 1 .. len :
               /\ hunks'[m].key = hunks[k].key
               /\ \/ hunks'[m].value = hunks[k].value
                  \/ hunks'[m].value = list /\ Compare(k) = 0
    BY <2>2, <2>4
  <2>8. \A k \in 1 .. len : \E m \in 1 .. Len(hunks') :
          /\ hunks'[m].key = hunks[k].key
          /\ \/ hunks'[m].value = hunks[k].value
             \/ hunks'[m].value = list /\ Compare(k) = 0
    BY <2>2, <2>5
  <2>9. \E m \in 1 .. Len(hunks') : hunks'[m].value = list
    BY <2>2, <2>3, <2>6
  <2>10. /\ Len(hunks') = len + 1
         /\ \A m \in 1 .. n : Compare(m) > 0 /\ hunks'[m].key = hunks[m].key
         /\ hunks'[n + 1].key = list
         /\ \A m \in n + 1 .. len : Compare(m) < 0 /\ hunks'[m + 1].key = hunks[m].key
    BY <2>1, <2>2, <2>3
  <2> QED
    BY <2>7, <2>8, <2>9, <2>10 DEF len
<1> QED
  BY <1>4, <1>5, <1>6
=============================================================================
