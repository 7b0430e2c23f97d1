-------------------------- MODULE SimpleDiffProofs --------------------------
(***************************************************************************)
(* What the simple algorithm guarantees for every file, block size and     *)
(* number of threads.                                                      *)
(*                                                                         *)
(* The inductive invariant follows the data: RootInv and PoolInv say how   *)
(* far each job has listed its block, while the threads run; ConcatInv,    *)
(* how far the caller has joined the lists; EndInv, what is left of the    *)
(* working list and what the tree has, while one is moved into the other.  *)
(* SoundInv says all along that a hunk has the type of its bytes.          *)
(***************************************************************************)
EXTENDS SimpleDiff, HunkListProofs, FiniteSetTheorems

\* The types, and the caller joins the lists from the first on.
TypeInv ==
  /\ TypeOK
  /\ HunkListInv
  /\ pc = "concat" => data > 0

\* The files have a byte in common.
LEMMA CommonType ==
  ASSUME src \in Files, dst \in Files
  PROVE  /\ Common \in Nat \ {0} /\ Common <= src.size /\ Common <= dst.size
         /\ Common = src.size \/ Common = dst.size
<1>1. src.size \in Nat \ {0} /\ dst.size \in Nat \ {0}
  BY FileBytes
<1> QED
  BY <1>1 DEF Common, Smaller

\* The multiples of blocksize that bound the blocks.
LEMMA StartposType ==
  ASSUME NEW j \in Nat \ {0}
  PROVE  /\ startpos(j) \in Nat /\ startpos(j + 1) \in Nat
         /\ startpos(j + 1) = startpos(j) + blocksize
         /\ startpos(j + 1) = j * blocksize
         /\ startpos(j) < startpos(j + 1)
<1>1. blocksize \in Nat \ {0} /\ j - 1 \in Nat /\ (j + 1) - 1 = j
  BY PoolAssumption
<1>2. (j - 1) * blocksize \in Nat /\ j * blocksize \in Nat
  BY <1>1
<1>3. j * blocksize = (j - 1) * blocksize + blocksize
  BY <1>1
<1> DEFINE a == (j - 1) * blocksize
           b == j * blocksize
<1>4. a \in Nat /\ b \in Nat /\ b = a + blocksize
  BY <1>2, <1>3
<1>5. startpos(j) = a /\ startpos(j + 1) = b
  BY <1>1 DEF startpos
<1> HIDE DEF a, b
<1>6. a < b
  BY <1>1, <1>4
<1> QED
  BY <1>4, <1>5, <1>6 DEF b

\* The end of a block of files with common bytes in common.
BlockEnd(j, common) == Smaller(j * blocksize, common)

\* A block begins where the one before ends.
LEMMA BlockEndType ==
  ASSUME NEW common \in Nat, NEW j \in Nat \ {0}
  PROVE  /\ BlockEnd(j, common) \in Nat
         /\ BlockEnd(j, common) <= common
         /\ startpos(j) < common => startpos(j) < BlockEnd(j, common)
         /\ startpos(j + 1) <= common => BlockEnd(j, common) = startpos(j + 1)
         /\ common <= startpos(j + 1) => BlockEnd(j, common) = common
<1> DEFINE a == startpos(j)
           b == startpos(j + 1)
<1>1. a \in Nat /\ b \in Nat /\ a < b
  BY StartposType
<1>2. BlockEnd(j, common) = Smaller(b, common)
  BY StartposType DEF BlockEnd
<1> HIDE DEF a, b
<1>3. /\ Smaller(b, common) \in Nat
      /\ Smaller(b, common) <= common
      /\ a < common => a < Smaller(b, common)
      /\ b <= common => Smaller(b, common) = b
      /\ common <= b => Smaller(b, common) = common
  BY <1>1 DEF Smaller
<1> QED
  BY <1>2, <1>3 DEF a, b

\* The model's name for it.
LEMMA EndposIs == \A j : endpos(j) = BlockEnd(j, Common)
BY DEF endpos, BlockEnd

-----------------------------------------------------------------------------
\* The initial states have the types.
LEMMA InitType == Init => TypeInv
<1> SUFFICES ASSUME Init PROVE TypeInv
  OBVIOUS
<1>1. << >> \in Seq(Hunk) /\ Len(<< >>) = 0 /\ << >> \in Seq(Seq(Hunk))
      /\ << >> \in Seq(Nat \ {0}) /\ DOMAIN << >> = {}
  BY EmptySeq
<1>2. hunks \in Seq([key : 1 .. Len(working_hunks), value : 1 .. Len(working_hunks)])
  BY DEF Init
<1>3. queue \in Seq(Nat \ {0}) /\ \A i \in DOMAIN queue : queue[i] <= Len(root)
  BY <1>1 DEF Init
<1>4. HunkListTypeOK
  BY <1>1, <1>2 DEF Init, HunkListTypeOK
<1>5. TypeOK
  BY <1>1, <1>3, <1>4 DEF Init, TypeOK
<1> QED
  BY <1>4, <1>5 DEF Init, TypeInv, HunkListInv

\* A job is pushed.
LEMMA PushType ==
  ASSUME TypeInv, Push
  PROVE  TypeInv'
<1> USE DEF TypeInv, TypeOK
<1>1. /\ root' = Append(root, << >>) /\ queue' = Append(queue, Len(root) + 1)
      /\ ptr' = Smaller(ptr + blocksize, Common) /\ pc = "push"
      /\ UNCHANGED <<src, dst, pc, working_hunks, tree, job, mode, at, start, data>>
  BY DEF Push
<1>2. << >> \in Seq(Hunk)
  BY EmptySeq
<1>3. root' \in Seq(Seq(Hunk)) /\ Len(root') = Len(root) + 1 /\ Len(root) \in Nat
  BY <1>1, <1>2, AppendProperties, LenProperties
<1>4. /\ queue' \in Seq(Nat \ {0})
      /\ \A i \in DOMAIN queue' : queue'[i] <= Len(root')
  <2>1. queue \in Seq(Nat \ {0}) /\ Len(root) + 1 \in Nat \ {0}
    BY <1>3
  <2>2. /\ queue' \in Seq(Nat \ {0}) /\ Len(queue') = Len(queue) + 1
        /\ \A i \in 1 .. Len(queue) : queue'[i] = queue[i]
        /\ queue'[Len(queue) + 1] = Len(root) + 1
    BY <1>1, <2>1, AppendProperties
  <2>3. Len(queue) \in Nat /\ DOMAIN queue = 1 .. Len(queue) /\ DOMAIN queue' = 1 .. Len(queue')
    BY <2>1, <2>2, LenProperties
  <2>4. ASSUME NEW i \in 1 .. Len(queue) + 1 PROVE queue'[i] <= Len(root')
    <3>1. CASE i \in 1 .. Len(queue)
      <4>1. queue[i] <= Len(root) /\ queue[i] \in Nat
        BY <2>1, <2>3, <3>1, ElementOfSeq
      <4> QED
        BY <1>3, <2>2, <3>1, <4>1
    <3>2. CASE i = Len(queue) + 1
      BY <1>3, <2>2, <3>2
    <3> QED
      BY <2>3, <3>1, <3>2
  <2> QED
    BY <2>2, <2>3, <2>4
<1>5. ptr' \in Nat
  BY <1>1, CommonType, PoolAssumption DEF Smaller, HunkListTypeOK
<1>6. \A t \in Thread : job'[t] # NoJob => job'[t] \in DOMAIN root'
  <2>1. DOMAIN root = 1 .. Len(root) /\ DOMAIN root' = 1 .. Len(root')
    BY <1>3, LenProperties
  <2> QED
    BY <1>1, <1>3, <2>1
<1>7. HunkListInv'
  BY <1>1 DEF HunkListInv, HunkListTypeOK, tree
<1> QED
  BY <1>1, <1>3, <1>4, <1>5, <1>6, <1>7 DEF HunkListInv

\* A thread takes the first job of the queue.
LEMMA TakeType ==
  ASSUME TypeInv, NEW t \in Thread, Take(t)
  PROVE  TypeInv'
<1> USE DEF TypeInv, TypeOK
<1>1. /\ queue # << >> /\ queue' = Tail(queue)
      /\ job' = [job EXCEPT ![t] = Head(queue)]
      /\ mode' = [mode EXCEPT ![t] = "SYNC"]
      /\ at' = [at EXCEPT ![t] = startpos(Head(queue))]
      /\ start' = [start EXCEPT ![t] = startpos(Head(queue))]
      /\ UNCHANGED <<src, dst, pc, working_hunks, tree, ptr, root, data>>
  BY DEF Take
<1>2. Head(queue) \in Nat \ {0} /\ Head(queue) <= Len(root) /\ Head(queue) = queue[1]
  BY <1>1, HeadTailProperties, EmptySeq, LenProperties
<1>3. queue' \in Seq(Nat \ {0}) /\ \A i \in DOMAIN queue' : queue'[i] <= Len(root')
  <2>1. /\ queue' \in Seq(Nat \ {0}) /\ Len(queue') = Len(queue) - 1
        /\ \A i \in 1 .. Len(queue') : queue'[i] = queue[i + 1]
    BY <1>1, HeadTailProperties
  <2>2. /\ DOMAIN queue = 1 .. Len(queue) /\ DOMAIN queue' = 1 .. Len(queue') /\ Len(queue) \in Nat
    BY <2>1, LenProperties
  <2>3. \A i \in 1 .. Len(queue') : i + 1 \in 1 .. Len(queue)
    BY <2>1, <2>2
  <2> QED
    BY <1>1, <2>1, <2>2, <2>3
<1>4. startpos(Head(queue)) \in Nat
  BY <1>2, StartposType
<1>5. Head(queue) \in DOMAIN root
  BY <1>2, LenProperties
<1>6. job' \in [Thread -> Nat \cup {NoJob}]
      /\ \A u \in Thread : job'[u] # NoJob => job'[u] \in DOMAIN root'
  BY <1>1, <1>2, <1>5
<1>7. HunkListInv'
  BY <1>1 DEF HunkListInv, HunkListTypeOK, tree
<1> QED
  BY <1>1, <1>3, <1>4, <1>6, <1>7 DEF HunkListInv

\* A thread that runs has a job.
LEMMA RunningJob ==
  ASSUME TypeInv, NEW t \in Thread, Running(t)
  PROVE  /\ job[t] \in 1 .. Len(root) /\ job[t] \in Nat \ {0}
         /\ root[job[t]] \in Seq(Hunk)
         /\ at[t] \in Nat /\ start[t] \in Nat
         /\ endpos(job[t]) = BlockEnd(job[t], Common) /\ endpos(job[t]) \in Nat
<1>1. job[t] \in DOMAIN root /\ root \in Seq(Seq(Hunk)) /\ at[t] \in Nat /\ start[t] \in Nat
  BY DEF Running, TypeInv, TypeOK
<1>2. job[t] \in 1 .. Len(root) /\ Len(root) \in Nat
  BY <1>1, LenProperties
<1>3. root[job[t]] \in Seq(Hunk)
  BY <1>1, <1>2, ElementOfSeq
<1>4. Common \in Nat
  BY CommonType DEF TypeInv, TypeOK, HunkListTypeOK
<1>5. job[t] \in Nat \ {0}
  BY <1>2
<1>6. BlockEnd(job[t], Common) \in Nat
  BY <1>4, <1>5, BlockEndType
<1>7. endpos(job[t]) = BlockEnd(job[t], Common)
  BY DEF endpos, BlockEnd
<1> QED
  BY <1>1, <1>2, <1>3, <1>5, <1>6, <1>7

\* The hunk a thread adds to its list.
Added(t, i) == ClampedHunk(WorkingType(t), start[t], i - 1, start[t], i - 1)

\* What a thread adds to its list is a hunk.
LEMMA ThreadInserts ==
  ASSUME TypeInv, NEW t \in Thread, Running(t), NEW i \in Nat, insert_hunk_threaded(t, i)
  PROVE  /\ Added(t, i) \in Hunk
         /\ root' = [root EXCEPT ![job[t]] = Append(root[job[t]], Added(t, i))]
         /\ root' \in Seq(Seq(Hunk)) /\ Len(root') = Len(root)
<1>1. job[t] \in 1 .. Len(root) /\ root[job[t]] \in Seq(Hunk) /\ start[t] \in Nat
  BY RunningJob
<1>2. i - 1 \in Int /\ WorkingType(t) \in HunkType
  BY DEF WorkingType, HunkType
<1>3. Added(t, i) \in Hunk
  BY <1>1, <1>2, ClampedHunkType DEF Added
<1>4. root' = [root EXCEPT ![job[t]] = Append(root[job[t]], Added(t, i))]
  BY DEF insert_hunk_threaded, Added
<1>5. Append(root[job[t]], Added(t, i)) \in Seq(Hunk)
  BY <1>1, <1>3, AppendProperties
<1>6. root' \in Seq(Seq(Hunk)) /\ Len(root') = Len(root)
  BY <1>1, <1>4, <1>5, ExceptSeq DEF TypeInv, TypeOK
<1> QED
  BY <1>3, <1>4, <1>6

\* A thread lists a stretch of its block.
LEMMA SwitchType ==
  ASSUME TypeInv, NEW t \in Thread, Switch(t)
  PROVE  TypeInv'
<1> USE DEF TypeInv, TypeOK
<1>1. PICK i \in at[t] .. endpos(job[t]) - 1 :
        /\ StopsAt(t, i)
        /\ IF mode[t] = "SYNC" /\ i = at[t] THEN UNCHANGED root ELSE insert_hunk_threaded(t, i)
        /\ at' = [at EXCEPT ![t] = i]
        /\ start' = [start EXCEPT ![t] = i]
  BY DEF Switch
<1>2. /\ Running(t)
      /\ mode' = [mode EXCEPT ![t] = IF @ = "SYNC" THEN "UNSYNCED_SIMPLE" ELSE "SYNC"]
      /\ UNCHANGED <<src, dst, pc, working_hunks, tree, ptr, queue, job, data>>
  BY DEF Switch
<1>3. i \in Nat
  BY <1>1, <1>2, RunningJob
<1>4. root' \in Seq(Seq(Hunk)) /\ Len(root') = Len(root)
  BY <1>1, <1>2, <1>3, ThreadInserts
<1>5. DOMAIN root' = DOMAIN root
  BY <1>4, LenProperties
<1>6. HunkListInv'
  BY <1>2 DEF HunkListInv, HunkListTypeOK, tree
<1> QED
  BY <1>1, <1>2, <1>3, <1>4, <1>5, <1>6 DEF HunkListInv

\* A thread comes to the end of its block.
LEMMA FinishType ==
  ASSUME TypeInv, NEW t \in Thread, Finish(t)
  PROVE  TypeInv'
<1> USE DEF TypeInv, TypeOK
<1>1. /\ Running(t) /\ insert_hunk_threaded(t, endpos(job[t]))
      /\ at' = [at EXCEPT ![t] = endpos(job[t])]
      /\ job' = [job EXCEPT ![t] = NoJob]
      /\ UNCHANGED <<src, dst, pc, working_hunks, tree, ptr, queue, mode, start, data>>
  BY DEF Finish
<1>2. endpos(job[t]) \in Nat
  BY <1>1, RunningJob
<1>3. root' \in Seq(Seq(Hunk)) /\ Len(root') = Len(root)
  BY <1>1, <1>2, ThreadInserts
<1>4. DOMAIN root' = DOMAIN root
  BY <1>3, LenProperties
<1>5. HunkListInv'
  BY <1>1 DEF HunkListInv, HunkListTypeOK, tree
<1> QED
  BY <1>1, <1>2, <1>3, <1>4, <1>5 DEF HunkListInv

\* A list is joined.
LEMMA ConcatType ==
  ASSUME TypeInv, Concat
  PROVE  TypeInv'
<1> USE DEF TypeInv, TypeOK
<1>1. /\ pc = "concat" /\ data <= Len(root)
      /\ working_hunks' = working_hunks \o root[data]
      /\ root' = [root EXCEPT ![data] = << >>]
      /\ data' = data + 1
      /\ UNCHANGED <<src, dst, pc, tree, ptr, pool>>
  BY DEF Concat
<1>2. data \in 1 .. Len(root) /\ root[data] \in Seq(Hunk) /\ working_hunks \in Seq(Hunk)
  <2>1. data \in 1 .. Len(root)
    BY <1>1, LenProperties
  <2> QED
    BY <2>1, ElementOfSeq DEF HunkListTypeOK
<1>3. working_hunks' \in Seq(Hunk)
  BY <1>1, <1>2, ConcatProperties
<1>4. << >> \in Seq(Hunk)
  BY EmptySeq
<1>5. root' \in Seq(Seq(Hunk)) /\ Len(root') = Len(root)
  BY <1>1, <1>2, <1>4, ExceptSeq
<1>6. DOMAIN root' = DOMAIN root
  BY <1>5, LenProperties
<1>7. HunkListInv'
  <2>1. otherhunk = 0 /\ hunks = << >> /\ UNCHANGED <<src, dst, list, otherhunk, hunks>>
    BY <1>1 DEF HunkListInv, tree
  <2>2. Len(working_hunks') \in Nat
    BY <1>3, LenProperties
  <2>3. hunks' \in Seq([key : 1 .. Len(working_hunks'), value : 1 .. Len(working_hunks')])
    BY <2>1, EmptySeq
  <2> QED
    BY <1>1, <1>3, <2>1, <2>2, <2>3 DEF HunkListInv, HunkListTypeOK
<1> QED
  BY <1>1, <1>5, <1>6, <1>7 DEF HunkListInv, pool

\* The rest of the longer file is one more hunk.
LEMMA RestType ==
  ASSUME TypeInv, Rest
  PROVE  TypeInv'
<1> USE DEF TypeInv, TypeOK
<1>1. /\ pc = "concat"
      /\ working_hunks' =
           IF ptr = src.size /\ ptr = dst.size
           THEN working_hunks
           ELSE insert_hunk(ClampedHunk("DIFF", ptr, src.size, ptr, dst.size))
      /\ pc' = "backtrack"
      /\ list' = 1
      /\ UNCHANGED <<src, dst, otherhunk, hunks, ptr, root, pool, data>>
  BY DEF Rest
<1>2. ClampedHunk("DIFF", ptr, src.size, ptr, dst.size) \in Hunk
  <2>1. src.size \in Int /\ dst.size \in Int /\ "DIFF" \in HunkType
    BY FileBytes DEF HunkListTypeOK, HunkType
  <2> QED
    BY <2>1, ClampedHunkType
<1>3. working_hunks' \in Seq(Hunk)
  BY <1>1, <1>2, AppendProperties DEF insert_hunk, HunkListTypeOK
<1>4. HunkListInv'
  <2>1. otherhunk = 0 /\ hunks = << >>
    BY <1>1 DEF HunkListInv
  <2>2. Len(working_hunks') \in Nat
    BY <1>3, LenProperties
  <2>3. hunks' \in Seq([key : 1 .. Len(working_hunks'), value : 1 .. Len(working_hunks')])
    BY <1>1, <2>1, EmptySeq
  <2> QED
    BY <1>1, <1>3, <2>1, <2>2, <2>3 DEF HunkListInv, HunkListTypeOK
<1> QED
  BY <1>1, <1>4 DEF HunkListInv, pool

\* Every step keeps the types.
LEMMA NextType == TypeInv /\ [Next]_vars => TypeInv'
<1> SUFFICES ASSUME TypeInv, [Next]_vars PROVE TypeInv'
  OBVIOUS
<1>1. CASE Push
  BY <1>1, PushType
<1>2. CASE \E t \in Thread : Take(t) \/ Switch(t) \/ Finish(t)
  BY <1>2, TakeType, SwitchType, FinishType
<1>3. CASE Concat
  BY <1>3, ConcatType
<1>4. CASE Rest
  BY <1>4, RestType
<1>5. CASE Wait \/ Return \/ ConcatFault \/ (\E t \in Thread : PrependFault(t))
  <2>1. /\ UNCHANGED <<src, dst, working_hunks, tree, ptr, root, pool>>
        /\ pc \in {"push", "wait", "concat"} /\ pc' \in {"wait", "concat", "fault"}
        /\ data' \in Nat /\ (pc' = "concat" => data' > 0)
    BY <1>5 DEF Wait, Return, ConcatFault, PrependFault, Running, TypeInv, TypeOK
  <2>2. HunkListInv'
    BY <2>1 DEF TypeInv, HunkListInv, HunkListTypeOK, tree
  <2> QED
    BY <2>1, <2>2 DEF TypeInv, TypeOK, HunkListInv, pool
<1>6. CASE backtrack_hunks /\ UNCHANGED <<ptr, root, pool, data>>
  <2>1. HunkListInv'
    BY <1>6, BacktrackKeepsInv DEF TypeInv
  <2>2. pc' \in {"backtrack", "tree", "done", "fault"}
    BY <1>6 DEF backtrack_hunks, BacktrackHunk, BacktrackFault, BacktrackSkip, BacktrackDone,
                TreeCoalesce, TreeInsert, TreeDone, AtIndexed, AtTree
  <2> QED
    BY <1>6, <2>1, <2>2 DEF TypeInv, TypeOK, HunkListInv, pool
<1>7. CASE Terminated \/ UNCHANGED vars
  BY <1>7 DEF Terminated, vars, TypeInv, TypeOK, HunkListInv, HunkListTypeOK, pool
<1> QED
  BY <1>1, <1>2, <1>3, <1>4, <1>5, <1>6, <1>7 DEF Next, Caller, Work
-----------------------------------------------------------------------------
\* The type a hunk has to have for each of the common bytes.
ByteType == [k \in 0 .. Common - 1 |-> IF Equal(k) THEN "SAME" ELSE "DIFF"]

\* The hunk has the type of its bytes.
Sound(hunk, types) ==
  /\ hunk.type \in {"SAME", "DIFF"}
  /\ \A k \in DOMAIN types : Covers(hunk, k) => hunk.type = types[k]

\* The hunk has a byte, and stands at the same offsets of both files.
Diagonal(hunk) ==
  /\ hunk.src_start <= hunk.src_end
  /\ hunk.dst_start = hunk.src_start /\ hunk.dst_end = hunk.src_end

\* The first byte the hunks of s, the first of them at byte from, have not
\* come to.
Reached(s, from) == IF s = << >> THEN from ELSE s[Len(s)].src_end + 1

\* The hunks of s list the bytes of from .. to - 1, each beginning where the
\* one before ends.
Listing(s, from, to, types) ==
  /\ \A i \in 1 .. Len(s) :
       /\ s[i].src_start = IF i = 1 THEN from ELSE s[i - 1].src_end + 1
       /\ Diagonal(s[i])
       /\ Sound(s[i], types)
  /\ Reached(s, from) = to

\* One more hunk where the list ends.
LEMMA ListingAppend ==
  ASSUME NEW types, NEW s \in Seq(Hunk), NEW from \in Nat, NEW to \in Nat,
         Listing(s, from, to, types),
         NEW hunk \in Hunk, hunk.src_start = to, Diagonal(hunk), Sound(hunk, types)
  PROVE  Listing(Append(s, hunk), from, hunk.src_end + 1, types)
<1> DEFINE r == Append(s, hunk)
           n == Len(s)
<1>1. /\ r \in Seq(Hunk) /\ Len(r) = n + 1 /\ n \in Nat
      /\ \A i \in 1 .. n : r[i] = s[i]
      /\ r[n + 1] = hunk
  BY AppendProperties, LenProperties
<1>2. r # << >>
  BY <1>1, EmptySeq
<1>3. n = 0 <=> s = << >>
  BY EmptySeq
<1> HIDE DEF r, n
<1>4. ASSUME NEW i \in 1 .. n + 1
      PROVE  /\ r[i].src_start = IF i = 1 THEN from ELSE r[i - 1].src_end + 1
             /\ Diagonal(r[i])
             /\ Sound(r[i], types)
  <2>1. CASE i \in 1 .. n
    <3>1. i # 1 => i - 1 \in 1 .. n
      BY <1>1, <2>1
    <3> QED
      BY <1>1, <2>1, <3>1 DEF Listing, n
  <2>2. CASE i = n + 1 /\ n = 0
    BY <1>1, <1>3, <2>2 DEF Listing, Reached
  <2>3. CASE i = n + 1 /\ n # 0
    <3>1. s[n].src_end + 1 = to
      BY <1>3, <2>3 DEF Listing, Reached, n
    <3>2. i - 1 = n /\ n \in 1 .. n /\ i # 1
      BY <1>1, <2>3
    <3> QED
      BY <1>1, <2>3, <3>1, <3>2
  <2> QED
    BY <1>1, <2>1, <2>2, <2>3
<1>5. Reached(r, from) = hunk.src_end + 1
  BY <1>1, <1>2 DEF Reached
<1> QED
  BY <1>1, <1>4, <1>5 DEF Listing, r

\* A list that begins where another ends.
LEMMA ListingJoin ==
  ASSUME NEW types, NEW s \in Seq(Hunk), NEW r \in Seq(Hunk),
         NEW from \in Nat, NEW mid \in Nat, NEW to \in Nat,
         Listing(s, from, mid, types), Listing(r, mid, to, types)
  PROVE  Listing(s \o r, from, to, types)
<1> DEFINE q == s \o r
           n == Len(s)
           m == Len(r)
<1>1. /\ q \in Seq(Hunk) /\ n \in Nat /\ m \in Nat /\ Len(q) = n + m
      /\ \A i \in 1 .. n + m : q[i] = IF i <= n THEN s[i] ELSE r[i - n]
  BY ConcatProperties, LenProperties
<1>2. n = 0 <=> s = << >>
  BY EmptySeq
<1>3. m = 0 <=> r = << >>
  BY EmptySeq
<1>4. Len(q) = 0 <=> q = << >>
  BY <1>1, EmptySeq
<1> HIDE DEF q, n, m
<1>5. n # 0 => s[n].src_end + 1 = mid
  BY <1>2 DEF Listing, Reached, n
<1>6. n = 0 => mid = from
  BY <1>2 DEF Listing, Reached
<1>7. m # 0 => r[m].src_end + 1 = to
  BY <1>3 DEF Listing, Reached, m
<1>8. m = 0 => to = mid
  BY <1>3 DEF Listing, Reached
<1>9. ASSUME NEW i \in 1 .. n + m
      PROVE  /\ q[i].src_start = IF i = 1 THEN from ELSE q[i - 1].src_end + 1
             /\ Diagonal(q[i])
             /\ Sound(q[i], types)
  <2>1. CASE i <= n
    <3>1. i \in 1 .. n /\ q[i] = s[i]
      BY <1>1, <2>1
    <3>2. i # 1 => q[i - 1] = s[i - 1]
      BY <1>1, <2>1
    <3> QED
      BY <3>1, <3>2 DEF Listing, n
  <2>2. CASE i = n + 1
    <3>1. 1 \in 1 .. m /\ q[i] = r[1]
      BY <1>1, <2>2
    <3>2. r[1].src_start = mid /\ Diagonal(r[1]) /\ Sound(r[1], types)
      BY <3>1 DEF Listing, m
    <3>3. i # 1 => q[i - 1] = s[n] /\ n # 0
      BY <1>1, <2>2
    <3>4. i = 1 => n = 0
      BY <1>1, <2>2
    <3> QED
      BY <1>5, <1>6, <3>1, <3>2, <3>3, <3>4
  <2>3. CASE i > n + 1
    <3>1. i - n \in 1 .. m /\ i - n # 1 /\ q[i] = r[i - n] /\ i # 1
      BY <1>1, <2>3
    <3>2. q[i - 1] = r[(i - n) - 1]
      <4>1. i - 1 \in 1 .. n + m /\ ~(i - 1 <= n) /\ (i - 1) - n = (i - n) - 1
        BY <1>1, <2>3
      <4> QED
        BY <1>1, <4>1
    <3>3. /\ r[i - n].src_start = r[(i - n) - 1].src_end + 1
          /\ Diagonal(r[i - n]) /\ Sound(r[i - n], types)
      BY <3>1 DEF Listing, m
    <3> QED
      BY <3>1, <3>2, <3>3
  <2> QED
    BY <1>1, <2>1, <2>2, <2>3
<1>10. Reached(q, from) = to
  <2>1. CASE m # 0
    <3>1. n + m \in 1 .. n + m /\ ~(n + m <= n) /\ (n + m) - n = m /\ Len(q) # 0
      BY <1>1, <2>1
    <3>2. q[n + m] = r[m]
      BY <1>1, <3>1
    <3> QED
      BY <1>1, <1>4, <1>7, <2>1, <3>1, <3>2 DEF Reached
  <2>2. CASE m = 0 /\ n # 0
    <3>1. n + m = n /\ n \in 1 .. n + m /\ Len(q) # 0
      BY <1>1, <2>2
    <3>2. q[n + m] = s[n]
      BY <1>1, <3>1
    <3> QED
      BY <1>1, <1>4, <1>5, <1>8, <2>2, <3>1, <3>2 DEF Reached
  <2>3. CASE m = 0 /\ n = 0
    BY <1>1, <1>4, <1>6, <1>8, <2>3 DEF Reached
  <2> QED
    BY <2>1, <2>2, <2>3
<1> QED
  BY <1>1, <1>9, <1>10 DEF Listing, q

\* The empty list.
LEMMA ListingEmpty ==
  ASSUME NEW types, NEW from
  PROVE  Listing(<< >>, from, from, types)
BY EmptySeq DEF Listing, Reached

\* Every byte between the ends of a list is in one of its hunks.
LEMMA ListingCovers ==
  ASSUME NEW types, NEW s \in Seq(Hunk), NEW from \in Nat, NEW to \in Nat,
         Listing(s, from, to, types), NEW k \in Nat, from <= k, k < to
  PROVE  \E i \in 1 .. Len(s) : Covers(s[i], k)
<1> DEFINE n == Len(s)
           first == [i \in 1 .. n |-> s[i].src_start]
           last == [i \in 1 .. n |-> s[i].src_end]
<1>1. n \in Nat /\ \A i \in 1 .. n : s[i] \in Hunk
  BY LenProperties, ElementOfSeq
<1>2. s # << >> /\ n # 0
  BY <1>1, EmptySeq DEF Listing, Reached
<1>3. s[n].src_end + 1 = to
  BY <1>2 DEF Listing, Reached
<1>4. \A i \in 1 .. n : s[i].src_start \in Nat /\ s[i].src_end \in Nat
  BY <1>1 DEF Hunk
<1>5. \A i \in 1 .. n : s[i].src_start = IF i = 1 THEN from ELSE s[i - 1].src_end + 1
  BY DEF Listing
<1> HIDE DEF n
<1>6. first \in [1 .. n -> Int] /\ last \in [1 .. n -> Int]
  BY <1>4
<1>7. \A i \in 1 .. n - 1 : first[i + 1] <= last[i] + 1
  <2> SUFFICES ASSUME NEW i \in 1 .. n - 1 PROVE first[i + 1] <= last[i] + 1
    OBVIOUS
  <2>1. i + 1 \in 1 .. n /\ i \in 1 .. n /\ i + 1 # 1 /\ (i + 1) - 1 = i
    BY <1>1
  <2>2. s[i + 1].src_start = s[i].src_end + 1
    BY <1>5, <2>1
  <2> QED
    BY <1>4, <2>1, <2>2
<1>8. first[1] <= k /\ k <= last[n]
  <2>1. 1 \in 1 .. n /\ n \in 1 .. n
    BY <1>1, <1>2
  <2>2. first[1] = from /\ last[n] + 1 = to /\ last[n] \in Nat
    BY <1>3, <1>4, <1>5, <2>1
  <2> QED
    BY <2>2
<1>9. \A i \in 1 .. n : first[i] = s[i].src_start /\ last[i] = s[i].src_end
  OBVIOUS
<1> HIDE DEF first, last
<1>10. PICK i \in 1 .. n : first[i] <= k /\ k <= last[i]
  <2>1. n \in Nat \ {0} /\ k \in Int
    BY <1>1, <1>2
  <2> QED
    BY <1>6, <1>7, <1>8, <2>1, ChainCovers
<1>11. i \in 1 .. Len(s) /\ s[i].src_start <= k /\ k <= s[i].src_end
  BY <1>9, <1>10 DEF n
<1> QED
  BY <1>11 DEF Covers
-----------------------------------------------------------------------------
\* Each job has listed its block up to some byte.
RootInv ==
  \A j \in 1 .. Len(root) :
    \E to \in Nat :
      to <= BlockEnd(j, Common) /\ Listing(root[j], startpos(j), to, ByteType)

\* While jobs are pushed and joined: the blocks lie in the common part, and
\* cover it once the last is pushed.
BlockInv ==
  pc \in {"push", "wait", "concat"} =>
    /\ ptr <= Common
    /\ ptr < Common => pc = "push" /\ ptr = startpos(Len(root) + 1)
    /\ ptr = Common => Common <= startpos(Len(root) + 1)
    /\ \A j \in 1 .. Len(root) : startpos(j) < Common

\* A job in the queue has not begun, and is there once.
QueueInv ==
  pc \in {"push", "wait"} =>
    /\ working_hunks = << >>
    /\ \A i \in 1 .. Len(queue) :
         /\ root[queue[i]] = << >>
         /\ \A t \in Thread : job[t] # queue[i]
         /\ \A k \in 1 .. Len(queue) : queue[i] = queue[k] => i = k

\* A thread has its job for itself, and has listed it up to where it is.
ThreadInv ==
  pc \in {"push", "wait"} =>
    \A t \in Thread : job[t] # NoJob =>
      /\ \A u \in Thread : job[u] = job[t] => u = t
      /\ start[t] = at[t]
      /\ Listing(root[job[t]], startpos(job[t]), at[t], ByteType)
      /\ at[t] < BlockEnd(job[t], Common)
      /\ mode[t] = "UNSYNCED_SIMPLE" => ~Equal(at[t])

\* A job that neither waits nor runs is listed to the end of its block.
CompleteInv ==
  pc \in {"push", "wait"} =>
    \A j \in 1 .. Len(root) :
      /\ \A i \in 1 .. Len(queue) : queue[i] # j
      /\ \A t \in Thread : job[t] # j
      => Listing(root[j], startpos(j), BlockEnd(j, Common), ByteType)

PoolInv == BlockInv /\ QueueInv /\ ThreadInv /\ CompleteInv

\* The lists up to data are joined, and the others are complete.
ConcatInv ==
  pc = "concat" =>
    /\ data \in 1 .. Len(root) + 1
    /\ \A j \in data .. Len(root) : Listing(root[j], startpos(j), BlockEnd(j, Common), ByteType)
    /\ Listing(working_hunks, 0,
               IF data <= Len(root) THEN startpos(data) ELSE Common, ByteType)

\* What the caller works on is true.
SoundInv == \A i \in 1 .. Len(working_hunks) : Sound(working_hunks[i], ByteType)

-----------------------------------------------------------------------------
\* The files stay what they are.
LEMMA FilesKept ==
  ASSUME UNCHANGED <<src, dst>>
  PROVE  Common' = Common /\ ByteType' = ByteType /\ (\A k : Equal(k)' = Equal(k))
BY DEF Common, ByteType, Equal

\* The first block begins with the file.
LEMMA StartposFirst == startpos(1) = 0
BY PoolAssumption DEF startpos

\* Nothing is listed at first.
LEMMA InitPool == Init => RootInv /\ PoolInv /\ ConcatInv /\ SoundInv
<1> SUFFICES ASSUME Init PROVE RootInv /\ PoolInv /\ ConcatInv /\ SoundInv
  OBVIOUS
<1>1. Common \in Nat \ {0}
  BY CommonType DEF Init
<1>2. Len(root) = 0 /\ Len(queue) = 0 /\ Len(working_hunks) = 0
  BY EmptySeq DEF Init
<1>3. startpos(0 + 1) = 0
  BY StartposFirst
<1>4. BlockInv
  BY <1>1, <1>2, <1>3 DEF Init, BlockInv
<1>5. ThreadInv
  BY DEF Init, ThreadInv
<1> QED
  BY <1>2, <1>4, <1>5 DEF Init, RootInv, PoolInv, QueueInv, CompleteInv, ConcatInv, SoundInv

\* A new job begins where the last ends.
LEMMA PushKeepsPool ==
  ASSUME TypeInv, TypeInv', RootInv, PoolInv, Push
  PROVE  RootInv' /\ PoolInv'
<1> DEFINE n == Len(root)
           m == Len(queue)
<1>1. /\ pc = "push" /\ ptr < Common
      /\ root' = Append(root, << >>) /\ queue' = Append(queue, n + 1)
      /\ ptr' = Smaller(ptr + blocksize, Common)
      /\ UNCHANGED <<src, dst, pc, working_hunks, job, mode, at, start>>
  BY DEF Push
<1>2. Common' = Common /\ ByteType' = ByteType /\ (\A k : Equal(k)' = Equal(k))
  BY <1>1, FilesKept
<1>3. << >> \in Seq(Hunk)
  BY EmptySeq
<1>4. /\ Len(root') = n + 1 /\ n \in Nat
      /\ \A j \in 1 .. n : root'[j] = root[j]
      /\ root'[n + 1] = << >>
  BY <1>1, <1>3, AppendProperties, LenProperties DEF TypeInv, TypeOK
<1>5. /\ Len(queue') = m + 1 /\ m \in Nat
      /\ \A i \in 1 .. m : queue'[i] = queue[i]
      /\ queue'[m + 1] = n + 1
  <2>1. queue \in Seq(Nat \ {0}) /\ n + 1 \in Nat \ {0}
    BY <1>4 DEF TypeInv, TypeOK
  <2> QED
    BY <1>1, <2>1, AppendProperties, LenProperties
<1>6. \A i \in 1 .. m : queue[i] \in 1 .. n
  <2>1. queue \in Seq(Nat \ {0}) /\ \A i \in DOMAIN queue : queue[i] <= n
    BY DEF TypeInv, TypeOK
  <2>2. DOMAIN queue = 1 .. m
    BY <2>1, LenProperties
  <2>3. \A i \in 1 .. m : queue[i] \in Nat \ {0}
    BY <2>1, ElementOfSeq
  <2> QED
    BY <1>4, <2>1, <2>2, <2>3, SMTT(30)
<1>7. \A t \in Thread : job[t] # NoJob => job[t] \in 1 .. n
  <2>1. DOMAIN root = 1 .. n
    BY LenProperties DEF TypeInv, TypeOK
  <2> QED
    BY <2>1 DEF TypeInv, TypeOK
<1>8. NoJob # n + 1
  BY <1>4, PoolAssumption
<1> HIDE DEF n, m
<1>9. Common \in Nat /\ ptr \in Nat
  BY CommonType DEF TypeInv, TypeOK, HunkListTypeOK
<1>10. /\ n + 1 \in Nat \ {0} /\ ptr = startpos(n + 1) /\ startpos(n + 1) < Common
       /\ startpos(n + 1) \in Nat
       /\ startpos((n + 1) + 1) = ptr + blocksize
       /\ startpos(n + 1) <= BlockEnd(n + 1, Common)
  <2>1. ptr = startpos(n + 1)
    BY <1>1 DEF PoolInv, BlockInv, n
  <2>2. n + 1 \in Nat \ {0}
    BY <1>4
  <2>3. /\ startpos(n + 1) \in Nat /\ startpos((n + 1) + 1) = startpos(n + 1) + blocksize
    BY <2>2, StartposType
  <2>4. startpos(n + 1) < BlockEnd(n + 1, Common) /\ BlockEnd(n + 1, Common) \in Nat
    BY <1>1, <1>9, <2>1, <2>2, BlockEndType
  <2> QED
    BY <1>1, <2>1, <2>2, <2>3, <2>4
<1>11. RootInv'
  <2> SUFFICES ASSUME NEW j \in 1 .. n + 1
               PROVE  \E to \in Nat : to <= BlockEnd(j, Common)
                                      /\ Listing(root'[j], startpos(j), to, ByteType)
    BY <1>2, <1>4 DEF RootInv
  <2>1. CASE j \in 1 .. n
    BY <1>4, <2>1 DEF RootInv, n
  <2>2. CASE j = n + 1
    <3>1. Listing(<< >>, startpos(n + 1), startpos(n + 1), ByteType)
      BY ListingEmpty
    <3> QED
      BY <1>4, <1>10, <2>2, <3>1
  <2> QED
    BY <1>4, <2>1, <2>2
<1>12. BlockInv'
  <2>1. \A j \in 1 .. n + 1 : startpos(j) < Common
    <3>1. \A j \in 1 .. n : startpos(j) < Common
      BY <1>1 DEF PoolInv, BlockInv, n
    <3> QED
      BY <1>4, <1>10, <3>1
  <2>2. ptr' <= Common /\ (ptr' < Common => ptr' = startpos((n + 1) + 1))
        /\ (ptr' = Common => Common <= startpos((n + 1) + 1))
    <3>1. ptr + blocksize \in Nat
      BY <1>9, PoolAssumption
    <3> QED
      BY <1>1, <1>9, <1>10, <3>1 DEF Smaller
  <2> QED
    BY <1>1, <1>2, <1>4, <2>1, <2>2 DEF BlockInv
<1>13. QueueInv'
  <2>1. working_hunks' = << >>
    BY <1>1 DEF PoolInv, QueueInv
  <2>2. ASSUME NEW i \in 1 .. m + 1
        PROVE  /\ root'[queue'[i]] = << >>
               /\ \A t \in Thread : job'[t] # queue'[i]
               /\ \A k \in 1 .. m + 1 : queue'[i] = queue'[k] => i = k
    <3>1. CASE i \in 1 .. m
      <4>1. /\ root[queue[i]] = << >>
            /\ \A t \in Thread : job[t] # queue[i]
            /\ \A k \in 1 .. m : queue[i] = queue[k] => i = k
        BY <1>1, <3>1 DEF PoolInv, QueueInv, m
      <4>2. queue[i] # n + 1
        BY <1>4, <1>6, <3>1
      <4>3. \A k \in 1 .. m + 1 : queue'[i] = queue'[k] => i = k
        BY <1>5, <3>1, <4>1, <4>2
      <4> QED
        BY <1>1, <1>4, <1>5, <1>6, <3>1, <4>1, <4>3
    <3>2. CASE i = m + 1
      <4>1. \A t \in Thread : job[t] # n + 1
        BY <1>4, <1>7, <1>8
      <4>2. \A k \in 1 .. m : queue[k] # n + 1
        BY <1>4, <1>6
      <4>3. \A k \in 1 .. m + 1 : queue'[i] = queue'[k] => i = k
        BY <1>5, <3>2, <4>2
      <4> QED
        BY <1>1, <1>4, <1>5, <3>2, <4>1, <4>3
    <3> QED
      BY <1>5, <3>1, <3>2
  <2> QED
    BY <1>5, <2>1, <2>2 DEF QueueInv
<1>14. ThreadInv'
  <2> SUFFICES ASSUME NEW t \in Thread, job[t] # NoJob
               PROVE  /\ \A u \in Thread : job[u] = job[t] => u = t
                      /\ start[t] = at[t]
                      /\ Listing(root'[job[t]], startpos(job[t]), at[t], ByteType)
                      /\ at[t] < BlockEnd(job[t], Common)
                      /\ mode[t] = "UNSYNCED_SIMPLE" => ~Equal(at[t])
    <3>1. \A t \in Thread : Equal(at[t])' = Equal(at[t])
      BY <1>1 DEF Equal
    <3> QED
      BY <1>1, <1>2, <3>1 DEF ThreadInv
  <2>1. root'[job[t]] = root[job[t]]
    BY <1>4, <1>7
  <2> QED
    BY <1>1, <2>1 DEF PoolInv, ThreadInv
<1>15. CompleteInv'
  <2> SUFFICES ASSUME NEW j \in 1 .. n + 1,
                      \A i \in 1 .. m + 1 : queue'[i] # j, \A t \in Thread : job[t] # j
               PROVE  Listing(root'[j], startpos(j), BlockEnd(j, Common), ByteType)
    BY <1>1, <1>2, <1>4, <1>5 DEF CompleteInv
  <2>1. j \in 1 .. n
    <3>1. m + 1 \in 1 .. m + 1
      BY <1>5
    <3>2. j # n + 1
      BY <1>5, <3>1
    <3> QED
      BY <1>4, <3>2
  <2>2. \A i \in 1 .. m : queue[i] # j
    BY <1>5
  <2> QED
    BY <1>1, <1>4, <2>1, <2>2 DEF PoolInv, CompleteInv, n, m
<1> QED
  BY <1>11, <1>12, <1>13, <1>14, <1>15 DEF PoolInv

\* A thread has the job at the head of the queue for itself.
LEMMA TakeKeepsPool ==
  ASSUME TypeInv, RootInv, PoolInv, NEW t \in Thread, Take(t)
  PROVE  RootInv' /\ PoolInv'
<1> DEFINE n == Len(root)
           m == Len(queue)
           h == Head(queue)
<1>1. /\ pc \in {"push", "wait"} /\ job[t] = NoJob /\ queue # << >>
      /\ queue' = Tail(queue)
      /\ job' = [job EXCEPT ![t] = h]
      /\ mode' = [mode EXCEPT ![t] = "SYNC"]
      /\ at' = [at EXCEPT ![t] = startpos(h)]
      /\ start' = [start EXCEPT ![t] = startpos(h)]
      /\ UNCHANGED <<src, dst, pc, working_hunks, ptr, root>>
  BY DEF Take
<1>2. Common' = Common /\ ByteType' = ByteType
  BY <1>1, FilesKept
<1>3. /\ m \in Nat /\ 1 \in 1 .. m /\ h = queue[1] /\ Len(queue') = m - 1
      /\ \A i \in 1 .. m - 1 : queue'[i] = queue[i + 1]
  <2>1. queue \in Seq(Nat \ {0}) /\ Len(queue) \in Nat /\ Len(queue) # 0
    BY <1>1, LenProperties, EmptySeq DEF TypeInv, TypeOK
  <2>2. /\ Len(Tail(queue)) = Len(queue) - 1 /\ Head(queue) = queue[1]
        /\ \A i \in 1 .. Len(Tail(queue)) : Tail(queue)[i] = queue[i + 1]
    BY <1>1, <2>1, HeadTailProperties
  <2> QED
    BY <1>1, <2>1, <2>2
<1>4. h \in 1 .. n /\ h \in Nat \ {0} /\ n \in Nat /\ h # NoJob
  <2>1. queue \in Seq(Nat \ {0}) /\ (\A i \in DOMAIN queue : queue[i] <= n) /\ n \in Nat
    BY LenProperties DEF TypeInv, TypeOK
  <2>2. DOMAIN queue = 1 .. m
    BY <2>1, LenProperties
  <2>3. queue[1] \in Nat \ {0}
    BY <1>3, <2>1, ElementOfSeq
  <2>4. queue[1] <= n
    BY <1>3, <2>1, <2>2
  <2>5. queue[1] \in 1 .. n
    BY <2>1, <2>3, <2>4
  <2> QED
    BY <1>3, <2>1, <2>3, <2>5, PoolAssumption
<1>5. /\ job \in [Thread -> Nat \cup {NoJob}] /\ at \in [Thread -> Nat]
      /\ start \in [Thread -> Nat] /\ mode \in [Thread -> {"SYNC", "UNSYNCED_SIMPLE"}]
  BY DEF TypeInv, TypeOK
<1> HIDE DEF n, m, h
<1>6. RootInv'
  BY <1>1, <1>2 DEF RootInv
<1>7. BlockInv'
  BY <1>1, <1>2 DEF PoolInv, BlockInv
<1>8. /\ working_hunks = << >>
      /\ \A i \in 1 .. m :
           /\ root[queue[i]] = << >>
           /\ \A u \in Thread : job[u] # queue[i]
           /\ \A k \in 1 .. m : queue[i] = queue[k] => i = k
  BY <1>1 DEF PoolInv, QueueInv, m
<1>9. QueueInv'
  <2>1. ASSUME NEW i \in 1 .. m - 1
        PROVE  /\ root'[queue'[i]] = << >>
               /\ \A u \in Thread : job'[u] # queue'[i]
               /\ \A k \in 1 .. m - 1 : queue'[i] = queue'[k] => i = k
    <3>1. i + 1 \in 1 .. m /\ i + 1 # 1 /\ queue'[i] = queue[i + 1]
      BY <1>3
    <3>2. queue[i + 1] # h
      BY <1>3, <1>8, <3>1
    <3>3. \A u \in Thread : job'[u] # queue'[i]
      BY <1>1, <1>5, <1>8, <3>1, <3>2
    <3>4. ASSUME NEW k \in 1 .. m - 1, queue'[i] = queue'[k] PROVE i = k
      <4>1. k + 1 \in 1 .. m /\ queue'[k] = queue[k + 1]
        BY <1>3
      <4>2. i + 1 = k + 1
        BY <1>8, <3>1, <3>4, <4>1
      <4> QED
        BY <1>3, <4>2
    <3> QED
      BY <1>1, <1>8, <3>1, <3>3, <3>4
  <2> QED
    BY <1>1, <1>3, <1>8, <2>1 DEF QueueInv
<1>10. ThreadInv'
  <2> SUFFICES ASSUME NEW u \in Thread, job'[u] # NoJob
               PROVE  /\ \A v \in Thread : job'[v] = job'[u] => v = u
                      /\ start'[u] = at'[u]
                      /\ Listing(root[job'[u]], startpos(job'[u]), at'[u], ByteType)
                      /\ at'[u] < BlockEnd(job'[u], Common)
                      /\ mode'[u] = "UNSYNCED_SIMPLE" => ~(Equal(at[u])')
    BY <1>1, <1>2 DEF ThreadInv
  <2>1. \A v \in Thread : job[v] # h
    BY <1>3, <1>8
  <2>2. CASE u = t
    <3>1. /\ job'[u] = h /\ at'[u] = startpos(h) /\ start'[u] = startpos(h)
          /\ mode'[u] = "SYNC"
      BY <1>1, <1>5, <2>2
    <3>2. Listing(root[h], startpos(h), startpos(h), ByteType)
      <4>1. root[h] = << >>
        BY <1>3, <1>8
      <4> QED
        BY <4>1, ListingEmpty
    <3>3. startpos(h) < BlockEnd(h, Common)
      <4>1. startpos(h) < Common
        BY <1>1, <1>4 DEF PoolInv, BlockInv, n
      <4>2. Common \in Nat
        BY CommonType DEF TypeInv, TypeOK, HunkListTypeOK
      <4> QED
        BY <1>4, <4>1, <4>2, BlockEndType
    <3>4. \A v \in Thread : job'[v] = h => v = t
      BY <1>1, <1>5, <2>1
    <3> QED
      BY <2>2, <3>1, <3>2, <3>3, <3>4
  <2>3. CASE u # t
    <3>1. /\ job'[u] = job[u] /\ at'[u] = at[u] /\ start'[u] = start[u] /\ mode'[u] = mode[u]
      BY <1>1, <1>5, <2>3
    <3>2. /\ \A v \in Thread : job[v] = job[u] => v = u
          /\ start[u] = at[u]
          /\ Listing(root[job[u]], startpos(job[u]), at[u], ByteType)
          /\ at[u] < BlockEnd(job[u], Common)
          /\ mode[u] = "UNSYNCED_SIMPLE" => ~Equal(at[u])
      BY <1>1, <3>1 DEF PoolInv, ThreadInv
    <3>3. \A v \in Thread : job'[v] = job[u] => v = u
      BY <1>1, <1>5, <2>1, <3>2
    <3>4. Equal(at[u])' = Equal(at[u])
      BY <1>1, <3>1 DEF Equal
    <3> QED
      BY <3>1, <3>2, <3>3, <3>4
  <2> QED
    BY <2>2, <2>3
<1>11. CompleteInv'
  <2> SUFFICES ASSUME NEW j \in 1 .. n,
                      \A i \in 1 .. m - 1 : queue'[i] # j, \A u \in Thread : job'[u] # j
               PROVE  Listing(root[j], startpos(j), BlockEnd(j, Common), ByteType)
    BY <1>1, <1>2, <1>3 DEF CompleteInv, n
  <2>1. j # h /\ j # NoJob
    <3>1. job'[t] = h
      BY <1>1, <1>5
    <3> QED
      BY <3>1, PoolAssumption
  <2>2. ASSUME NEW i \in 1 .. m PROVE queue[i] # j
    <3>1. CASE i = 1
      BY <1>3, <2>1, <3>1
    <3>2. CASE i # 1
      <4>1. i - 1 \in 1 .. m - 1 /\ (i - 1) + 1 = i
        BY <1>3, <3>2
      <4> QED
        BY <1>3, <4>1
    <3> QED
      BY <3>1, <3>2
  <2>3. \A u \in Thread : job[u] # j
    BY <1>1, <1>5, <2>1
  <2> QED
    BY <1>1, <2>2, <2>3 DEF PoolInv, CompleteInv, n, m
<1> QED
  BY <1>6, <1>7, <1>9, <1>10, <1>11 DEF PoolInv

\* What a thread adds lies on the diagonal, has the type of its bytes and ends
\* before the byte the thread has come to.
LEMMA ThreadLists ==
  ASSUME TypeInv, PoolInv, NEW t \in Thread, Running(t), NEW i \in Nat,
         at[t] < i, i <= endpos(job[t]), StopsAt(t, i), insert_hunk_threaded(t, i)
  PROVE  /\ Listing(root'[job[t]], startpos(job[t]), i, ByteType)
         /\ \A j \in 1 .. Len(root) : j # job[t] => root'[j] = root[j]
         /\ Len(root') = Len(root)
         /\ \A k \in 1 .. Len(root[job[t]]) : root'[job[t]][k] = root[job[t]][k]
         /\ Len(root'[job[t]]) = Len(root[job[t]]) + 1
<1> DEFINE j == job[t]
           hunk == Added(t, i)
<1>1. /\ j \in 1 .. Len(root) /\ j \in Nat \ {0} /\ root[j] \in Seq(Hunk)
      /\ at[t] \in Nat /\ endpos(j) = BlockEnd(j, Common)
  BY RunningJob
<1>2. /\ start[t] = at[t] /\ Listing(root[j], startpos(j), at[t], ByteType)
  BY DEF Running, PoolInv, ThreadInv
<1>3. /\ hunk \in Hunk
      /\ root' = [root EXCEPT ![j] = Append(root[j], hunk)]
      /\ root' \in Seq(Seq(Hunk)) /\ Len(root') = Len(root)
  BY ThreadInserts
<1>4. root \in Seq(Seq(Hunk)) /\ DOMAIN root = 1 .. Len(root)
  BY LenProperties DEF TypeInv, TypeOK
<1>5. root'[j] = Append(root[j], hunk) /\ \A k \in 1 .. Len(root) : k # j => root'[k] = root[k]
  BY <1>1, <1>3, <1>4
<1>6. /\ hunk.src_start = at[t] /\ hunk.src_end = i - 1
      /\ hunk.dst_start = at[t] /\ hunk.dst_end = i - 1
      /\ hunk.type = WorkingType(t)
  <2>1. ~(i - 1 < at[t])
    BY <1>1
  <2> QED
    BY <1>2, <2>1 DEF Added, ClampedHunk
<1>7. Diagonal(hunk)
  BY <1>1, <1>6 DEF Diagonal
<1>8. Sound(hunk, ByteType)
  <2>1. hunk.type \in {"SAME", "DIFF"}
    BY <1>6 DEF WorkingType
  <2>2. ASSUME NEW k \in 0 .. Common - 1, Covers(hunk, k)
        PROVE  hunk.type = ByteType[k]
    <3>1. k \in at[t] .. i - 1
      BY <1>1, <1>6, <2>2 DEF Covers
    <3>2. Equal(k) <=> mode[t] = "SYNC"
      BY <3>1 DEF StopsAt
    <3> QED
      BY <1>6, <3>2 DEF ByteType, WorkingType
  <2>3. DOMAIN ByteType = 0 .. Common - 1
    BY DEF ByteType
  <2> QED
    BY <2>1, <2>2, <2>3 DEF Sound
<1>9. startpos(j) \in Nat
  BY <1>1, StartposType
<1> HIDE DEF j, hunk
<1>10. Listing(Append(root[j], hunk), startpos(j), hunk.src_end + 1, ByteType)
  BY <1>1, <1>2, <1>3, <1>6, <1>7, <1>8, <1>9, ListingAppend
<1>11. hunk.src_end + 1 = i
  BY <1>6
<1>12. /\ \A k \in 1 .. Len(root[j]) : root'[j][k] = root[j][k]
       /\ Len(root'[j]) = Len(root[j]) + 1
  BY <1>1, <1>3, <1>5, AppendProperties
<1> QED
  BY <1>3, <1>5, <1>10, <1>11, <1>12 DEF j

\* A thread that comes to byte i disturbs no other job.
LEMMA OthersKept ==
  ASSUME TypeInv, RootInv, PoolInv, NEW t \in Thread, Running(t),
         NEW i \in Nat, i <= endpos(job[t]),
         UNCHANGED <<src, dst, pc, working_hunks, ptr, queue>>,
         Len(root') = Len(root),
         \A j \in 1 .. Len(root) : j # job[t] => root'[j] = root[j],
         Listing(root'[job[t]], startpos(job[t]), i, ByteType),
         \A u \in Thread : job'[u] \in {job[u], NoJob}
  PROVE  /\ RootInv' /\ BlockInv' /\ QueueInv'
         /\ \A u \in Thread \ {t} :
              job[u] # NoJob => job[u] \in 1 .. Len(root) /\ job[u] # job[t]
<1>1. Common' = Common /\ ByteType' = ByteType
  BY FilesKept
<1>2. /\ job[t] \in 1 .. Len(root) /\ endpos(job[t]) = BlockEnd(job[t], Common)
      /\ job[t] # NoJob /\ pc \in {"push", "wait"}
  BY RunningJob DEF Running
<1>3. RootInv'
  <2> SUFFICES ASSUME NEW j \in 1 .. Len(root)
               PROVE  \E to \in Nat : to <= BlockEnd(j, Common)
                                      /\ Listing(root'[j], startpos(j), to, ByteType)
    BY <1>1 DEF RootInv
  <2>1. CASE j = job[t]
    BY <1>2, <2>1
  <2>2. CASE j # job[t]
    BY <2>2 DEF RootInv
  <2> QED
    BY <2>1, <2>2
<1>4. BlockInv'
  BY <1>1 DEF PoolInv, BlockInv
<1>5. QueueInv'
  <2>1. working_hunks' = << >>
    BY <1>2 DEF PoolInv, QueueInv
  <2>2. ASSUME NEW k \in 1 .. Len(queue)
        PROVE  /\ root'[queue[k]] = << >>
               /\ \A u \in Thread : job'[u] # queue[k]
               /\ \A l \in 1 .. Len(queue) : queue[k] = queue[l] => k = l
    <3>1. /\ root[queue[k]] = << >>
          /\ \A u \in Thread : job[u] # queue[k]
          /\ \A l \in 1 .. Len(queue) : queue[k] = queue[l] => k = l
      BY <1>2 DEF PoolInv, QueueInv
    <3>2. queue[k] \in 1 .. Len(root) /\ queue[k] # NoJob
      <4>1. queue \in Seq(Nat \ {0}) /\ \A l \in DOMAIN queue : queue[l] <= Len(root)
        BY DEF TypeInv, TypeOK
      <4>2. DOMAIN queue = 1 .. Len(queue) /\ Len(root) \in Nat
        BY <4>1, LenProperties DEF TypeInv, TypeOK
      <4>3. queue[k] \in Nat \ {0} /\ queue[k] <= Len(root)
        BY <4>1, <4>2, ElementOfSeq
      <4> QED
        BY <4>2, <4>3, PoolAssumption
    <3> QED
      BY <3>1, <3>2
  <2> QED
    BY <2>1, <2>2 DEF QueueInv
<1>6. ASSUME NEW u \in Thread \ {t}, job[u] # NoJob
      PROVE  job[u] \in 1 .. Len(root) /\ job[u] # job[t]
  <2>1. DOMAIN root = 1 .. Len(root) /\ job[u] \in DOMAIN root
    BY <1>6, LenProperties DEF TypeInv, TypeOK
  <2>2. \A v \in Thread : job[v] = job[t] => v = t
    BY <1>2 DEF PoolInv, ThreadInv
  <2> QED
    BY <2>1, <2>2
<1> QED
  BY <1>3, <1>4, <1>5, <1>6

\* Where a stretch ends, the thread has listed it, and the next byte is of the
\* other kind.
LEMMA SwitchKeepsPool ==
  ASSUME TypeInv, RootInv, PoolInv, NEW t \in Thread, Switch(t)
  PROVE  RootInv' /\ PoolInv'
<1>1. PICK i \in at[t] .. endpos(job[t]) - 1 :
        /\ StopsAt(t, i)
        /\ IF mode[t] = "SYNC" /\ i = at[t] THEN UNCHANGED root ELSE insert_hunk_threaded(t, i)
        /\ at' = [at EXCEPT ![t] = i]
        /\ start' = [start EXCEPT ![t] = i]
  BY DEF Switch
<1>2. /\ Running(t) /\ pc \in {"push", "wait"} /\ job[t] # NoJob
      /\ mode' = [mode EXCEPT ![t] = IF @ = "SYNC" THEN "UNSYNCED_SIMPLE" ELSE "SYNC"]
      /\ UNCHANGED <<src, dst, pc, working_hunks, ptr, queue, job>>
  BY DEF Switch, Running
<1>3. Common' = Common /\ ByteType' = ByteType
  BY <1>2, FilesKept
<1>4. /\ job[t] \in 1 .. Len(root) /\ at[t] \in Nat
      /\ endpos(job[t]) = BlockEnd(job[t], Common) /\ endpos(job[t]) \in Nat
  BY <1>2, RunningJob
<1>5. i \in Nat /\ at[t] <= i /\ i < endpos(job[t]) /\ i <= endpos(job[t])
  BY <1>1, <1>4
<1>6. Equal(i) <=> mode[t] # "SYNC"
  BY <1>1, <1>5 DEF StopsAt
<1>7. /\ Listing(root[job[t]], startpos(job[t]), at[t], ByteType)
      /\ mode[t] = "UNSYNCED_SIMPLE" => ~Equal(at[t])
      /\ \A u \in Thread : job[u] = job[t] => u = t
  BY <1>2 DEF PoolInv, ThreadInv
<1>8. /\ at \in [Thread -> Nat] /\ start \in [Thread -> Nat]
      /\ mode \in [Thread -> {"SYNC", "UNSYNCED_SIMPLE"}]
  BY DEF TypeInv, TypeOK
<1>9. /\ Listing(root'[job[t]], startpos(job[t]), i, ByteType)
      /\ \A j \in 1 .. Len(root) : j # job[t] => root'[j] = root[j]
      /\ Len(root') = Len(root)
  <2>1. CASE mode[t] = "SYNC" /\ i = at[t]
    BY <1>1, <1>7, <2>1
  <2>2. CASE ~(mode[t] = "SYNC" /\ i = at[t])
    <3>1. i # at[t]
      BY <1>6, <1>7, <1>8, <2>2
    <3>2. at[t] < i /\ insert_hunk_threaded(t, i)
      BY <1>1, <1>4, <1>5, <2>2, <3>1
    <3> QED
      BY <1>1, <1>2, <1>5, <3>2, ThreadLists
  <2> QED
    BY <2>1, <2>2
<1>10. /\ RootInv' /\ BlockInv' /\ QueueInv'
       /\ \A u \in Thread \ {t} : job[u] # NoJob => job[u] \in 1 .. Len(root) /\ job[u] # job[t]
  <2>1. \A u \in Thread : job'[u] \in {job[u], NoJob}
    BY <1>2
  <2> QED
    BY <1>2, <1>5, <1>9, <2>1, OthersKept
<1>11. ThreadInv'
  <2> SUFFICES ASSUME NEW u \in Thread, job[u] # NoJob
               PROVE  /\ \A v \in Thread : job[v] = job[u] => v = u
                      /\ start'[u] = at'[u]
                      /\ Listing(root'[job[u]], startpos(job[u]), at'[u], ByteType)
                      /\ at'[u] < BlockEnd(job[u], Common)
                      /\ mode'[u] = "UNSYNCED_SIMPLE" => ~(Equal(at[u])')
    BY <1>2, <1>3 DEF ThreadInv
  <2>1. CASE u = t
    <3>1. at'[u] = i /\ start'[u] = i
      BY <1>1, <1>8, <2>1
    <3>2. mode'[u] = "UNSYNCED_SIMPLE" => mode[t] = "SYNC"
      BY <1>2, <1>8, <2>1
    <3>3. Equal(at[u])' = Equal(i)
      BY <1>2, <3>1 DEF Equal
    <3> QED
      BY <1>4, <1>5, <1>6, <1>7, <1>9, <2>1, <3>1, <3>2, <3>3
  <2>2. CASE u # t
    <3>1. at'[u] = at[u] /\ start'[u] = start[u] /\ mode'[u] = mode[u]
      BY <1>1, <1>2, <1>8, <2>2
    <3>2. root'[job[u]] = root[job[u]]
      BY <1>9, <1>10, <2>2
    <3>3. Equal(at[u])' = Equal(at[u])
      BY <1>2, <3>1 DEF Equal
    <3> QED
      BY <1>2, <3>1, <3>2, <3>3 DEF PoolInv, ThreadInv
  <2> QED
    BY <2>1, <2>2
<1>12. CompleteInv'
  <2> SUFFICES ASSUME NEW j \in 1 .. Len(root),
                      \A k \in 1 .. Len(queue) : queue[k] # j, \A u \in Thread : job[u] # j
               PROVE  Listing(root'[j], startpos(j), BlockEnd(j, Common), ByteType)
    BY <1>2, <1>3, <1>9 DEF CompleteInv
  <2>1. root'[j] = root[j]
    BY <1>9
  <2> QED
    BY <1>2, <2>1 DEF PoolInv, CompleteInv
<1> QED
  BY <1>10, <1>11, <1>12 DEF PoolInv

\* At the end of the block the job is complete.
LEMMA FinishKeepsPool ==
  ASSUME TypeInv, RootInv, PoolInv, NEW t \in Thread, Finish(t)
  PROVE  RootInv' /\ PoolInv'
<1> DEFINE i == endpos(job[t])
<1>1. /\ Running(t) /\ pc \in {"push", "wait"} /\ job[t] # NoJob
      /\ StopsAt(t, i) /\ insert_hunk_threaded(t, i)
      /\ at' = [at EXCEPT ![t] = i]
      /\ job' = [job EXCEPT ![t] = NoJob]
      /\ UNCHANGED <<src, dst, pc, working_hunks, ptr, queue, mode, start>>
  BY DEF Finish, Running
<1>2. Common' = Common /\ ByteType' = ByteType
  BY <1>1, FilesKept
<1>3. /\ job[t] \in 1 .. Len(root) /\ at[t] \in Nat /\ i = BlockEnd(job[t], Common) /\ i \in Nat
  BY <1>1, RunningJob
<1>4. at[t] < i
  BY <1>1, <1>3 DEF PoolInv, ThreadInv
<1>5. /\ at \in [Thread -> Nat] /\ job \in [Thread -> Nat \cup {NoJob}]
  BY DEF TypeInv, TypeOK
<1>6. i <= endpos(job[t])
  BY <1>3
<1>7. /\ Listing(root'[job[t]], startpos(job[t]), i, ByteType)
      /\ \A j \in 1 .. Len(root) : j # job[t] => root'[j] = root[j]
      /\ Len(root') = Len(root)
  BY <1>1, <1>3, <1>4, <1>6, ThreadLists
<1>8. /\ RootInv' /\ BlockInv' /\ QueueInv'
      /\ \A u \in Thread \ {t} : job[u] # NoJob => job[u] \in 1 .. Len(root) /\ job[u] # job[t]
  <2>1. \A u \in Thread : job'[u] \in {job[u], NoJob}
    BY <1>1, <1>5
  <2> QED
    BY <1>1, <1>3, <1>6, <1>7, <2>1, OthersKept
<1> HIDE DEF i
<1>9. ThreadInv'
  <2> SUFFICES ASSUME NEW u \in Thread, job'[u] # NoJob
               PROVE  /\ \A v \in Thread : job'[v] = job'[u] => v = u
                      /\ start'[u] = at'[u]
                      /\ Listing(root'[job'[u]], startpos(job'[u]), at'[u], ByteType)
                      /\ at'[u] < BlockEnd(job'[u], Common)
                      /\ mode'[u] = "UNSYNCED_SIMPLE" => ~(Equal(at[u])')
    BY <1>2 DEF ThreadInv
  <2>1. u # t
    BY <1>1, <1>5
  <2>2. at'[u] = at[u] /\ start'[u] = start[u] /\ mode'[u] = mode[u] /\ job'[u] = job[u]
    BY <1>1, <1>5, <2>1
  <2>3. root'[job[u]] = root[job[u]]
    BY <1>7, <1>8, <2>1, <2>2
  <2>4. Equal(at[u])' = Equal(at[u])
    BY <1>1, <2>2 DEF Equal
  <2>5. /\ \A v \in Thread : job[v] = job[u] => v = u
        /\ start[u] = at[u]
        /\ Listing(root[job[u]], startpos(job[u]), at[u], ByteType)
        /\ at[u] < BlockEnd(job[u], Common)
        /\ mode[u] = "UNSYNCED_SIMPLE" => ~Equal(at[u])
    BY <1>1, <2>2 DEF PoolInv, ThreadInv
  <2>6. \A v \in Thread : job'[v] = job'[u] => v = u
    BY <1>1, <1>5, <2>2, <2>5
  <2> QED
    BY <2>2, <2>3, <2>4, <2>5, <2>6
<1>10. CompleteInv'
  <2> SUFFICES ASSUME NEW j \in 1 .. Len(root),
                      \A k \in 1 .. Len(queue) : queue[k] # j, \A u \in Thread : job'[u] # j
               PROVE  Listing(root'[j], startpos(j), BlockEnd(j, Common), ByteType)
    BY <1>1, <1>2, <1>7 DEF CompleteInv
  <2>1. CASE j = job[t]
    BY <1>3, <1>7, <2>1
  <2>2. CASE j # job[t]
    <3>1. \A u \in Thread : job[u] # j
      BY <1>1, <1>5, <2>2
    <3>2. root'[j] = root[j]
      BY <1>7, <2>2
    <3> QED
      BY <1>1, <3>1, <3>2 DEF PoolInv, CompleteInv
  <2> QED
    BY <2>1, <2>2
<1> QED
  BY <1>8, <1>9, <1>10 DEF PoolInv

-----------------------------------------------------------------------------
\* When the pool is empty, every list is complete.
LEMMA ReturnStartsConcat ==
  ASSUME TypeInv, RootInv, PoolInv, Return
  PROVE  RootInv' /\ PoolInv' /\ ConcatInv'
<1>1. /\ pc = "wait" /\ queue = << >> /\ pc' = "concat" /\ data' = 1
      /\ \A t \in Thread : job[t] = NoJob
      /\ UNCHANGED <<src, dst, working_hunks, ptr, root>>
  BY DEF Return
<1>2. Common' = Common /\ ByteType' = ByteType
  BY <1>1, FilesKept
<1>3. Common \in Nat \ {0} /\ ptr \in Nat /\ Len(root) \in Nat
  BY CommonType, LenProperties DEF TypeInv, TypeOK, HunkListTypeOK
<1>4. RootInv'
  BY <1>1, <1>2 DEF RootInv
<1>5. PoolInv'
  BY <1>1, <1>2 DEF PoolInv, BlockInv, QueueInv, ThreadInv, CompleteInv
<1>6. 1 <= Len(root)
  <2>1. Common <= startpos(Len(root) + 1)
    BY <1>1, <1>3 DEF PoolInv, BlockInv
  <2>2. Len(root) = 0 => startpos(Len(root) + 1) = 0
    BY StartposFirst
  <2> QED
    BY <1>3, <2>1, <2>2
<1>7. \A j \in 1 .. Len(root) : Listing(root[j], startpos(j), BlockEnd(j, Common), ByteType)
  <2>1. Len(queue) = 0
    BY <1>1, EmptySeq
  <2>2. \A j \in 1 .. Len(root) : j # NoJob
    BY PoolAssumption
  <2> QED
    BY <1>1, <2>1, <2>2 DEF PoolInv, CompleteInv
<1>8. Listing(working_hunks, 0, startpos(1), ByteType)
  <2>1. working_hunks = << >>
    BY <1>1 DEF PoolInv, QueueInv
  <2> QED
    BY <2>1, StartposFirst, ListingEmpty
<1>9. ConcatInv'
  BY <1>1, <1>2, <1>3, <1>6, <1>7, <1>8 DEF ConcatInv
<1> QED
  BY <1>4, <1>5, <1>9

\* The list joined next begins where the lists joined so far end.
LEMMA ConcatKeepsPool ==
  ASSUME TypeInv, RootInv, PoolInv, ConcatInv, Concat
  PROVE  RootInv' /\ PoolInv' /\ ConcatInv' /\ SoundInv'
<1> DEFINE n == Len(root)
<1>1. /\ pc = "concat" /\ data <= n
      /\ working_hunks' = working_hunks \o root[data]
      /\ root' = [root EXCEPT ![data] = << >>]
      /\ data' = data + 1
      /\ UNCHANGED <<src, dst, pc, ptr>>
  BY DEF Concat
<1>2. Common' = Common /\ ByteType' = ByteType
  BY <1>1, FilesKept
<1>3. Common \in Nat /\ ptr \in Nat /\ n \in Nat /\ data \in Nat
  BY CommonType, LenProperties DEF TypeInv, TypeOK, HunkListTypeOK
<1>4. /\ data \in 1 .. n /\ data \in Nat \ {0}
      /\ root[data] \in Seq(Hunk) /\ working_hunks \in Seq(Hunk)
  <2>1. data \in 1 .. n
    BY <1>1, <1>3 DEF ConcatInv
  <2> QED
    BY <2>1, ElementOfSeq DEF TypeInv, TypeOK, HunkListTypeOK
<1>5. /\ Len(root') = n
      /\ root'[data] = << >> /\ \A j \in 1 .. n : j # data => root'[j] = root[j]
  <2>1. << >> \in Seq(Hunk)
    BY EmptySeq
  <2>2. root \in Seq(Seq(Hunk)) /\ DOMAIN root = 1 .. n
    BY LenProperties DEF TypeInv, TypeOK
  <2> QED
    BY <1>1, <1>4, <2>1, <2>2, ExceptSeq
<1>6. /\ startpos(data) \in Nat /\ startpos(data + 1) \in Nat /\ startpos(data) < startpos(data + 1)
  BY <1>4, StartposType
<1>7. /\ BlockEnd(data, Common) \in Nat
      /\ startpos(data) < Common => startpos(data) < BlockEnd(data, Common)
      /\ startpos(data + 1) <= Common => BlockEnd(data, Common) = startpos(data + 1)
      /\ Common <= startpos(data + 1) => BlockEnd(data, Common) = Common
  BY <1>3, <1>4, BlockEndType
<1>8. /\ \A j \in data .. n : Listing(root[j], startpos(j), BlockEnd(j, Common), ByteType)
      /\ Listing(working_hunks, 0, startpos(data), ByteType)
  BY <1>1 DEF ConcatInv
<1>9. /\ ptr <= Common /\ ~(ptr < Common)
      /\ ptr = Common => Common <= startpos(n + 1)
      /\ \A j \in 1 .. n : startpos(j) < Common
  BY <1>1 DEF PoolInv, BlockInv
<1> HIDE DEF n
<1>10. RootInv'
  <2> SUFFICES ASSUME NEW j \in 1 .. n
               PROVE  \E to \in Nat : to <= BlockEnd(j, Common)
                                      /\ Listing(root'[j], startpos(j), to, ByteType)
    BY <1>2, <1>5 DEF RootInv
  <2>1. CASE j = data
    <3>1. Listing(<< >>, startpos(j), startpos(j), ByteType)
      BY ListingEmpty
    <3>2. startpos(j) \in Nat /\ startpos(j) <= BlockEnd(j, Common)
      BY <1>6, <1>7, <1>9, <2>1
    <3> QED
      BY <1>5, <2>1, <3>1, <3>2
  <2>2. CASE j # data
    BY <1>5, <2>2 DEF RootInv, n
  <2> QED
    BY <2>1, <2>2
<1>11. PoolInv'
  <2>1. BlockInv'
    BY <1>1, <1>2, <1>5, <1>9 DEF BlockInv
  <2> QED
    BY <1>1, <2>1 DEF PoolInv, QueueInv, ThreadInv, CompleteInv
<1>12. BlockEnd(data, Common) = IF data + 1 <= n THEN startpos(data + 1) ELSE Common
  <2>1. CASE data + 1 <= n
    <3>1. startpos(data + 1) < Common
      BY <1>3, <1>4, <1>9, <2>1
    <3> QED
      BY <1>3, <1>6, <1>7, <2>1, <3>1
  <2>2. CASE ~(data + 1 <= n)
    <3>1. data = n
      BY <1>3, <1>4, <2>2
    <3>2. Common <= startpos(data + 1)
      BY <1>3, <1>9, <3>1
    <3> QED
      BY <1>7, <2>2, <3>2
  <2> QED
    BY <2>1, <2>2
<1>13. Listing(working_hunks', 0, BlockEnd(data, Common), ByteType)
  <2>1. Listing(root[data], startpos(data), BlockEnd(data, Common), ByteType)
    BY <1>3, <1>4, <1>8
  <2> QED
    BY <1>1, <1>4, <1>6, <1>7, <1>8, <2>1, ListingJoin
<1>14. ConcatInv'
  <2>1. data' \in 1 .. n + 1
    BY <1>1, <1>3, <1>4
  <2>2. ASSUME NEW j \in data' .. n
        PROVE  Listing(root'[j], startpos(j), BlockEnd(j, Common), ByteType)
    <3>1. j \in 1 .. n /\ j # data /\ j \in data .. n
      BY <1>1, <1>3, <1>4
    <3> QED
      BY <1>5, <1>8, <3>1
  <2>3. Listing(working_hunks', 0, IF data' <= n THEN startpos(data') ELSE Common, ByteType)
    BY <1>1, <1>12, <1>13
  <2> QED
    BY <1>1, <1>2, <1>5, <2>1, <2>2, <2>3 DEF ConcatInv
<1>15. SoundInv'
  BY <1>2, <1>13 DEF SoundInv, Listing
<1> QED
  BY <1>10, <1>11, <1>14, <1>15
-----------------------------------------------------------------------------
\* The hunks of s from the one at first on, as they are left for the tree:
\* only the last may differ in its ends, and it ends with the longer file.
Left(s, first, file1, file2) ==
  /\ \A i \in first .. Len(s) :
       /\ s[i].src_start <= s[i].src_end /\ s[i].dst_start <= s[i].dst_end
       /\ s[i].dst_start = s[i].src_start
       /\ i < Len(s) => s[i].dst_end = s[i].src_end /\ s[i + 1].src_start = s[i].src_end + 1
  /\ first <= Len(s) =>
       s[Len(s)].src_end >= file1.size - 1 /\ s[Len(s)].dst_end >= file2.size - 1

\* The list that is backtracked begins with the files.
BacktrackInv ==
  pc = "backtrack" =>
    /\ working_hunks # << >> /\ working_hunks[1].src_start = 0
    /\ Left(working_hunks, 1, src, dst)

\* The hunk of a node.
Node(n) == working_hunks[hunks[n].value]

\* The nodes go on from each other, and no two neighbours have the same type.
NodesInv ==
  \A n \in 1 .. Len(hunks) :
    /\ hunks[n].key = hunks[n].value /\ hunks[n].value < list
    /\ n < Len(hunks) => hunks[n].value < otherhunk /\ Node(n).dst_end = Node(n).src_end
    /\ Node(n).src_start = IF n = 1 THEN 0 ELSE Node(n - 1).src_end + 1
    /\ Node(n).src_start <= Node(n).src_end /\ Node(n).dst_start <= Node(n).dst_end
    /\ Node(n).dst_start = Node(n).src_start
    /\ n > 1 => Node(n - 1).type # Node(n).type
    /\ \A m \in 1 .. n - 1 : Node(m).src_end < Node(n).src_start

\* otherhunk is the last of them, where the next hunk of the list goes on.
LastInv ==
  /\ otherhunk = IF hunks = << >> THEN 0 ELSE hunks[Len(hunks)].value
  /\ list <= Len(working_hunks) =>
       /\ working_hunks[list].src_start
            = IF hunks = << >> THEN 0 ELSE working_hunks[otherhunk].src_end + 1
       /\ hunks # << >> =>
            working_hunks[otherhunk].dst_end = working_hunks[otherhunk].src_end
  /\ list > Len(working_hunks) =>
       /\ hunks # << >>
       /\ working_hunks[otherhunk].src_end >= src.size - 1
       /\ working_hunks[otherhunk].dst_end >= dst.size - 1

TreeInv ==
  pc \in {"tree", "done"} =>
    /\ list > 0 /\ NodesInv /\ LastInv /\ Left(working_hunks, list, src, dst)
    /\ pc = "done" => list > Len(working_hunks)

EndInv == BacktrackInv /\ TreeInv

\* The rest of the longer file goes on where the blocks end.
LEMMA RestReady ==
  ASSUME TypeInv, TypeInv', PoolInv, ConcatInv, SoundInv, Rest
  PROVE  SoundInv' /\ BacktrackInv'
<1> DEFINE n == Len(working_hunks)
           rest == ClampedHunk("DIFF", ptr, src.size, ptr, dst.size)
<1>1. /\ pc = "concat" /\ data > Len(root) /\ pc' = "backtrack"
      /\ working_hunks' = IF ptr = src.size /\ ptr = dst.size THEN working_hunks
                          ELSE Append(working_hunks, rest)
      /\ UNCHANGED <<src, dst>>
  BY DEF Rest, insert_hunk
<1>2. Common' = Common /\ ByteType' = ByteType
  BY <1>1, FilesKept
<1>3. /\ Common \in Nat \ {0} /\ Common <= src.size /\ Common <= dst.size
      /\ Common = src.size \/ Common = dst.size
      /\ src.size \in Nat /\ dst.size \in Nat
  BY CommonType, FileBytes DEF TypeInv, TypeOK, HunkListTypeOK
<1>4. ptr = Common
  <2>1. ptr \in Nat
    BY DEF TypeInv, TypeOK
  <2>2. ptr <= Common /\ ~(ptr < Common)
    BY <1>1 DEF PoolInv, BlockInv
  <2> QED
    BY <1>3, <2>1, <2>2
<1>5. Listing(working_hunks, 0, Common, ByteType)
  <2>1. ~(data <= Len(root))
    BY <1>1, LenProperties DEF TypeInv, TypeOK
  <2> QED
    BY <1>1, <2>1 DEF ConcatInv
<1>6. /\ working_hunks \in Seq(Hunk) /\ n \in Nat
      /\ \A i \in 1 .. n : working_hunks[i] \in Hunk
  BY LenProperties, ElementOfSeq DEF TypeInv, TypeOK, HunkListTypeOK
<1>7. /\ working_hunks # << >> /\ n # 0 /\ working_hunks[n].src_end + 1 = Common
  <2>1. working_hunks # << >>
    BY <1>3, <1>5 DEF Listing, Reached
  <2> QED
    BY <1>5, <1>6, <2>1, EmptySeq DEF Listing, Reached
<1>8. \A i \in 1 .. n :
        /\ working_hunks[i].src_start = IF i = 1 THEN 0 ELSE working_hunks[i - 1].src_end + 1
        /\ working_hunks[i].src_start <= working_hunks[i].src_end
        /\ working_hunks[i].dst_start = working_hunks[i].src_start
        /\ working_hunks[i].dst_end = working_hunks[i].src_end
  BY <1>5 DEF Listing, Diagonal
<1>9. /\ rest \in Hunk /\ rest.type = "DIFF"
      /\ rest.src_start = Common /\ rest.dst_start = Common
      /\ rest.src_end = src.size /\ rest.dst_end = dst.size
  <2>1. rest = [type |-> "DIFF", src_start |-> Common, src_end |-> src.size,
                dst_start |-> Common, dst_end |-> dst.size]
    BY <1>3, <1>4 DEF ClampedHunk
  <2> QED
    BY <1>3, <2>1 DEF Hunk, HunkType
<1>10. \A i \in 1 .. n : i < n => working_hunks[i + 1].src_start = working_hunks[i].src_end + 1
  <2> SUFFICES ASSUME NEW i \in 1 .. n, i < n
               PROVE  working_hunks[i + 1].src_start = working_hunks[i].src_end + 1
    OBVIOUS
  <2>1. i + 1 \in 1 .. n /\ i + 1 # 1 /\ (i + 1) - 1 = i
    BY <1>6
  <2> QED
    BY <1>8, <2>1
<1> HIDE DEF n, rest
<1>11. CASE ptr = src.size /\ ptr = dst.size
  <2>1. working_hunks' = working_hunks
    BY <1>1, <1>11
  <2>2. SoundInv'
    BY <1>2, <2>1 DEF SoundInv
  <2>3. working_hunks[n].src_end >= src.size - 1 /\ working_hunks[n].dst_end >= dst.size - 1
    <3>1. n \in 1 .. n /\ working_hunks[n].src_end \in Nat
      BY <1>6, <1>7, SMTT(30) DEF Hunk
    <3>2. working_hunks[n].dst_end = working_hunks[n].src_end
      BY <1>8, <3>1
    <3> QED
      BY <1>4, <1>7, <1>11, <3>1, <3>2
  <2>4. Left(working_hunks, 1, src, dst)
    BY <1>8, <1>10, <2>3 DEF Left, n
  <2>5. working_hunks[1].src_start = 0
    BY <1>6, <1>7, <1>8
  <2> QED
    BY <1>1, <1>7, <2>1, <2>2, <2>4, <2>5 DEF BacktrackInv
<1>12. CASE ~(ptr = src.size /\ ptr = dst.size)
  <2> DEFINE s == Append(working_hunks, rest)
  <2>1. /\ working_hunks' = s /\ s \in Seq(Hunk) /\ Len(s) = n + 1
        /\ \A i \in 1 .. n : s[i] = working_hunks[i]
        /\ s[n + 1] = rest
    BY <1>1, <1>6, <1>9, <1>12, AppendProperties DEF n
  <2> HIDE DEF s
  <2>2. Sound(rest, ByteType)
    <3>1. ASSUME NEW k \in DOMAIN ByteType PROVE ~Covers(rest, k)
      <4>1. k \in 0 .. Common - 1
        BY DEF ByteType
      <4> QED
        BY <1>3, <1>9, <4>1 DEF Covers
    <3> QED
      BY <1>9, <3>1 DEF Sound
  <2>3. SoundInv'
    <3>1. \A i \in 1 .. n + 1 : Sound(s[i], ByteType)
      <4>1. \A i \in 1 .. n : Sound(s[i], ByteType)
        BY <2>1 DEF SoundInv, n
      <4>2. \A i \in 1 .. n + 1 : i \in 1 .. n \/ i = n + 1
        BY <1>6
      <4> QED
        BY <2>1, <2>2, <4>1, <4>2
    <3> QED
      BY <1>2, <2>1, <3>1 DEF SoundInv
  <2>4. ASSUME NEW i \in 1 .. n + 1
        PROVE  /\ s[i].src_start <= s[i].src_end /\ s[i].dst_start <= s[i].dst_end
               /\ s[i].dst_start = s[i].src_start
               /\ i < n + 1 => s[i].dst_end = s[i].src_end /\ s[i + 1].src_start = s[i].src_end + 1
    <3>1. CASE i \in 1 .. n - 1
      <4>1. i \in 1 .. n /\ i + 1 \in 1 .. n /\ i < n
        BY <1>6, <3>1
      <4>2. s[i] = working_hunks[i] /\ s[i + 1] = working_hunks[i + 1]
        BY <2>1, <4>1
      <4> QED
        BY <1>8, <1>10, <4>1, <4>2
    <3>2. CASE i = n
      <4>1. n \in 1 .. n /\ s[i] = working_hunks[n] /\ s[i + 1] = rest
        BY <1>6, <1>7, <2>1, <3>2
      <4> QED
        BY <1>7, <1>8, <1>9, <4>1
    <3>3. CASE i = n + 1
      BY <1>3, <1>9, <2>1, <3>3
    <3> QED
      BY <1>6, <3>1, <3>2, <3>3
  <2>5. s[n + 1].src_end >= src.size - 1 /\ s[n + 1].dst_end >= dst.size - 1
    BY <1>3, <1>9, <2>1
  <2>6. Left(s, 1, src, dst)
    BY <2>1, <2>4, <2>5 DEF Left
  <2>7. s[1].src_start = 0 /\ s # << >>
    <3>1. 1 \in 1 .. n /\ n + 1 # 0
      BY <1>6, <1>7
    <3> QED
      BY <1>8, <2>1, <3>1, EmptySeq
  <2> QED
    BY <1>1, <2>1, <2>3, <2>6, <2>7 DEF BacktrackInv
<1> QED
  BY <1>11, <1>12

\* No hunk is indexed: backtracking only walks the list, and the tree starts
\* empty.
LEMMA BacktrackKeepsEnd ==
  ASSUME TypeInv, SoundInv, EndInv, backtrack_hunks, pc = "backtrack"
  PROVE  /\ UNCHANGED <<src, dst, working_hunks>> /\ pc' \in {"backtrack", "tree"}
         /\ EndInv'
<1>1. ~AtIndexed
  <2>1. ASSUME AtIndexed PROVE FALSE
    <3>1. list \in 1 .. Len(working_hunks) /\ working_hunks[list].type = "SAME_INDEXED"
      BY <2>1, LenProperties DEF AtIndexed, TypeInv, HunkListInv, HunkListTypeOK
    <3> QED
      BY <3>1 DEF SoundInv, Sound
  <2> QED
    BY <2>1
<1>2. CASE BacktrackSkip
  BY <1>2 DEF BacktrackSkip, EndInv, BacktrackInv, TreeInv
<1>3. CASE BacktrackDone
  <2>1. /\ pc' = "tree" /\ list' = 1 /\ otherhunk' = 0
        /\ UNCHANGED <<src, dst, working_hunks, hunks>>
    BY <1>3 DEF BacktrackDone
  <2>2. hunks = << >> /\ Len(hunks) = 0
    BY EmptySeq DEF TypeInv, HunkListInv
  <2>3. /\ working_hunks # << >> /\ working_hunks[1].src_start = 0
        /\ Left(working_hunks, 1, src, dst)
    BY DEF EndInv, BacktrackInv
  <2>4. 1 <= Len(working_hunks)
    BY <2>3, EmptySeq, LenProperties DEF TypeInv, HunkListInv, HunkListTypeOK
  <2>5. NodesInv'
    BY <2>1, <2>2 DEF NodesInv
  <2>6. ~(1 > Len(working_hunks))
    BY <2>4, LenProperties DEF TypeInv, HunkListInv, HunkListTypeOK
  <2>7. LastInv'
    BY <2>1, <2>2, <2>3, <2>6 DEF LastInv
  <2>8. Left(working_hunks, list, src, dst)'
    BY <2>1, <2>3
  <2> QED
    BY <2>1, <2>5, <2>7, <2>8 DEF EndInv, BacktrackInv, TreeInv
<1> QED
  BY <1>1, <1>2, <1>3 DEF backtrack_hunks, BacktrackHunk, BacktrackFault, TreeCoalesce,
                          TreeInsert, TreeDone, AtTree

\* The nodes and the list are made of hunks, and a node points into the list
\* before the element that is moved next.
LEMMA NodeTypes ==
  ASSUME TypeInv, EndInv, pc \in {"tree", "done"}
  PROVE  /\ Len(hunks) \in Nat /\ Len(working_hunks) \in Nat /\ list \in Nat \ {0}
         /\ hunks = << >> <=> Len(hunks) = 0
         /\ \A i \in 1 .. Len(working_hunks) :
              /\ working_hunks[i] \in Hunk
              /\ working_hunks[i].src_start \in Nat /\ working_hunks[i].src_end \in Nat
              /\ working_hunks[i].dst_start \in Nat /\ working_hunks[i].dst_end \in Nat
         /\ \A n \in 1 .. Len(hunks) :
              /\ hunks[n].value \in 1 .. Len(working_hunks) /\ hunks[n].value \in 1 .. list - 1
              /\ Node(n) \in Hunk
              /\ Node(n).src_start \in Nat /\ Node(n).src_end \in Nat
              /\ Node(n).dst_start \in Nat /\ Node(n).dst_end \in Nat
<1>1. /\ working_hunks \in Seq(Hunk) /\ list \in Nat
      /\ hunks \in Seq([key : 1 .. Len(working_hunks), value : 1 .. Len(working_hunks)])
  BY DEF TypeInv, HunkListInv, HunkListTypeOK
<1>2. list > 0 /\ NodesInv
  BY DEF EndInv, TreeInv
<1>3. Len(hunks) \in Nat /\ Len(working_hunks) \in Nat
  BY <1>1, LenProperties
<1>4. hunks = << >> <=> Len(hunks) = 0
  BY <1>1, EmptySeq
<1>5. ASSUME NEW i \in 1 .. Len(working_hunks)
      PROVE  /\ working_hunks[i] \in Hunk
             /\ working_hunks[i].src_start \in Nat /\ working_hunks[i].src_end \in Nat
             /\ working_hunks[i].dst_start \in Nat /\ working_hunks[i].dst_end \in Nat
  <2>1. working_hunks[i] \in Hunk
    BY <1>1, ElementOfSeq
  <2> QED
    BY <2>1 DEF Hunk
<1>6. ASSUME NEW n \in 1 .. Len(hunks)
      PROVE  hunks[n].value \in 1 .. Len(working_hunks) /\ hunks[n].value \in 1 .. list - 1
  <2>1. hunks[n] \in [key : 1 .. Len(working_hunks), value : 1 .. Len(working_hunks)]
    BY <1>1, <1>6, ElementOfSeq
  <2>2. hunks[n].value \in 1 .. Len(working_hunks) /\ hunks[n].value < list
    BY <1>2, <2>1 DEF NodesInv
  <2> QED
    BY <1>1, <2>2
<1> QED
  BY <1>1, <1>2, <1>3, <1>4, <1>5, <1>6, SMTT(30) DEF Node

\* A hunk that goes on where the last node ends, with its type, makes the node
\* longer: the others are what they were.
LEMMA CoalesceKeepsEnd ==
  ASSUME TypeInv, SoundInv, EndInv, TreeCoalesce
  PROVE  SoundInv' /\ EndInv'
<1> DEFINE o == otherhunk
           len == Len(hunks)
           n == Len(working_hunks)
           hunk == working_hunks[list]
           longer == [working_hunks[o] EXCEPT !.src_end = hunk.src_end,
                                              !.dst_end = hunk.dst_end]
<1>1. /\ pc = "tree" /\ list <= n /\ o # 0
      /\ working_hunks[o].type = hunk.type
      /\ hunk.src_start = working_hunks[o].src_end + 1
      /\ hunk.dst_start = working_hunks[o].dst_end + 1
      /\ list' = list + 1
      /\ UNCHANGED <<src, dst, pc, otherhunk, hunks>>
  BY DEF TreeCoalesce, AtTree, Coalesces, Continues
<1>2. Common' = Common /\ ByteType' = ByteType
  BY <1>1, FilesKept
<1>3. /\ len \in Nat /\ n \in Nat /\ list \in 1 .. n
      /\ hunks = << >> <=> len = 0
      /\ \A i \in 1 .. n :
           /\ working_hunks[i] \in Hunk
           /\ working_hunks[i].src_start \in Nat /\ working_hunks[i].src_end \in Nat
           /\ working_hunks[i].dst_start \in Nat /\ working_hunks[i].dst_end \in Nat
      /\ \A m \in 1 .. len :
           /\ hunks[m].value \in 1 .. n /\ hunks[m].value \in 1 .. list - 1
           /\ Node(m) \in Hunk
           /\ Node(m).src_start \in Nat /\ Node(m).src_end \in Nat
           /\ Node(m).dst_start \in Nat /\ Node(m).dst_end \in Nat
  BY <1>1, NodeTypes
<1>4. NodesInv /\ LastInv /\ Left(working_hunks, list, src, dst)
  BY <1>1 DEF EndInv, TreeInv
<1>5. len # 0 /\ o = hunks[len].value /\ len \in 1 .. len /\ o \in 1 .. list - 1 /\ o \in 1 .. n
  BY <1>1, <1>3, <1>4 DEF LastInv
<1>6. working_hunks' = [working_hunks EXCEPT ![o] = longer]
  BY <1>3, <1>5 DEF TreeCoalesce, Hunk
<1>7. /\ Len(working_hunks') = n
      /\ working_hunks'[o] = longer
      /\ \A i \in 1 .. n : i # o => working_hunks'[i] = working_hunks[i]
  <2>1. working_hunks \in Seq(Hunk) /\ longer \in Hunk
    BY <1>3, <1>5 DEF Hunk, TypeInv, HunkListInv, HunkListTypeOK
  <2> HIDE DEF longer, hunk, o
  <2>2. DOMAIN working_hunks = 1 .. n
    BY <2>1, LenProperties
  <2>3. Len(working_hunks') = n
    BY <1>5, <1>6, <2>1, ExceptSeq
  <2>4. \A i \in 1 .. n : working_hunks'[i] = IF i = o THEN longer ELSE working_hunks[i]
    BY <1>6, <2>2
  <2> QED
    BY <1>5, <2>3, <2>4
<1>8. /\ longer.type = hunk.type
      /\ longer.src_start = working_hunks[o].src_start /\ longer.src_end = hunk.src_end
      /\ longer.dst_start = working_hunks[o].dst_start /\ longer.dst_end = hunk.dst_end
  BY <1>1, <1>3, <1>5 DEF Hunk
<1>9. /\ hunk.src_start <= hunk.src_end /\ hunk.dst_start <= hunk.dst_end
      /\ hunk.dst_start = hunk.src_start
      /\ list < n => hunk.dst_end = hunk.src_end
                     /\ working_hunks[list + 1].src_start = hunk.src_end + 1
      /\ working_hunks[n].src_end >= src.size - 1 /\ working_hunks[n].dst_end >= dst.size - 1
  BY <1>3, <1>4 DEF Left
<1>10. Node(len) = working_hunks[o]
  BY <1>5 DEF Node
<1> HIDE DEF longer, hunk, o, len, n
<1>11. SoundInv'
  <2>1. Sound(working_hunks[o], ByteType) /\ Sound(hunk, ByteType)
    BY <1>3, <1>5 DEF SoundInv, n, hunk
  <2>2. ASSUME NEW k \in DOMAIN ByteType, Covers(longer, k)
        PROVE  Covers(working_hunks[o], k) \/ Covers(hunk, k)
    <3>1. k \in Int
      <4>1. k \in 0 .. Common - 1
        BY DEF ByteType
      <4> QED
        BY <4>1
    <3> QED
      BY <1>1, <1>3, <1>5, <1>8, <2>2, <3>1 DEF Covers
  <2>3. Sound(longer, ByteType)
    BY <1>1, <1>8, <2>1, <2>2 DEF Sound
  <2> QED
    BY <1>2, <1>7, <2>3 DEF SoundInv, n
<1>12. \A m \in 1 .. len : Node(m)' = IF m = len THEN longer ELSE Node(m)
  <2> SUFFICES ASSUME NEW m \in 1 .. len
               PROVE  Node(m)' = IF m = len THEN longer ELSE Node(m)
    OBVIOUS
  <2>1. Node(m)' = working_hunks'[hunks[m].value] /\ Node(m) = working_hunks[hunks[m].value]
    BY <1>1 DEF Node
  <2>2. m < len => hunks[m].value < o
    BY <1>4 DEF NodesInv, len, o
  <2>3. hunks[m].value \in 1 .. n /\ (m < len => hunks[m].value # o)
    BY <1>3, <1>5, <2>2
  <2>4. m = len \/ m < len
    BY <1>3
  <2> QED
    BY <1>5, <1>7, <2>1, <2>3, <2>4
<1>13. NodesInv'
  <2> SUFFICES ASSUME NEW m \in 1 .. len
      PROVE  /\ hunks[m].key = hunks[m].value /\ hunks[m].value < list + 1
             /\ m < len => hunks[m].value < o /\ Node(m)'.dst_end = Node(m)'.src_end
             /\ Node(m)'.src_start = IF m = 1 THEN 0 ELSE Node(m - 1)'.src_end + 1
             /\ Node(m)'.src_start <= Node(m)'.src_end /\ Node(m)'.dst_start <= Node(m)'.dst_end
             /\ Node(m)'.dst_start = Node(m)'.src_start
             /\ m > 1 => Node(m - 1)'.type # Node(m)'.type
             /\ \A l \in 1 .. m - 1 : Node(l)'.src_end < Node(m)'.src_start
    BY <1>1 DEF NodesInv, len, o
  <2>1. /\ hunks[m].key = hunks[m].value /\ hunks[m].value < list
        /\ m < len => hunks[m].value < o /\ Node(m).dst_end = Node(m).src_end
        /\ Node(m).src_start = IF m = 1 THEN 0 ELSE Node(m - 1).src_end + 1
        /\ Node(m).src_start <= Node(m).src_end /\ Node(m).dst_start <= Node(m).dst_end
        /\ Node(m).dst_start = Node(m).src_start
        /\ m > 1 => Node(m - 1).type # Node(m).type
        /\ \A l \in 1 .. m - 1 : Node(l).src_end < Node(m).src_start
    BY <1>4 DEF NodesInv, len, o
  <2>2. \A l \in 1 .. m - 1 : l \in 1 .. len /\ l < len /\ Node(l)' = Node(l)
    <3> SUFFICES ASSUME NEW l \in 1 .. m - 1
                 PROVE  l \in 1 .. len /\ l < len /\ Node(l)' = Node(l)
      OBVIOUS
    <3>1. l \in 1 .. len /\ l < len /\ l # len
      BY <1>3
    <3> QED
      BY <1>12, <3>1
  <2>3. m > 1 => m - 1 \in 1 .. m - 1
    BY <1>3
  <2>4. hunks[m].value < list + 1
    BY <1>3
  <2>5. CASE m < len
    <3>1. Node(m)' = Node(m)
      BY <1>3, <1>12, <2>5
    <3> QED
      BY <2>1, <2>2, <2>3, <2>4, <3>1
  <2>6. CASE m = len
    <3>1. /\ Node(m)' = longer /\ Node(m) = working_hunks[o] /\ ~(m < len)
          /\ longer.src_start = Node(m).src_start /\ longer.dst_start = Node(m).dst_start
          /\ longer.type = Node(m).type
      <4>1. Node(m)' = longer /\ Node(m) = working_hunks[o]
        BY <1>10, <1>12, <2>6
      <4>2. ~(m < len)
        BY <1>3, <2>6
      <4> QED
        BY <1>1, <1>8, <4>1, <4>2
    <3>2. longer.src_start <= longer.src_end /\ longer.dst_start <= longer.dst_end
      <4>1. /\ Node(m).src_start \in Nat /\ Node(m).src_end \in Nat
            /\ Node(m).dst_start \in Nat /\ Node(m).dst_end \in Nat
        BY <1>3
      <4>2. /\ hunk.src_start \in Nat /\ hunk.src_end \in Nat
            /\ hunk.dst_start \in Nat /\ hunk.dst_end \in Nat
        BY <1>3 DEF hunk
      <4>3. hunk.src_start = Node(m).src_end + 1 /\ hunk.dst_start = Node(m).dst_end + 1
        BY <1>1, <3>1
      <4> QED
        BY <1>8, <1>9, <2>1, <3>1, <4>1, <4>2, <4>3
    <3> QED
      BY <2>1, <2>2, <2>3, <2>4, <3>1, <3>2
  <2> QED
    BY <1>3, <2>5, <2>6
<1>14. ASSUME NEW i \in list .. n PROVE working_hunks'[i] = working_hunks[i]
  BY <1>3, <1>5, <1>7
<1>15. LastInv'
  <2>1. o' = hunks'[len].value
    BY <1>1, <1>5 DEF o
  <2>2. ASSUME list + 1 <= n
        PROVE  /\ working_hunks'[list + 1].src_start = longer.src_end + 1
               /\ longer.dst_end = longer.src_end
    <3>1. list + 1 \in list .. n /\ list < n
      BY <1>3, <2>2
    <3> QED
      BY <1>8, <1>9, <1>14, <3>1
  <2>3. ASSUME list + 1 > n
        PROVE  longer.src_end >= src.size - 1 /\ longer.dst_end >= dst.size - 1
    <3>1. list = n
      BY <1>3, <2>3
    <3> QED
      BY <1>8, <1>9, <3>1 DEF hunk
  <2> QED
    BY <1>1, <1>3, <1>5, <1>7, <2>1, <2>2, <2>3 DEF LastInv, o, len, n
<1>16. Left(working_hunks', list + 1, src, dst)
  <2>1. ASSUME NEW i \in list + 1 .. n
        PROVE  /\ i \in list .. n /\ working_hunks'[i] = working_hunks[i]
               /\ i < n => working_hunks'[i + 1] = working_hunks[i + 1]
    <3>1. i \in list .. n
      BY <1>3
    <3>2. i < n => i + 1 \in list .. n
      BY <1>3
    <3> QED
      BY <1>14, <3>1, <3>2
  <2>2. \/ /\ working_hunks'[n].src_end >= src.size - 1
           /\ working_hunks'[n].dst_end >= dst.size - 1
        \/ ~(list + 1 <= n)
    <3>1. list + 1 <= n => n \in list + 1 .. n
      BY <1>3
    <3> QED
      BY <1>9, <2>1, <3>1
  <2> QED
    BY <1>4, <1>7, <2>1, <2>2 DEF Left, n
<1>17. Left(working_hunks, list, src, dst)'
  BY <1>1, <1>16
<1>18. list' > 0
  BY <1>1, <1>3
<1> QED
  BY <1>1, <1>11, <1>13, <1>15, <1>17, <1>18 DEF EndInv, BacktrackInv, TreeInv

\* What is put behind the last element of a sequence is appended.
LEMMA InsertedLast ==
  ASSUME NEW S, NEW s \in Seq(S), NEW elt \in S
  PROVE  SubSeq(s, 1, Len(s)) \o <<elt>> \o SubSeq(s, Len(s) + 1, Len(s)) = Append(s, elt)
<1>1. SubSeq(s, 1, Len(s)) = s
  BY SubSeqFull
<1>2. SubSeq(s, Len(s) + 1, Len(s)) = << >>
  BY LenProperties, SubSeqEmpty
<1>3. s \o <<elt>> = Append(s, elt) /\ Append(s, elt) \in Seq(S)
  BY AppendIsConcat, AppendProperties
<1>4. Append(s, elt) \o << >> = Append(s, elt)
  BY <1>3, ConcatEmptySeq
<1> QED
  BY <1>1, <1>2, <1>3, <1>4

\* Any other hunk begins behind all nodes and becomes the last one: no key of
\* the tree is equal to it, and the place of its key is the end.
LEMMA InsertKeepsEnd ==
  ASSUME TypeInv, EndInv, TreeInsert
  PROVE  EndInv'
<1> DEFINE o == otherhunk
           len == Len(hunks)
           n == Len(working_hunks)
           hunk == working_hunks[list]
           node == [key |-> list, value |-> list]
<1>1. /\ pc = "tree" /\ list <= n /\ otherhunk' = list /\ list' = list + 1
      /\ UNCHANGED <<src, dst, pc, working_hunks>>
      /\ ~Coalesces
  BY DEF TreeInsert, AtTree
<1>2. /\ len \in Nat /\ n \in Nat /\ list \in 1 .. n
      /\ hunks = << >> <=> len = 0
      /\ \A i \in 1 .. n :
           /\ working_hunks[i].src_start \in Nat /\ working_hunks[i].src_end \in Nat
           /\ working_hunks[i].dst_start \in Nat /\ working_hunks[i].dst_end \in Nat
      /\ \A m \in 1 .. len :
           /\ hunks[m].value \in 1 .. n /\ hunks[m].value \in 1 .. list - 1
           /\ Node(m).src_start \in Nat /\ Node(m).src_end \in Nat
           /\ Node(m).dst_start \in Nat /\ Node(m).dst_end \in Nat
  BY <1>1, NodeTypes
<1>3. NodesInv /\ LastInv /\ Left(working_hunks, list, src, dst)
  BY <1>1 DEF EndInv, TreeInv
<1>4. /\ hunk.src_start = IF len = 0 THEN 0 ELSE working_hunks[o].src_end + 1
      /\ len # 0 => working_hunks[o].dst_end = working_hunks[o].src_end
      /\ len # 0 => o = hunks[len].value /\ o # 0
      /\ len # 0 => Node(len) = working_hunks[o]
  <2>1. len # 0 => len \in 1 .. len
    BY <1>2
  <2>2. len # 0 => o = hunks[len].value
    BY <1>2, <1>3 DEF LastInv
  <2>3. len # 0 => o # 0
    BY <1>2, <2>1, <2>2
  <2> QED
    BY <1>1, <1>2, <1>3, <2>2, <2>3 DEF LastInv, Node
<1>5. /\ hunk.src_start <= hunk.src_end /\ hunk.dst_start <= hunk.dst_end
      /\ hunk.dst_start = hunk.src_start
      /\ hunk.src_start \in Nat /\ hunk.src_end \in Nat
      /\ hunk.dst_start \in Nat /\ hunk.dst_end \in Nat
      /\ list < n => hunk.dst_end = hunk.src_end
                     /\ working_hunks[list + 1].src_start = hunk.src_end + 1
      /\ working_hunks[n].src_end >= src.size - 1 /\ working_hunks[n].dst_end >= dst.size - 1
  BY <1>2, <1>3 DEF Left
<1>6. \A m \in 1 .. len : hunks[m].key = hunks[m].value
  BY <1>3 DEF NodesInv
<1>7. len # 0 => Node(len).type # hunk.type
  <2>1. otherhunk # 0 => ~Continues(hunk, working_hunks[o])
    BY <1>1 DEF Coalesces
  <2>2. len # 0 => hunk.dst_start = working_hunks[o].dst_end + 1
    BY <1>4, <1>5
  <2> QED
    BY <1>4, <2>1, <2>2 DEF Continues
<1> HIDE DEF hunk, o, len, n, node
<1>8. ASSUME NEW m \in 1 .. len PROVE Node(m).src_end < hunk.src_start
  <2>1. /\ len # 0 /\ len \in 1 .. len
    BY <1>2
  <2>2. hunk.src_start = Node(len).src_end + 1
    BY <1>4, <2>1
  <2>3. CASE m = len
    BY <1>2, <2>2, <2>3
  <2>4. CASE m # len
    <3>1. m \in 1 .. len - 1
      BY <1>2, <2>4
    <3>2. /\ Node(m).src_end < Node(len).src_start /\ Node(len).src_start <= Node(len).src_end
      BY <1>3, <2>1, <3>1 DEF NodesInv, len
    <3> QED
      BY <1>2, <2>1, <2>2, <3>2
  <2> QED
    BY <2>3, <2>4
<1>9. ASSUME NEW m \in 1 .. len PROVE Compare(m) > 0
  <2>1. Node(m).src_start <= Node(m).src_end
    BY <1>3 DEF NodesInv, len
  <2>2. Node(m).src_start < hunk.src_start /\ Node(m).src_start \in Nat
    BY <1>2, <1>5, <1>8, <2>1
  <2>3. working_hunks[hunks[m].key] = Node(m)
    BY <1>6 DEF Node
  <2>4. Compare(m) = hunk.src_start - Node(m).src_start
    <3>1. hunk.src_start # Node(m).src_start
      BY <1>5, <2>2
    <3> QED
      BY <2>3, <3>1 DEF Compare, compare_diff_hunks, hunk
  <2> QED
    BY <1>5, <2>2, <2>4
<1>10. PICK p \in 0 .. len :
         /\ \A m \in p + 1 .. len : Compare(m) < 0
         /\ hunks' = SubSeq(hunks, 1, p) \o <<node>> \o SubSeq(hunks, p + 1, len)
  <2>1. ASSUME NEW m \in 1 .. len, Compare(m) = 0 PROVE FALSE
    BY <1>9, <2>1
  <2>2. DOMAIN hunks = 1 .. len
    BY LenProperties DEF len, TypeInv, HunkListInv, HunkListTypeOK
  <2> QED
    BY <2>1, <2>2 DEF TreeInsert, len, node
<1>11. p = len
  <2>1. ASSUME p # len PROVE FALSE
    <3>1. len \in p + 1 .. len /\ len \in 1 .. len
      BY <1>2, <2>1
    <3>2. Compare(len) < 0 /\ Compare(len) > 0
      BY <1>9, <1>10, <3>1
    <3>3. Compare(len) \in Int
      <4>1. working_hunks[hunks[len].key] = Node(len) /\ working_hunks[list] = hunk
        BY <1>6, <3>1 DEF Node, hunk
      <4>2. /\ Node(len).src_start \in Nat /\ Node(len).src_end \in Nat
        BY <1>2, <3>1
      <4> QED
        BY <1>5, <4>1, <4>2 DEF Compare, compare_diff_hunks
    <3> QED
      BY <3>2, <3>3
  <2> QED
    BY <2>1
<1>12. /\ Len(hunks') = len + 1
       /\ \A m \in 1 .. len : hunks'[m] = hunks[m]
       /\ hunks'[len + 1] = node
  <2> DEFINE N == [key : 1 .. n, value : 1 .. n]
  <2>1. hunks \in Seq(N)
    BY DEF n, TypeInv, HunkListInv, HunkListTypeOK
  <2>2. node \in N
    BY <1>2 DEF node
  <2> HIDE DEF N
  <2>3. hunks' = Append(hunks, node)
    <3>1. hunks' = SubSeq(hunks, 1, Len(hunks)) \o <<node>>
                     \o SubSeq(hunks, Len(hunks) + 1, Len(hunks))
      BY <1>10, <1>11 DEF len
    <3> QED
      BY <2>1, <2>2, <3>1, InsertedLast
  <2> QED
    BY <2>1, <2>2, <2>3, AppendProperties DEF len
<1>13. \A m \in 1 .. len + 1 : Node(m)' = IF m = len + 1 THEN hunk ELSE Node(m)
  <2> SUFFICES ASSUME NEW m \in 1 .. len + 1
               PROVE  Node(m)' = IF m = len + 1 THEN hunk ELSE Node(m)
    OBVIOUS
  <2>1. Node(m)' = working_hunks[hunks'[m].value]
    BY <1>1 DEF Node
  <2>2. CASE m = len + 1
    BY <1>12, <2>1, <2>2 DEF node, hunk
  <2>3. CASE m # len + 1
    <3>1. m \in 1 .. len
      BY <1>2, <2>3
    <3> QED
      BY <1>12, <2>1, <2>3, <3>1 DEF Node
  <2> QED
    BY <2>2, <2>3
<1>14. NodesInv'
  <2> SUFFICES ASSUME NEW m \in 1 .. len + 1
      PROVE  /\ hunks'[m].key = hunks'[m].value /\ hunks'[m].value < list + 1
             /\ m < len + 1 => hunks'[m].value < list /\ Node(m)'.dst_end = Node(m)'.src_end
             /\ Node(m)'.src_start = IF m = 1 THEN 0 ELSE Node(m - 1)'.src_end + 1
             /\ Node(m)'.src_start <= Node(m)'.src_end /\ Node(m)'.dst_start <= Node(m)'.dst_end
             /\ Node(m)'.dst_start = Node(m)'.src_start
             /\ m > 1 => Node(m - 1)'.type # Node(m)'.type
             /\ \A l \in 1 .. m - 1 : Node(l)'.src_end < Node(m)'.src_start
    BY <1>1, <1>12 DEF NodesInv
  <2>1. \A l \in 1 .. m - 1 : l \in 1 .. len /\ Node(l)' = Node(l)
    <3> SUFFICES ASSUME NEW l \in 1 .. m - 1
                 PROVE  l \in 1 .. len /\ Node(l)' = Node(l)
      OBVIOUS
    <3>1. l \in 1 .. len /\ l \in 1 .. len + 1 /\ l # len + 1
      BY <1>2
    <3> QED
      BY <1>13, <3>1
  <2>2. m > 1 => m - 1 \in 1 .. m - 1
    BY <1>2
  <2>3. CASE m \in 1 .. len
    <3>1. /\ hunks[m].key = hunks[m].value /\ hunks[m].value < list
          /\ m < len => hunks[m].value < o /\ Node(m).dst_end = Node(m).src_end
          /\ Node(m).src_start = IF m = 1 THEN 0 ELSE Node(m - 1).src_end + 1
          /\ Node(m).src_start <= Node(m).src_end /\ Node(m).dst_start <= Node(m).dst_end
          /\ Node(m).dst_start = Node(m).src_start
          /\ m > 1 => Node(m - 1).type # Node(m).type
          /\ \A l \in 1 .. m - 1 : Node(l).src_end < Node(m).src_start
      BY <1>3, <2>3 DEF NodesInv, len, o
    <3>2. Node(m)' = Node(m) /\ hunks'[m] = hunks[m]
      <4>1. m # len + 1
        BY <1>2, <2>3
      <4> QED
        BY <1>12, <1>13, <2>3, <4>1
    <3>3. hunks[m].value < list + 1
      BY <1>2, <2>3
    <3>4. Node(m).dst_end = Node(m).src_end
      <4>1. m < len \/ m = len
        BY <1>2, <2>3
      <4>2. CASE m < len
        BY <3>1, <4>2
      <4>3. CASE m = len
        <5>1. len # 0
          BY <1>2, <2>3
        <5> QED
          BY <1>4, <4>3, <5>1
      <4> QED
        BY <4>1, <4>2, <4>3
    <3> QED
      BY <2>1, <2>2, <3>1, <3>2, <3>3, <3>4
  <2>4. CASE m = len + 1
    <3>1. /\ Node(m)' = hunk /\ hunks'[m] = node /\ node.key = list /\ node.value = list
      BY <1>12, <1>13, <2>4 DEF node
    <3>2. list < list + 1 /\ ~(m < len + 1) /\ (m = 1 <=> len = 0) /\ (m > 1 <=> len # 0)
      BY <1>2, <2>4
    <3>3. len # 0 => Node(m - 1)' = working_hunks[o] /\ working_hunks[o].type # hunk.type
      <4>1. len # 0 => m - 1 = len /\ m - 1 \in 1 .. m - 1
        BY <1>2, <2>4
      <4>2. len # 0 => Node(m - 1)' = Node(m - 1)
        BY <2>1, <4>1
      <4> QED
        BY <1>4, <1>7, <4>1, <4>2
    <3>4. \A l \in 1 .. m - 1 : Node(l)'.src_end < hunk.src_start
      BY <1>8, <2>1
    <3>5. hunk.src_start = IF m = 1 THEN 0 ELSE Node(m - 1)'.src_end + 1
      BY <1>4, <3>2, <3>3
    <3> QED
      BY <1>5, <3>1, <3>2, <3>3, <3>4, <3>5
  <2>5. len \in Nat
    BY <1>2
  <2>6. m \in 1 .. len \/ m = len + 1
    BY <2>5
  <2> QED
    BY <2>3, <2>4, <2>6
<1>15. LastInv'
  <2>1. hunks' # << >> /\ hunks'[len + 1].value = list
    <3>1. len + 1 # 0
      BY <1>2
    <3> QED
      BY <1>12, <3>1, EmptySeq DEF node
  <2>2. ASSUME list + 1 <= n
        PROVE  /\ working_hunks[list + 1].src_start = hunk.src_end + 1
               /\ hunk.dst_end = hunk.src_end
    BY <1>2, <1>5, <2>2
  <2>3. ASSUME list + 1 > n
        PROVE  hunk.src_end >= src.size - 1 /\ hunk.dst_end >= dst.size - 1
    <3>1. list = n
      BY <1>2, <2>3
    <3> QED
      BY <1>5, <3>1 DEF hunk
  <2> QED
    BY <1>1, <1>12, <2>1, <2>2, <2>3 DEF LastInv, hunk, n
<1>16. Left(working_hunks, list + 1, src, dst)
  <2>1. \A i \in list + 1 .. n : i \in list .. n
    BY <1>2
  <2> QED
    BY <1>3, <1>5, <2>1 DEF Left, n
<1>17. Left(working_hunks, list, src, dst)'
  BY <1>1, <1>16
<1>18. list' > 0
  BY <1>1, <1>2
<1> QED
  BY <1>1, <1>14, <1>15, <1>17, <1>18 DEF EndInv, BacktrackInv, TreeInv

\* The tree is done when the list is.
LEMMA DoneKeepsEnd ==
  ASSUME TypeInv, EndInv, TreeDone
  PROVE  EndInv'
<1>1. /\ pc = "tree" /\ pc' = "done" /\ list > Len(working_hunks)
      /\ UNCHANGED <<src, dst, working_hunks, list, otherhunk, hunks>>
  BY DEF TreeDone
<1>2. NodesInv'
  BY <1>1 DEF EndInv, TreeInv, NodesInv, Node
<1>3. LastInv'
  BY <1>1 DEF EndInv, TreeInv, LastInv
<1> QED
  BY <1>1, <1>2, <1>3 DEF EndInv, TreeInv, BacktrackInv
-----------------------------------------------------------------------------
\* What holds in every state.
Inv == TypeInv /\ RootInv /\ PoolInv /\ ConcatInv /\ SoundInv /\ EndInv

\* A step of the pool or of its caller before the lists are joined.
LEMMA PoolStepKeepsInv ==
  ASSUME Inv, Push \/ Wait \/ Return \/ (\E t \in Thread : Take(t) \/ Switch(t) \/ Finish(t))
  PROVE  Inv'
<1>1. TypeInv'
  <2>1. [Next]_vars
    BY DEF Next, Caller, Work
  <2> QED
    BY <2>1, NextType DEF Inv
<1>2. /\ UNCHANGED <<src, dst, working_hunks>>
      /\ pc \in {"push", "wait"} /\ pc' \in {"push", "wait", "concat"}
  BY DEF Push, Wait, Return, Take, Switch, Finish, Running
<1>3. SoundInv'
  BY <1>2, FilesKept DEF Inv, SoundInv
<1>4. EndInv'
  BY <1>2 DEF EndInv, BacktrackInv, TreeInv
<1>5. CASE Push
  <2>1. RootInv' /\ PoolInv'
    BY <1>1, <1>5, PushKeepsPool DEF Inv
  <2>2. ConcatInv'
    BY <1>5 DEF Push, ConcatInv
  <2> QED
    BY <1>1, <1>3, <1>4, <2>1, <2>2 DEF Inv
<1>6. CASE Wait
  <2>1. /\ pc = "push" /\ pc' = "wait" /\ ptr >= Common
        /\ UNCHANGED <<src, dst, working_hunks, ptr, root, queue, job, mode, at, start>>
    BY <1>6 DEF Wait, pool
  <2>2. Common' = Common /\ ByteType' = ByteType /\ \A t : Equal(at[t])' = Equal(at[t])
    BY <2>1 DEF Common, ByteType, Equal
  <2>3. Common \in Nat /\ ptr \in Nat
    BY CommonType DEF Inv, TypeInv, TypeOK, HunkListTypeOK
  <2>4. RootInv'
    BY <2>1, <2>2 DEF Inv, RootInv
  <2>5. BlockInv'
    BY <2>1, <2>2, <2>3 DEF Inv, PoolInv, BlockInv
  <2>6. QueueInv'
    BY <2>1 DEF Inv, PoolInv, QueueInv
  <2>7. ThreadInv'
    BY <2>1, <2>2 DEF Inv, PoolInv, ThreadInv
  <2>8. CompleteInv'
    BY <2>1, <2>2 DEF Inv, PoolInv, CompleteInv
  <2>9. ConcatInv'
    BY <2>1 DEF ConcatInv
  <2> QED
    BY <1>1, <1>3, <1>4, <2>4, <2>5, <2>6, <2>7, <2>8, <2>9 DEF Inv, PoolInv
<1>7. CASE Return
  BY <1>1, <1>3, <1>4, <1>7, ReturnStartsConcat DEF Inv
<1>8. CASE \E t \in Thread : Take(t) \/ Switch(t) \/ Finish(t)
  <2>1. RootInv' /\ PoolInv'
    BY <1>8, TakeKeepsPool, SwitchKeepsPool, FinishKeepsPool DEF Inv
  <2>2. pc' = pc
    BY <1>8 DEF Take, Switch, Finish
  <2>3. ConcatInv'
    BY <1>2, <2>2 DEF ConcatInv
  <2> QED
    BY <1>1, <1>3, <1>4, <2>1, <2>3 DEF Inv
<1> QED
  BY <1>5, <1>6, <1>7, <1>8

\* Every step keeps the invariant.
LEMMA NextKeepsInv == Inv /\ [Next]_vars => Inv'
<1> SUFFICES ASSUME Inv, [Next]_vars PROVE Inv'
  OBVIOUS
<1>1. TypeInv'
  BY NextType DEF Inv
<1>2. CASE Push \/ Wait \/ Return \/ (\E t \in Thread : Take(t) \/ Switch(t) \/ Finish(t))
  BY <1>2, PoolStepKeepsInv
<1>3. CASE Concat
  <2>1. pc' = "concat"
    BY <1>3 DEF Concat
  <2>2. EndInv'
    BY <2>1 DEF EndInv, BacktrackInv, TreeInv
  <2> QED
    BY <1>1, <1>3, <2>2, ConcatKeepsPool DEF Inv
<1>4. CASE Rest
  <2>1. pc' = "backtrack" /\ UNCHANGED <<src, dst, root>>
    BY <1>4 DEF Rest
  <2>2. SoundInv' /\ BacktrackInv'
    BY <1>1, <1>4, RestReady DEF Inv
  <2>3. RootInv'
    BY <2>1, FilesKept DEF Inv, RootInv
  <2>4. PoolInv' /\ ConcatInv'
    BY <2>1 DEF PoolInv, BlockInv, QueueInv, ThreadInv, CompleteInv, ConcatInv
  <2> QED
    BY <1>1, <2>1, <2>2, <2>3, <2>4 DEF Inv, EndInv, TreeInv
<1>5. CASE ConcatFault \/ (\E t \in Thread : PrependFault(t))
  <2>1. pc' = "fault" /\ UNCHANGED <<src, dst, root, working_hunks>>
    BY <1>5 DEF ConcatFault, PrependFault
  <2>2. RootInv' /\ SoundInv'
    BY <2>1, FilesKept DEF Inv, RootInv, SoundInv
  <2>3. PoolInv' /\ ConcatInv' /\ EndInv'
    BY <2>1 DEF PoolInv, BlockInv, QueueInv, ThreadInv, CompleteInv, ConcatInv, EndInv,
                BacktrackInv, TreeInv
  <2> QED
    BY <1>1, <2>2, <2>3 DEF Inv
<1>6. CASE backtrack_hunks /\ UNCHANGED <<ptr, root, pool, data>>
  <2>1. /\ UNCHANGED <<src, dst, root>>
        /\ pc' \in {"backtrack", "tree", "done", "fault"}
    BY <1>6 DEF backtrack_hunks, BacktrackHunk, BacktrackFault, BacktrackSkip, BacktrackDone,
                TreeCoalesce, TreeInsert, TreeDone, AtIndexed, AtTree
  <2>2. RootInv'
    BY <2>1, FilesKept DEF Inv, RootInv
  <2>3. PoolInv' /\ ConcatInv'
    BY <2>1 DEF PoolInv, BlockInv, QueueInv, ThreadInv, CompleteInv, ConcatInv
  <2>4. SoundInv' /\ EndInv'
    <3>1. CASE pc = "backtrack"
      <4>1. EndInv' /\ UNCHANGED <<src, dst, working_hunks>>
        BY <1>6, <3>1, BacktrackKeepsEnd DEF Inv
      <4> QED
        BY <4>1, FilesKept DEF Inv, SoundInv
    <3>2. CASE TreeCoalesce
      BY <3>2, CoalesceKeepsEnd DEF Inv
    <3>3. CASE TreeInsert \/ TreeDone
      <4>1. UNCHANGED <<src, dst, working_hunks>>
        BY <3>3 DEF TreeInsert, TreeDone
      <4>2. SoundInv'
        BY <4>1, FilesKept DEF Inv, SoundInv
      <4> QED
        BY <3>3, <4>2, InsertKeepsEnd, DoneKeepsEnd DEF Inv
    <3> QED
      BY <1>6, <3>1, <3>2, <3>3 DEF backtrack_hunks, BacktrackHunk, BacktrackFault, AtIndexed,
                                    BacktrackSkip, BacktrackDone
  <2> QED
    BY <1>1, <2>2, <2>3, <2>4 DEF Inv
<1>7. CASE Terminated \/ UNCHANGED vars
  <2>1. UNCHANGED <<src, dst, pc, working_hunks, list, otherhunk, hunks, ptr, root, queue, job,
                    mode, at, start, data>>
    BY <1>7 DEF Terminated, vars, pool
  <2>2. Common' = Common /\ ByteType' = ByteType /\ \A t : Equal(at[t])' = Equal(at[t])
    BY <2>1 DEF Common, ByteType, Equal
  <2>3. RootInv' /\ SoundInv' /\ ConcatInv'
    BY <2>1, <2>2 DEF Inv, RootInv, SoundInv, ConcatInv
  <2>4. BlockInv' /\ QueueInv' /\ CompleteInv'
    BY <2>1, <2>2 DEF Inv, PoolInv, BlockInv, QueueInv, CompleteInv
  <2>5. ThreadInv'
    BY <2>1, <2>2 DEF Inv, PoolInv, ThreadInv
  <2>6. NodesInv' = NodesInv /\ LastInv' = LastInv
    BY <2>1 DEF NodesInv, LastInv, Node
  <2>7. EndInv'
    BY <2>1, <2>6 DEF Inv, EndInv, BacktrackInv, TreeInv
  <2> QED
    BY <1>1, <2>3, <2>4, <2>5, <2>7 DEF Inv, PoolInv
<1> QED
  BY <1>2, <1>3, <1>4, <1>5, <1>6, <1>7 DEF Next, Caller, Work

\* So it holds in every state.
LEMMA SpecInv == Spec => []Inv
<1>1. Init => Inv
  <2>1. Init => EndInv
    BY DEF Init, EndInv, BacktrackInv, TreeInv
  <2> QED
    BY <2>1, InitType, InitPool DEF Inv
<1> QED
  BY <1>1, NextKeepsInv, PTL DEF Spec

-----------------------------------------------------------------------------
\* Type correctness: whatever the threads do, the lists and the tree are made
\* of hunks, and the queue and the threads name jobs that were pushed.
THEOREM TypeCorrect == Spec => []TypeOK
<1>1. Inv => TypeOK
  BY DEF Inv, TypeInv
<1> QED
  BY <1>1, SpecInv, PTL

\* Every hunk of a list ends before the byte the list has come to.
LEMMA ListingEnds ==
  ASSUME NEW types, NEW s \in Seq(Hunk), NEW from \in Nat, NEW to \in Nat,
         Listing(s, from, to, types), NEW i \in 1 .. Len(s)
  PROVE  s[i].src_end < to
<1> DEFINE n == Len(s)
           T == {m \in 0 .. n - 1 : ~(s[n - m].src_end < to)}
<1>1. /\ n \in Nat /\ \A k \in 1 .. n : s[k] \in Hunk
      /\ s = << >> <=> n = 0
  BY LenProperties, ElementOfSeq, EmptySeq
<1>2. \A k \in 1 .. n : s[k].src_end \in Nat /\ s[k].src_start \in Nat
  BY <1>1 DEF Hunk
<1>3. \A k \in 1 .. n :
        /\ s[k].src_start = IF k = 1 THEN from ELSE s[k - 1].src_end + 1
        /\ s[k].src_start <= s[k].src_end
  BY DEF Listing, Diagonal
<1>4. s[n].src_end + 1 = to
  BY <1>1 DEF Listing, Reached
<1>5. T = {}
  <2>1. ASSUME T # {} PROVE FALSE
    <3>1. T \in SUBSET Nat
      BY <1>1
    <3>2. PICK m \in T : \A l \in T : m <= l
      BY <2>1, <3>1, LeastNatural
    <3>3. m \in 0 .. n - 1 /\ ~(s[n - m].src_end < to)
      BY <3>2
    <3>4. m # 0
      <4>1. m = 0 => n - m = n /\ n \in 1 .. n
        BY <1>1, <3>3
      <4> QED
        BY <1>2, <1>4, <3>3, <4>1
    <3>5. s[n - (m - 1)].src_end < to
      <4>1. ASSUME ~(s[n - (m - 1)].src_end < to) PROVE FALSE
        <5>1. m - 1 \in 0 .. n - 1
          BY <1>1, <3>3, <3>4
        <5>2. m - 1 \in T
          BY <4>1, <5>1
        <5>3. m <= m - 1
          BY <3>2, <5>2
        <5> QED
          BY <3>3, <5>3
      <4> QED
        BY <4>1
    <3>6. /\ n - m \in 1 .. n /\ n - (m - 1) \in 1 .. n /\ n - (m - 1) # 1
          /\ (n - (m - 1)) - 1 = n - m
      BY <1>1, <3>3, <3>4
    <3>7. s[n - (m - 1)].src_start = s[n - m].src_end + 1
      BY <1>3, <3>6
    <3>8. s[n - (m - 1)].src_start <= s[n - (m - 1)].src_end
      BY <1>3, <3>6
    <3> HIDE DEF n, T
    <3> QED
      BY <1>2, <3>3, <3>5, <3>6, <3>7, <3>8, SMTT(30)
  <2> QED
    BY <2>1
<1>6. n - i \in 0 .. n - 1 /\ n - (n - i) = i
  BY <1>1
<1>7. ~(n - i \in T)
  BY <1>5
<1> QED
  BY <1>6, <1>7

\* No two jobs list the same byte: what a job has listed goes on from the start
\* of its block and stays inside it, whatever the order the threads run in.
THEOREM JobsKeepToBlocks == Spec => []ListsOwnBlock
<1>1. ASSUME Inv PROVE ListsOwnBlock
  <2> SUFFICES ASSUME NEW j \in DOMAIN root, NEW i \in DOMAIN root[j]
               PROVE  /\ root[j][i].src_start
                           = IF i = 1 THEN startpos(j) ELSE root[j][i - 1].src_end + 1
                      /\ root[j][i].src_end < endpos(j)
    BY DEF ListsOwnBlock
  <2>1. root \in Seq(Seq(Hunk)) /\ j \in 1 .. Len(root) /\ Len(root) \in Nat
    BY <1>1, LenProperties DEF Inv, TypeInv, TypeOK
  <2>2. root[j] \in Seq(Hunk)
    BY <2>1, ElementOfSeq
  <2>3. i \in 1 .. Len(root[j]) /\ Len(root[j]) \in Nat
    BY <2>2, LenProperties
  <2>4. PICK to \in Nat : /\ to <= BlockEnd(j, Common)
                          /\ Listing(root[j], startpos(j), to, ByteType)
    BY <1>1, <2>1 DEF Inv, RootInv
  <2>5. startpos(j) \in Nat /\ BlockEnd(j, Common) \in Nat
    <3>1. j \in Nat \ {0}
      BY <2>1
    <3>2. Common \in Nat
      BY <1>1, CommonType DEF Inv, TypeInv, TypeOK, HunkListTypeOK
    <3> QED
      BY <3>1, <3>2, StartposType, BlockEndType
  <2>6. root[j][i].src_end < to
    BY <2>2, <2>3, <2>4, <2>5, ListingEnds
  <2>7. root[j][i].src_end \in Nat
    <3>1. root[j][i] \in Hunk
      BY <2>2, <2>3, ElementOfSeq
    <3> QED
      BY <3>1 DEF Hunk
  <2>8. endpos(j) = BlockEnd(j, Common)
    BY DEF endpos, BlockEnd
  <2>9. root[j][i].src_end < endpos(j)
    BY <2>4, <2>5, <2>6, <2>7, <2>8
  <2> QED
    BY <2>3, <2>4, <2>9 DEF Listing
<1> QED
  BY <1>1, SpecInv, PTL

\* The finished tree does not show where one block ended and the next began.
THEOREM TreeShowsNoBlocks == Spec => []MaximalHunks
<1>1. ASSUME Inv PROVE MaximalHunks
  <2> SUFFICES ASSUME pc = "done", NEW n \in DOMAIN hunks, n > 1
               PROVE  working_hunks[hunks[n - 1].value].type
                        # working_hunks[hunks[n].value].type
    BY DEF MaximalHunks
  <2>1. n \in 1 .. Len(hunks)
    BY <1>1, LenProperties DEF Inv, TypeInv, HunkListInv, HunkListTypeOK
  <2> QED
    BY <1>1, <2>1 DEF Inv, EndInv, TreeInv, NodesInv, Node
<1> QED
  BY <1>1, SpecInv, PTL

\* Of intervals that go on from each other, each behind all those before, one
\* holds a given byte.
LEMMA OneInterval ==
  ASSUME NEW len \in Nat \ {0},
         NEW first \in [1 .. len -> Int], NEW last \in [1 .. len -> Int],
         \A k \in 1 .. len - 1 : first[k + 1] <= last[k] + 1,
         \A k \in 1 .. len : \A l \in 1 .. k - 1 : last[l] < first[k],
         NEW i \in Int, first[1] <= i, i <= last[len]
  PROVE  \E n \in 1 .. len : \A k \in 1 .. len : (first[k] <= i /\ i <= last[k]) <=> k = n
<1>1. PICK n \in 1 .. len : first[n] <= i /\ i <= last[n]
  BY ChainCovers
<1>2. ASSUME NEW k \in 1 .. len, first[k] <= i, i <= last[k] PROVE k = n
  <2>1. CASE k < n
    <3>1. k \in 1 .. n - 1
      BY <2>1
    <3>2. last[k] < first[n]
      BY <3>1
    <3> QED
      BY <1>1, <1>2, <3>2
  <2>2. CASE n < k
    <3>1. n \in 1 .. k - 1
      BY <2>2
    <3>2. last[n] < first[k]
      BY <3>1
    <3> QED
      BY <1>1, <1>2, <3>2
  <2> QED
    BY <2>1, <2>2
<1> QED
  BY <1>1, <1>2

\* The nodes of the finished tree, as intervals.
LEMMA NodesTile ==
  ASSUME Inv, pc = "done", NEW i \in Nat
  PROVE  /\ i < src.size =>
              \E n \in 1 .. Len(hunks) : \A k \in 1 .. Len(hunks) :
                (Node(k).src_start <= i /\ i <= Node(k).src_end) <=> k = n
         /\ i < dst.size =>
              \E n \in 1 .. Len(hunks) : \A k \in 1 .. Len(hunks) :
                (Node(k).dst_start <= i /\ i <= Node(k).dst_end) <=> k = n
<1> DEFINE len == Len(hunks)
           srcfirst == [k \in 1 .. len |-> Node(k).src_start]
           srclast == [k \in 1 .. len |-> Node(k).src_end]
           dstfirst == [k \in 1 .. len |-> Node(k).dst_start]
           dstlast == [k \in 1 .. len |-> Node(k).dst_end]
<1>1. /\ len \in Nat /\ (hunks = << >> <=> len = 0)
      /\ \A k \in 1 .. len :
           /\ Node(k).src_start \in Nat /\ Node(k).src_end \in Nat
           /\ Node(k).dst_start \in Nat /\ Node(k).dst_end \in Nat
  BY NodeTypes DEF Inv
<1>2. /\ NodesInv /\ LastInv /\ list > Len(working_hunks)
  BY DEF Inv, EndInv, TreeInv
<1>3. /\ len # 0 /\ Node(len).src_end >= src.size - 1 /\ Node(len).dst_end >= dst.size - 1
  <2>1. hunks # << >> /\ otherhunk = hunks[len].value
    BY <1>2 DEF LastInv
  <2> QED
    BY <1>1, <1>2, <2>1 DEF LastInv, Node
<1>4. \A k \in 1 .. len :
        /\ k < len => Node(k).dst_end = Node(k).src_end
        /\ Node(k).src_start = IF k = 1 THEN 0 ELSE Node(k - 1).src_end + 1
        /\ Node(k).dst_start = Node(k).src_start
        /\ \A l \in 1 .. k - 1 : Node(l).src_end < Node(k).src_start
  BY <1>2 DEF NodesInv
<1>5. src.size \in Nat /\ dst.size \in Nat
  BY FileBytes DEF Inv, TypeInv, TypeOK, HunkListTypeOK
<1> HIDE DEF len
<1>6. ASSUME NEW k \in 1 .. len - 1
      PROVE  /\ Node(k + 1).src_start = Node(k).src_end + 1
             /\ Node(k + 1).dst_start = Node(k).dst_end + 1
  <2>1. k \in 1 .. len /\ k + 1 \in 1 .. len /\ k + 1 # 1 /\ (k + 1) - 1 = k /\ k < len
    BY <1>1
  <2>2. Node(k + 1).src_start = Node((k + 1) - 1).src_end + 1
    BY <1>4, <2>1
  <2>3. Node((k + 1) - 1) = Node(k)
    BY <2>1
  <2>4. Node(k).dst_end = Node(k).src_end /\ Node(k + 1).dst_start = Node(k + 1).src_start
    BY <1>4, <2>1
  <2> QED
    BY <2>2, <2>3, <2>4
<1>7. /\ srcfirst \in [1 .. len -> Int] /\ srclast \in [1 .. len -> Int]
      /\ dstfirst \in [1 .. len -> Int] /\ dstlast \in [1 .. len -> Int]
  BY <1>1
<1>8. ASSUME NEW k \in 1 .. len - 1
      PROVE  srcfirst[k + 1] <= srclast[k] + 1 /\ dstfirst[k + 1] <= dstlast[k] + 1
  <2>1. k \in 1 .. len /\ k + 1 \in 1 .. len
    BY <1>1
  <2> QED
    BY <1>1, <1>6, <2>1
<1>9. ASSUME NEW k \in 1 .. len, NEW l \in 1 .. k - 1
      PROVE  srclast[l] < srcfirst[k] /\ dstlast[l] < dstfirst[k]
  <2>1. l \in 1 .. len /\ l < len
    BY <1>1
  <2>2. Node(l).src_end < Node(k).src_start
    BY <1>4
  <2>3. Node(l).dst_end = Node(l).src_end /\ Node(k).dst_start = Node(k).src_start
    BY <1>4, <2>1
  <2> QED
    BY <2>1, <2>2, <2>3
<1>10. /\ srcfirst[1] <= i /\ dstfirst[1] <= i
       /\ srclast[len] >= src.size - 1 /\ dstlast[len] >= dst.size - 1
       /\ srclast[len] \in Nat /\ dstlast[len] \in Nat
  <2>1. 1 \in 1 .. len /\ len \in 1 .. len
    BY <1>1, <1>3
  <2>2. Node(1).src_start = 0 /\ Node(1).dst_start = 0
    BY <1>4, <2>1
  <2> QED
    BY <1>1, <1>3, <2>1, <2>2
<1>11. len \in Nat \ {0} /\ i \in Int
  BY <1>1, <1>3
<1>12. \A k \in 1 .. len :
         /\ srcfirst[k] = Node(k).src_start /\ srclast[k] = Node(k).src_end
         /\ dstfirst[k] = Node(k).dst_start /\ dstlast[k] = Node(k).dst_end
  OBVIOUS
<1> HIDE DEF srcfirst, srclast, dstfirst, dstlast
<1>13. ASSUME i < src.size
       PROVE  \E n \in 1 .. len : \A k \in 1 .. len :
                (Node(k).src_start <= i /\ i <= Node(k).src_end) <=> k = n
  <2>1. srcfirst[1] <= i /\ i <= srclast[len]
    BY <1>5, <1>10, <1>13
  <2>2. \A k \in 1 .. len - 1 : srcfirst[k + 1] <= srclast[k] + 1
    BY <1>8
  <2>3. \A k \in 1 .. len : \A l \in 1 .. k - 1 : srclast[l] < srcfirst[k]
    BY <1>9
  <2>4. PICK n \in 1 .. len :
          \A k \in 1 .. len : (srcfirst[k] <= i /\ i <= srclast[k]) <=> k = n
    BY <1>7, <1>11, <2>1, <2>2, <2>3, OneInterval
  <2> QED
    BY <1>12, <2>4
<1>14. ASSUME i < dst.size
       PROVE  \E n \in 1 .. len : \A k \in 1 .. len :
                (Node(k).dst_start <= i /\ i <= Node(k).dst_end) <=> k = n
  <2>1. dstfirst[1] <= i /\ i <= dstlast[len]
    BY <1>5, <1>10, <1>14
  <2>2. \A k \in 1 .. len - 1 : dstfirst[k + 1] <= dstlast[k] + 1
    BY <1>8
  <2>3. \A k \in 1 .. len : \A l \in 1 .. k - 1 : dstlast[l] < dstfirst[k]
    BY <1>9
  <2>4. PICK n \in 1 .. len :
          \A k \in 1 .. len : (dstfirst[k] <= i /\ i <= dstlast[k]) <=> k = n
    BY <1>7, <1>11, <2>1, <2>2, <2>3, OneInterval
  <2> QED
    BY <1>12, <2>4
<1> QED
  BY <1>13, <1>14 DEF len

\* Every byte of either file is in one hunk of the finished tree and in no other,
\* the bytes only the longer file has included.
THEOREM TreeTilesFiles == Spec => []TreeTiles
<1>1. ASSUME Inv PROVE TreeTiles
  <2> SUFFICES ASSUME pc = "done", NEW i \in 0 .. src.size + dst.size
               PROVE  /\ i < src.size =>
                           Cardinality({n \in DOMAIN hunks :
                             working_hunks[hunks[n].value]["src_start"] <= i
                             /\ i <= working_hunks[hunks[n].value]["src_end"]}) = 1
                      /\ i < dst.size =>
                           Cardinality({n \in DOMAIN hunks :
                             working_hunks[hunks[n].value]["dst_start"] <= i
                             /\ i <= working_hunks[hunks[n].value]["dst_end"]}) = 1
    BY DEF TreeTiles
  <2>1. i \in Nat
    BY <1>1, FileBytes DEF Inv, TypeInv, TypeOK, HunkListTypeOK
  <2>2. DOMAIN hunks = 1 .. Len(hunks)
    BY <1>1, LenProperties DEF Inv, TypeInv, HunkListInv, HunkListTypeOK
  <2>3. ASSUME i < src.size
        PROVE  Cardinality({n \in DOMAIN hunks :
                 working_hunks[hunks[n].value]["src_start"] <= i
                 /\ i <= working_hunks[hunks[n].value]["src_end"]}) = 1
    <3>1. PICK m \in 1 .. Len(hunks) : \A k \in 1 .. Len(hunks) :
            (Node(k).src_start <= i /\ i <= Node(k).src_end) <=> k = m
      BY <1>1, <2>1, <2>3, NodesTile
    <3>2. {n \in DOMAIN hunks : working_hunks[hunks[n].value]["src_start"] <= i
                                /\ i <= working_hunks[hunks[n].value]["src_end"]} = {m}
      BY <2>2, <3>1 DEF Node
    <3> QED
      BY <3>2, FS_Singleton
  <2>4. ASSUME i < dst.size
        PROVE  Cardinality({n \in DOMAIN hunks :
                 working_hunks[hunks[n].value]["dst_start"] <= i
                 /\ i <= working_hunks[hunks[n].value]["dst_end"]}) = 1
    <3>1. PICK m \in 1 .. Len(hunks) : \A k \in 1 .. Len(hunks) :
            (Node(k).dst_start <= i /\ i <= Node(k).dst_end) <=> k = m
      BY <1>1, <2>1, <2>4, NodesTile
    <3>2. {n \in DOMAIN hunks : working_hunks[hunks[n].value]["dst_start"] <= i
                                /\ i <= working_hunks[hunks[n].value]["dst_end"]} = {m}
      BY <2>2, <3>1 DEF Node
    <3> QED
      BY <3>2, FS_Singleton
  <2> QED
    BY <2>3, <2>4
<1> QED
  BY <1>1, SpecInv, PTL
-----------------------------------------------------------------------------
\* Byte k is in a hunk of s, and in one of the lists of r.
InList(s, k) == \E i \in 1 .. Len(s) : Covers(s[i], k)
InLists(r, k) == \E j \in 1 .. Len(r) : InList(r[j], k)

\* Byte k has a verdict.
Known(k) == \E hunk \in Listed : Covers(hunk, k)

\* Where its hunk can be.
LEMMA KnownIn ==
  ASSUME TypeInv, NEW k
  PROVE  /\ pc # "done" => (Known(k) <=> InList(working_hunks, k) \/ InLists(root, k))
         /\ pc = "done" => (Known(k) <=> \E n \in 1 .. Len(hunks) : Covers(Node(n), k))
<1>1. /\ DOMAIN working_hunks = 1 .. Len(working_hunks) /\ DOMAIN root = 1 .. Len(root)
      /\ DOMAIN hunks = 1 .. Len(hunks)
  BY LenProperties DEF TypeInv, TypeOK, HunkListInv, HunkListTypeOK
<1>2. \A j \in 1 .. Len(root) : DOMAIN root[j] = 1 .. Len(root[j])
  <2> SUFFICES ASSUME NEW j \in 1 .. Len(root) PROVE DOMAIN root[j] = 1 .. Len(root[j])
    OBVIOUS
  <2>1. root[j] \in Seq(Hunk)
    BY ElementOfSeq DEF TypeInv, TypeOK
  <2> QED
    BY <2>1, LenProperties
<1>3. CASE pc = "done"
  BY <1>1, <1>3 DEF Known, Listed, Node
<1>4. CASE pc # "done"
  <2>1. ASSUME Known(k) PROVE InList(working_hunks, k) \/ InLists(root, k)
    <3>1. PICK hunk \in {working_hunks[i] : i \in DOMAIN working_hunks}
                          \cup UNION {{root[j][i] : i \in DOMAIN root[j]} : j \in DOMAIN root} :
            Covers(hunk, k)
      BY <1>4, <2>1 DEF Known, Listed
    <3>2. CASE hunk \in {working_hunks[i] : i \in DOMAIN working_hunks}
      BY <1>1, <3>1, <3>2 DEF InList
    <3>3. CASE hunk \in UNION {{root[j][i] : i \in DOMAIN root[j]} : j \in DOMAIN root}
      <4>1. PICK j \in 1 .. Len(root) : \E i \in 1 .. Len(root[j]) : hunk = root[j][i]
        BY <1>1, <1>2, <3>3
      <4> QED
        BY <3>1, <4>1 DEF InLists, InList
    <3> QED
      BY <3>1, <3>2, <3>3
  <2>2. ASSUME InList(working_hunks, k) PROVE Known(k)
    <3>1. PICK i \in 1 .. Len(working_hunks) : Covers(working_hunks[i], k)
      BY <2>2 DEF InList
    <3>2. working_hunks[i] \in {working_hunks[l] : l \in DOMAIN working_hunks}
      BY <1>1, <3>1
    <3>3. working_hunks[i] \in Listed
      <4>1. Listed = {working_hunks[l] : l \in DOMAIN working_hunks}
                       \cup UNION {{root[j][l] : l \in DOMAIN root[j]} : j \in DOMAIN root}
        BY <1>4 DEF Listed
      <4> QED
        BY <3>2, <4>1
    <3> QED
      BY <3>1, <3>3 DEF Known
  <2>3. ASSUME InLists(root, k) PROVE Known(k)
    <3>1. PICK j \in 1 .. Len(root) : \E i \in 1 .. Len(root[j]) : Covers(root[j][i], k)
      BY <2>3 DEF InLists, InList
    <3>2. PICK i \in 1 .. Len(root[j]) : Covers(root[j][i], k)
      BY <3>1
    <3>3. root[j][i] \in {root[j][l] : l \in DOMAIN root[j]}
      BY <1>2, <3>2
    <3>4. root[j][i] \in UNION {{root[m][l] : l \in DOMAIN root[m]} : m \in DOMAIN root}
      BY <1>1, <3>1, <3>3
    <3> QED
      BY <1>4, <3>2, <3>4 DEF Known, Listed
  <2> QED
    BY <1>4, <2>1, <2>2, <2>3
<1> QED
  BY <1>3, <1>4

\* All that is listed is true.
LEMMA ListedSound ==
  ASSUME Inv, NEW hunk \in Listed
  PROVE  Sound(hunk, ByteType)
<1>1. /\ DOMAIN working_hunks = 1 .. Len(working_hunks) /\ DOMAIN root = 1 .. Len(root)
      /\ DOMAIN hunks = 1 .. Len(hunks)
  BY LenProperties DEF Inv, TypeInv, TypeOK, HunkListInv, HunkListTypeOK
<1>2. ASSUME NEW i \in 1 .. Len(working_hunks) PROVE Sound(working_hunks[i], ByteType)
  BY DEF Inv, SoundInv
<1>3. CASE pc = "done"
  <2>1. PICK n \in 1 .. Len(hunks) : hunk = working_hunks[hunks[n].value]
    BY <1>1, <1>3 DEF Listed
  <2>2. hunks[n].value \in 1 .. Len(working_hunks)
    BY <1>3, NodeTypes DEF Inv
  <2> QED
    BY <1>2, <2>1, <2>2
<1>4. CASE pc # "done"
  <2>1. CASE hunk \in {working_hunks[i] : i \in DOMAIN working_hunks}
    BY <1>1, <1>2, <2>1
  <2>2. CASE hunk \in UNION {{root[j][i] : i \in DOMAIN root[j]} : j \in DOMAIN root}
    <3>1. PICK j \in 1 .. Len(root) : hunk \in {root[j][i] : i \in DOMAIN root[j]}
      BY <1>1, <2>2
    <3>2. root[j] \in Seq(Hunk)
      BY ElementOfSeq DEF Inv, TypeInv, TypeOK
    <3>3. DOMAIN root[j] = 1 .. Len(root[j])
      BY <3>2, LenProperties
    <3>4. PICK i \in 1 .. Len(root[j]) : hunk = root[j][i]
      BY <3>1, <3>3
    <3> QED
      BY <3>4 DEF Inv, RootInv, Listing
  <2> QED
    BY <1>4, <2>1, <2>2 DEF Listed
<1> QED
  BY <1>3, <1>4

\* The verdict on a byte, once it has one, is that of the bytes themselves.
LEMMA VerdictIs ==
  ASSUME Inv, NEW k \in 0 .. Common - 1
  PROVE  ListedVerdict[k] = IF Known(k) THEN Abstract!Truth(k) ELSE "unknown"
<1>1. k \in DOMAIN ByteType
  BY DEF ByteType
<1>2. \A hunk \in Listed : Covers(hunk, k) => hunk.type = ByteType[k]
  BY <1>1, ListedSound DEF Sound
<1>3. ~Known(k) => TypesAt(k) = {}
  BY DEF Known, TypesAt
<1>4. Known(k) => TypesAt(k) = {ByteType[k]}
  BY <1>2 DEF Known, TypesAt
<1>5. ListedVerdict[k] = CASE TypesAt(k) = {} -> "unknown"
                           [] TypesAt(k) = {"SAME"} -> "same"
                           [] TypesAt(k) = {"DIFF"} -> "diff"
                           [] OTHER -> "both"
  BY DEF ListedVerdict
<1>6. ByteType[k] = IF Equal(k) THEN "SAME" ELSE "DIFF"
  BY DEF ByteType
<1>7. Abstract!Truth(k) = IF Equal(k) THEN "same" ELSE "diff"
  BY DEF Abstract!Truth, Equal
<1>8. CASE ~Known(k)
  BY <1>3, <1>5, <1>8
<1>9. CASE Known(k) /\ Equal(k)
  <2>1. TypesAt(k) = {"SAME"}
    BY <1>4, <1>6, <1>9
  <2>2. TypesAt(k) # {}
    BY <2>1
  <2> QED
    BY <1>5, <1>7, <1>9, <2>1, <2>2
<1>10. CASE Known(k) /\ ~Equal(k)
  <2>1. TypesAt(k) = {"DIFF"}
    BY <1>4, <1>6, <1>10
  <2>2. TypesAt(k) # {} /\ TypesAt(k) # {"SAME"}
    <3>1. "DIFF" \notin {"SAME"} /\ "DIFF" \in {"DIFF"}
      OBVIOUS
    <3> QED
      BY <2>1, <3>1
  <2> QED
    BY <1>5, <1>7, <1>10, <2>1, <2>2
<1> QED
  BY <1>8, <1>9, <1>10

\* A longer list has all the bytes of the shorter one.
LEMMA LongerList ==
  ASSUME NEW s, NEW r, NEW k, Len(s) \in Nat, Len(r) \in Nat, Len(s) <= Len(r),
         \A i \in 1 .. Len(s) : r[i] = s[i], InList(s, k)
  PROVE  InList(r, k)
<1>1. PICK i \in 1 .. Len(s) : Covers(s[i], k)
  BY DEF InList
<1>2. i \in 1 .. Len(r) /\ r[i] = s[i]
  BY <1>1
<1> QED
  BY <1>1, <1>2 DEF InList

\* A thread forgets nothing.
LEMMA ThreadKeepsKnown ==
  ASSUME Inv, NEW t \in Thread, Switch(t) \/ Finish(t), NEW k, InLists(root, k)
  PROVE  InLists(root', k)
<1>1. ASSUME NEW i \in Nat, at[t] < i, i <= endpos(job[t]), StopsAt(t, i), Running(t),
             insert_hunk_threaded(t, i)
      PROVE  InLists(root', k)
  <2>1. /\ \A j \in 1 .. Len(root) : j # job[t] => root'[j] = root[j]
        /\ Len(root') = Len(root)
        /\ \A l \in 1 .. Len(root[job[t]]) : root'[job[t]][l] = root[job[t]][l]
        /\ Len(root'[job[t]]) = Len(root[job[t]]) + 1
    BY <1>1, ThreadLists DEF Inv
  <2>2. job[t] \in 1 .. Len(root) /\ Len(root[job[t]]) \in Nat
    BY <1>1, RunningJob, LenProperties DEF Inv
  <2>3. PICK j \in 1 .. Len(root) : InList(root[j], k)
    BY DEF InLists
  <2>4. CASE j = job[t]
    <3>1. InList(root'[job[t]], k)
      <4>1. Len(root'[job[t]]) \in Nat /\ Len(root[job[t]]) <= Len(root'[job[t]])
        BY <2>1, <2>2
      <4>2. PICK l \in 1 .. Len(root[job[t]]) : Covers(root[job[t]][l], k)
        BY <2>3, <2>4 DEF InList
      <4>3. l \in 1 .. Len(root'[job[t]]) /\ root'[job[t]][l] = root[job[t]][l]
        BY <2>1, <2>2, <4>1, <4>2
      <4> QED
        BY <4>2, <4>3 DEF InList
    <3> QED
      BY <2>1, <2>2, <3>1 DEF InLists
  <2>5. CASE j # job[t]
    BY <2>1, <2>3, <2>5 DEF InLists
  <2> QED
    BY <2>4, <2>5
<1>2. CASE Switch(t)
  <2>1. PICK i \in at[t] .. endpos(job[t]) - 1 :
          /\ StopsAt(t, i)
          /\ IF mode[t] = "SYNC" /\ i = at[t] THEN UNCHANGED root ELSE insert_hunk_threaded(t, i)
    BY <1>2 DEF Switch
  <2>2. Running(t) /\ pc \in {"push", "wait"} /\ job[t] # NoJob
    BY <1>2 DEF Switch, Running
  <2>3. at[t] \in Nat /\ endpos(job[t]) \in Nat
    BY <2>2, RunningJob DEF Inv
  <2>4. i \in Nat /\ at[t] <= i /\ i < endpos(job[t]) /\ i <= endpos(job[t])
    BY <2>1, <2>3
  <2>5. CASE UNCHANGED root
    BY <2>5
  <2>6. CASE ~(mode[t] = "SYNC" /\ i = at[t])
    <3>1. Equal(i) <=> mode[t] # "SYNC"
      BY <2>1, <2>4 DEF StopsAt
    <3>2. mode[t] = "UNSYNCED_SIMPLE" => ~Equal(at[t])
      BY <2>2 DEF Inv, PoolInv, ThreadInv
    <3>3. mode[t] \in {"SYNC", "UNSYNCED_SIMPLE"}
      BY DEF Inv, TypeInv, TypeOK
    <3>4. i # at[t]
      BY <2>6, <3>1, <3>2, <3>3
    <3>5. at[t] < i /\ insert_hunk_threaded(t, i)
      BY <2>1, <2>3, <2>4, <2>6, <3>4
    <3> QED
      BY <1>1, <2>1, <2>2, <2>4, <3>5
  <2> QED
    BY <2>1, <2>5, <2>6
<1>3. CASE Finish(t)
  <2>1. Running(t) /\ StopsAt(t, endpos(job[t])) /\ insert_hunk_threaded(t, endpos(job[t]))
        /\ pc \in {"push", "wait"} /\ job[t] # NoJob
    BY <1>3 DEF Finish, Running
  <2>2. /\ endpos(job[t]) \in Nat /\ endpos(job[t]) = BlockEnd(job[t], Common)
        /\ endpos(job[t]) <= endpos(job[t])
    BY <2>1, RunningJob DEF Inv
  <2>3. at[t] < endpos(job[t])
    BY <2>1, <2>2 DEF Inv, PoolInv, ThreadInv
  <2> QED
    BY <1>1, <2>1, <2>2, <2>3
<1> QED
  BY <1>2, <1>3

\* The two lemmas for every byte at once, so that they can be used of the next
\* state as well.
Placed ==
  \A k : /\ pc # "done" => (Known(k) <=> InList(working_hunks, k) \/ InLists(root, k))
         /\ pc = "done" => (Known(k) <=> \E n \in 1 .. Len(hunks) : Covers(Node(n), k))

Verdicts ==
  \A k \in 0 .. Common - 1 :
    ListedVerdict[k] = IF Known(k) THEN Abstract!Truth(k) ELSE "unknown"

\* Every byte that is known is where it can be.
LEMMA KnownPlaced == TypeInv => Placed
BY KnownIn DEF Placed

\* After a step as well.
LEMMA KnownPlacedNext == TypeInv' => Placed'
BY KnownPlaced, PTL

\* The verdicts are those of the bytes.
LEMMA VerdictsAre == Inv => Verdicts
BY VerdictIs DEF Verdicts

\* After a step as well.
LEMMA VerdictsAreNext == Inv' => Verdicts'
BY VerdictsAre, PTL

\* While the lists are only moved and extended, what is known stays known.
LEMMA ListsKeepKnown ==
  ASSUME Inv, Inv', pc # "done", pc' # "done", NEW k, Known(k),
         InList(working_hunks, k) \/ InLists(root, k)
           => InList(working_hunks', k) \/ InLists(root', k)
  PROVE  Known(k)'
<1>1. InList(working_hunks, k) \/ InLists(root, k)
  BY KnownPlaced DEF Inv, Placed
<1>2. Placed' /\ pc' # "done"
  BY KnownPlacedNext DEF Inv
<1>3. Known(k)' <=> InList(working_hunks', k) \/ InLists(root', k)
  BY <1>2 DEF Placed
<1> QED
  BY <1>1, <1>3

\* Joining the lists loses none.
LEMMA ConcatKeepsKnown ==
  ASSUME Inv, Concat, NEW k, InList(working_hunks, k) \/ InLists(root, k)
  PROVE  InList(working_hunks', k) \/ InLists(root', k)
<1> DEFINE n == Len(working_hunks)
           m == Len(root[data])
           s == working_hunks \o root[data]
<1>1. /\ working_hunks' = s /\ data <= Len(root)
      /\ root' = [root EXCEPT ![data] = << >>]
  BY DEF Concat
<1>2. /\ data \in 1 .. Len(root) /\ root[data] \in Seq(Hunk)
      /\ working_hunks \in Seq(Hunk) /\ root \in Seq(Seq(Hunk))
  <2>1. data \in 1 .. Len(root)
    BY <1>1, LenProperties DEF Concat, Inv, ConcatInv, TypeInv, TypeOK
  <2> QED
    BY <2>1, ElementOfSeq DEF Inv, TypeInv, TypeOK, HunkListTypeOK
<1>3. /\ n \in Nat /\ m \in Nat /\ Len(s) = n + m
      /\ \A i \in 1 .. n : s[i] = working_hunks[i]
      /\ \A i \in 1 .. m : s[n + i] = root[data][i]
  <2>1. n \in Nat /\ m \in Nat
    BY <1>2, LenProperties
  <2>2. /\ Len(s) = n + m
        /\ \A i \in 1 .. n + m : s[i] = IF i <= n THEN working_hunks[i] ELSE root[data][i - n]
    BY <1>2, ConcatProperties
  <2>3. ASSUME NEW i \in 1 .. m PROVE s[n + i] = root[data][i]
    <3>1. n + i \in 1 .. n + m /\ ~(n + i <= n) /\ (n + i) - n = i
      BY <2>1
    <3> QED
      BY <2>2, <3>1
  <2>4. ASSUME NEW i \in 1 .. n PROVE s[i] = working_hunks[i]
    <3>1. i \in 1 .. n + m /\ i <= n
      BY <2>1
    <3> QED
      BY <2>2, <3>1
  <2> QED
    BY <2>1, <2>2, <2>3, <2>4
<1>4. /\ Len(root') = Len(root)
      /\ \A j \in 1 .. Len(root) : j # data => root'[j] = root[j]
  <2>1. << >> \in Seq(Hunk)
    BY EmptySeq
  <2>2. DOMAIN root = 1 .. Len(root)
    BY <1>2, LenProperties
  <2> QED
    BY <1>1, <1>2, <2>1, <2>2, ExceptSeq
<1> HIDE DEF s, n, m
<1>5. CASE InList(working_hunks, k)
  <2>1. PICK i \in 1 .. n : Covers(working_hunks[i], k)
    BY <1>5 DEF InList, n
  <2>2. i \in 1 .. Len(s) /\ s[i] = working_hunks[i]
    BY <1>3
  <2> QED
    BY <1>1, <2>1, <2>2 DEF InList
<1>6. CASE InLists(root, k)
  <2>1. PICK j \in 1 .. Len(root) : InList(root[j], k)
    BY <1>6 DEF InLists
  <2>2. CASE j = data
    <3>1. PICK i \in 1 .. m : Covers(root[data][i], k)
      BY <2>1, <2>2 DEF InList, m
    <3>2. n + i \in 1 .. Len(s) /\ s[n + i] = root[data][i]
      BY <1>3
    <3> QED
      BY <1>1, <3>1, <3>2 DEF InList
  <2>3. CASE j # data
    BY <1>4, <2>1, <2>3 DEF InLists
  <2> QED
    BY <2>2, <2>3
<1> QED
  BY <1>5, <1>6

\* Nor does the hunk for the rest of the longer file.
LEMMA RestKeepsKnown ==
  ASSUME Inv, Rest, NEW k, InList(working_hunks, k)
  PROVE  InList(working_hunks', k)
<1> DEFINE rest == ClampedHunk("DIFF", ptr, src.size, ptr, dst.size)
<1>1. working_hunks' = working_hunks \/ working_hunks' = Append(working_hunks, rest)
  BY DEF Rest, insert_hunk
<1>2. working_hunks \in Seq(Hunk) /\ Len(working_hunks) \in Nat
  BY LenProperties DEF Inv, TypeInv, TypeOK, HunkListTypeOK
<1>3. rest \in Hunk
  <2>1. src.size \in Int /\ dst.size \in Int /\ "DIFF" \in HunkType /\ ptr \in Nat
    BY FileBytes DEF Inv, TypeInv, TypeOK, HunkListTypeOK, HunkType
  <2> QED
    BY <2>1, ClampedHunkType
<1> HIDE DEF rest
<1>4. CASE working_hunks' = Append(working_hunks, rest)
  <2>1. /\ Len(working_hunks') = Len(working_hunks) + 1
        /\ \A i \in 1 .. Len(working_hunks) : working_hunks'[i] = working_hunks[i]
    BY <1>2, <1>3, <1>4, AppendProperties
  <2>2. PICK i \in 1 .. Len(working_hunks) : Covers(working_hunks[i], k)
    BY DEF InList
  <2>3. i \in 1 .. Len(working_hunks') /\ working_hunks'[i] = working_hunks[i]
    BY <1>2, <2>1
  <2> QED
    BY <2>2, <2>3 DEF InList
<1> QED
  BY <1>1, <1>4

\* Nor does the hunk of the tree that is extended: it keeps the bytes it has.
LEMMA CoalesceKeepsKnown ==
  ASSUME Inv, TreeCoalesce, NEW k \in Nat, InList(working_hunks, k)
  PROVE  InList(working_hunks', k)
<1> DEFINE o == otherhunk
           n == Len(working_hunks)
           hunk == working_hunks[list]
           longer == [working_hunks[o] EXCEPT !.src_end = hunk.src_end,
                                              !.dst_end = hunk.dst_end]
<1>1. /\ pc = "tree" /\ list <= n /\ o # 0
      /\ hunk.src_start = working_hunks[o].src_end + 1
      /\ working_hunks \in Seq(Hunk) /\ n \in Nat /\ o \in 0 .. n /\ list \in Nat
  BY LenProperties
     DEF TreeCoalesce, AtTree, Coalesces, Continues, Inv, TypeInv, TypeOK, HunkListTypeOK
<1>2. list \in 1 .. n /\ o \in 1 .. n
  <2>1. list > 0
    BY <1>1 DEF Inv, EndInv, TreeInv
  <2> QED
    BY <1>1, <2>1
<1>3. hunk \in Hunk /\ working_hunks[o] \in Hunk
  BY <1>1, <1>2, ElementOfSeq
<1>4. /\ longer \in Hunk /\ longer.src_start = working_hunks[o].src_start
      /\ longer.src_end = hunk.src_end
  BY <1>3 DEF Hunk
<1>5. working_hunks' = [working_hunks EXCEPT ![o] = longer]
  BY <1>1, <1>2, <1>3, LenProperties DEF TreeCoalesce, Hunk
<1>6. hunk.src_start <= hunk.src_end
  BY <1>1, <1>2 DEF Inv, EndInv, TreeInv, Left
<1> HIDE DEF longer, hunk, o, n
<1>7. /\ Len(working_hunks') = n
      /\ \A i \in 1 .. n : working_hunks'[i] = IF i = o THEN longer ELSE working_hunks[i]
  <2>1. DOMAIN working_hunks = 1 .. n
    BY <1>1, LenProperties DEF n
  <2> QED
    BY <1>1, <1>2, <1>4, <1>5, <2>1, ExceptSeq DEF n
<1>8. PICK i \in 1 .. n : Covers(working_hunks[i], k)
  BY DEF InList, n
<1>9. Covers(working_hunks'[i], k)
  <2>1. CASE i = o
    <3>1. working_hunks[o].src_start <= k /\ k <= working_hunks[o].src_end
      BY <1>8, <2>1 DEF Covers
    <3>2. /\ hunk.src_end \in Nat /\ hunk.src_start \in Nat /\ working_hunks[o].src_end \in Nat
      BY <1>3 DEF Hunk
    <3>3. longer.src_start <= k /\ k <= longer.src_end
      BY <1>1, <1>4, <1>6, <3>1, <3>2
    <3> QED
      BY <1>7, <2>1, <3>3 DEF Covers
  <2>2. CASE i # o
    BY <1>7, <1>8, <2>2
  <2> QED
    BY <2>1, <2>2
<1> QED
  BY <1>7, <1>8, <1>9 DEF InList

\* The finished tree has every byte.
DoneKnown == pc = "done" => \A k \in 0 .. Common - 1 : Known(k)

\* Its hunks tile the files.
LEMMA DoneKnows == Inv => DoneKnown
<1> SUFFICES ASSUME Inv, pc = "done", NEW k \in 0 .. Common - 1
             PROVE  Known(k)
  BY DEF DoneKnown
<1>1. k \in Nat /\ k < src.size
  <2>1. Common \in Nat /\ Common <= src.size /\ src.size \in Nat
    BY CommonType, FileBytes DEF Inv, TypeInv, TypeOK, HunkListTypeOK
  <2> QED
    BY <2>1
<1>2. PICK n \in 1 .. Len(hunks) : \A l \in 1 .. Len(hunks) :
        (Node(l).src_start <= k /\ k <= Node(l).src_end) <=> l = n
  BY <1>1, NodesTile
<1>3. Covers(Node(n), k)
  BY <1>2 DEF Covers
<1> QED
  BY <1>3, KnownPlaced DEF Inv, Placed

\* In the next state as well.
LEMMA DoneKnowsNext == Inv' => DoneKnown'
BY DoneKnows, PTL

\* What has a verdict keeps it: no step takes a byte out of the lists, and the
\* finished tree has them all.
LEMMA KnownKept ==
  ASSUME Inv, [Next]_vars, NEW k \in 0 .. Common - 1, Known(k)
  PROVE  Known(k)'
<1>1. Inv'
  BY NextKeepsInv
<1>2. k \in Nat
  <2>1. Common \in Nat
    BY CommonType DEF Inv, TypeInv, TypeOK, HunkListTypeOK
  <2> QED
    BY <2>1
<1>3. pc # "done" => InList(working_hunks, k) \/ InLists(root, k)
  BY KnownPlaced DEF Inv, Placed
<1>4. CASE Push
  <2>1. /\ pc = "push" /\ pc' = "push" /\ working_hunks' = working_hunks
        /\ root' = Append(root, << >>)
    BY <1>4 DEF Push
  <2>2. root \in Seq(Seq(Hunk)) /\ << >> \in Seq(Hunk) /\ Len(root) \in Nat
    BY EmptySeq, LenProperties DEF Inv, TypeInv, TypeOK
  <2>3. /\ Len(root') = Len(root) + 1
        /\ \A j \in 1 .. Len(root) : root'[j] = root[j]
    BY <2>1, <2>2, AppendProperties
  <2>4. ASSUME InLists(root, k) PROVE InLists(root', k)
    <3>1. PICK j \in 1 .. Len(root) : InList(root[j], k)
      BY <2>4 DEF InLists
    <3>2. j \in 1 .. Len(root') /\ root'[j] = root[j]
      BY <2>2, <2>3
    <3> QED
      BY <3>1, <3>2 DEF InLists
  <2> QED
    BY <1>1, <1>3, <2>1, <2>4, ListsKeepKnown
<1>5. CASE \E t \in Thread : Switch(t) \/ Finish(t)
  <2>1. pc # "done" /\ pc' # "done" /\ working_hunks' = working_hunks
    BY <1>5 DEF Switch, Finish, Running
  <2>2. InLists(root, k) => InLists(root', k)
    BY <1>5, ThreadKeepsKnown
  <2> QED
    BY <1>1, <1>3, <2>1, <2>2, ListsKeepKnown
<1>6. CASE Concat
  <2>1. pc # "done" /\ pc' # "done"
    BY <1>6 DEF Concat
  <2>2. InList(working_hunks', k) \/ InLists(root', k)
    BY <1>3, <1>6, <2>1, ConcatKeepsKnown
  <2> QED
    BY <1>1, <2>1, <2>2, ListsKeepKnown
<1>7. CASE Rest
  <2>1. pc # "done" /\ pc' # "done" /\ root' = root
    BY <1>7 DEF Rest
  <2>2. InList(working_hunks, k) => InList(working_hunks', k)
    BY <1>7, RestKeepsKnown
  <2> QED
    BY <1>1, <1>3, <2>1, <2>2, ListsKeepKnown
<1>8. CASE TreeCoalesce /\ UNCHANGED root
  <2>1. pc # "done" /\ pc' # "done"
    BY <1>8 DEF TreeCoalesce, AtTree
  <2>2. InList(working_hunks, k) => InList(working_hunks', k)
    BY <1>2, <1>8, CoalesceKeepsKnown
  <2> QED
    BY <1>1, <1>3, <1>8, <2>1, <2>2, ListsKeepKnown
<1>9. CASE TreeDone
  <2>1. pc' = "done" /\ UNCHANGED <<src, dst>>
    BY <1>9 DEF TreeDone
  <2>2. DoneKnown' /\ Common' = Common
    BY <1>1, <2>1, DoneKnowsNext, FilesKept
  <2> QED
    BY <2>1, <2>2 DEF DoneKnown
<1>10. CASE \/ Wait \/ Return \/ ConcatFault
            \/ \E t \in Thread : Take(t) \/ PrependFault(t)
  <2>1. pc # "done" /\ pc' # "done" /\ UNCHANGED <<working_hunks, root>>
    BY <1>10 DEF Wait, Return, ConcatFault, Take, PrependFault, Running
  <2> QED
    BY <1>1, <1>3, <2>1, ListsKeepKnown
<1>11. CASE (TreeInsert \/ (backtrack_hunks /\ pc = "backtrack")) /\ UNCHANGED root
  <2>1. pc # "done" /\ pc' # "done" /\ UNCHANGED working_hunks
    BY <1>11, BacktrackKeepsEnd DEF TreeInsert, AtTree, Inv
  <2> QED
    BY <1>1, <1>3, <1>11, <2>1, ListsKeepKnown
<1>12. CASE Terminated \/ UNCHANGED vars
  BY <1>12 DEF Terminated, vars, Known, Listed
<1> QED
  BY <1>4, <1>5, <1>6, <1>7, <1>8, <1>9, <1>10, <1>11, <1>12
     DEF Next, Caller, Work, backtrack_hunks, BacktrackHunk, BacktrackFault, AtIndexed,
         BacktrackSkip, BacktrackDone

\* The files never change.
LEMMA NextKeepsFiles == [Next]_vars => UNCHANGED <<src, dst>>
BY DEF Next, Caller, Work, vars, Push, Wait, Return, Concat, ConcatFault, Rest, Take, Switch,
       Finish, PrependFault, Terminated, backtrack_hunks, BacktrackHunk, BacktrackFault,
       BacktrackSkip, BacktrackDone, TreeCoalesce, TreeInsert, TreeDone

\* A step decides the bytes that have a verdict after it and had none before.
LEMMA StepDecides == Inv /\ [Next]_vars => Abstract!Next
<1> SUFFICES ASSUME Inv, [Next]_vars PROVE Abstract!Next
  OBVIOUS
<1> DEFINE bytes == {k \in 0 .. Common - 1 : ~Known(k) /\ Known(k)'}
<1>1. UNCHANGED <<src, dst>> /\ Common' = Common
  BY NextKeepsFiles, FilesKept
<1>2. Verdicts /\ Verdicts'
  BY VerdictsAre, VerdictsAreNext, NextKeepsInv
<1>3. ListedVerdict = [k \in 0 .. Common - 1 |-> ListedVerdict[k]]
  BY DEF ListedVerdict
<1>4. ListedVerdict' = [k \in 0 .. Common - 1 |-> ListedVerdict'[k]]
  BY <1>1 DEF ListedVerdict
<1>5. ASSUME NEW k \in 0 .. Common - 1
      PROVE  /\ k \in bytes => ListedVerdict[k] = "unknown"
             /\ ListedVerdict'[k] = IF k \in bytes THEN Abstract!Truth(k) ELSE ListedVerdict[k]
  <2>1. ListedVerdict[k] = IF Known(k) THEN Abstract!Truth(k) ELSE "unknown"
    BY <1>2 DEF Verdicts
  <2>2. ListedVerdict'[k] = IF Known(k)' THEN Abstract!Truth(k)' ELSE "unknown"
    BY <1>1, <1>2 DEF Verdicts
  <2>3. Abstract!Truth(k)' = Abstract!Truth(k)
    BY <1>1 DEF Abstract!Truth
  <2>4. Known(k) => Known(k)'
    BY KnownKept
  <2> QED
    BY <2>1, <2>2, <2>3, <2>4
<1>6. DOMAIN ListedVerdict = 0 .. Common - 1
  BY DEF ListedVerdict
<1>7. bytes \in SUBSET DOMAIN ListedVerdict
  BY <1>6
<1> HIDE DEF bytes
<1>8. ListedVerdict' = [k \in DOMAIN ListedVerdict |->
                         IF k \in bytes THEN Abstract!Truth(k) ELSE ListedVerdict[k]]
  BY <1>4, <1>5, <1>6
<1>9. Abstract!Decide(bytes)
  BY <1>1, <1>5, <1>6, <1>7, <1>8 DEF Abstract!Decide
<1> QED
  BY <1>7, <1>9 DEF Abstract!Next

\* At first nothing is decided.
LEMMA InitUndecided == Init => Abstract!Init
<1> SUFFICES ASSUME Init PROVE Abstract!Init
  OBVIOUS
<1>1. Listed = {}
  BY EmptySeq DEF Init, Listed
<1>2. \A k : TypesAt(k) = {}
  BY <1>1 DEF TypesAt
<1>3. ListedVerdict = [k \in 0 .. Common - 1 |-> "unknown"]
  BY <1>2 DEF ListedVerdict
<1>4. Abstract!Common(src, dst) = 0 .. Common - 1
  BY DEF Abstract!Common, Common, Smaller
<1> QED
  BY <1>3, <1>4 DEF Init, Abstract!Init, Files, Abstract!Files

\* The simple algorithm keeps the promise of ByteDiff under every schedule of
\* the pool: a byte gets its verdict once, the right one, and keeps it while
\* the lists are joined, coalesced and moved into the tree.
THEOREM ImplementsByteDiff == Spec => RefinesByteDiff
<1>1. Inv /\ [Next]_vars => [Abstract!Next]_<<src, dst, ListedVerdict>>
  BY StepDecides
<1> QED
  BY <1>1, InitUndecided, SpecInv, PTL DEF Spec, RefinesByteDiff, Abstract!Spec
=============================================================================
