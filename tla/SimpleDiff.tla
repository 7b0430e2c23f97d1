----------------------------- MODULE SimpleDiff -----------------------------
(***************************************************************************)
(* hi_diff_calculate_simple of src/src/hi_diff.c: the common part of the   *)
(* files is cut into blocks, a pool of threads lists the equal and the     *)
(* different stretches of each block, and the caller joins the lists in    *)
(* the order of the blocks before they go into the tree.                   *)
(***************************************************************************)
EXTENDS HunkList, FiniteSets

CONSTANTS blocksize,  \* bytes in a block: 128 * 1024 in the code
          Thread,     \* the threads of the pool: 4 in the code
          NoJob

ASSUME PoolAssumption ==
  /\ blocksize \in Nat \ {0}
  /\ IsFiniteSet(Thread) /\ Thread # {}
  /\ NoJob \notin Nat

VARIABLES
  ptr,      \* where the next block starts
  root,     \* the thread data of the jobs pushed: the hunks each has listed
  queue,    \* the queue of the pool
  job,      \* the job each thread works on
  mode,     \* SYNC or UNSYNCED_SIMPLE, in each thread
  at,       \* the byte each thread is at
  start,    \* the start of its working hunk
  data      \* thread_data: the job the caller consolidates

pool == <<queue, job, mode, at, start>>
vars == <<src, dst, pc, working_hunks, list, otherhunk, hunks, ptr, root, pool,
          data>>

Smaller(m, n) == IF m < n THEN m ELSE n

Common == Smaller(src.size, dst.size)

\* The block of a job: startpos and endpos of its thread data.
startpos(j) == (j - 1) * blocksize
endpos(j) == Smaller(j * blocksize, Common)

TypeOK ==
  /\ HunkListTypeOK
  /\ pc \in {"push", "wait", "concat", "backtrack", "tree", "done", "fault"}
  /\ ptr \in Nat
  /\ root \in Seq(Seq(Hunk))
  /\ queue \in Seq(Nat \ {0})
  /\ \A i \in DOMAIN queue : queue[i] <= Len(root)
  /\ job \in [Thread -> Nat \cup {NoJob}]
  /\ \A t \in Thread : job[t] # NoJob => job[t] \in DOMAIN root
  /\ mode \in [Thread -> {"SYNC", "UNSYNCED_SIMPLE"}]
  /\ at \in [Thread -> Nat]
  /\ start \in [Thread -> Nat]
  /\ data \in Nat

Init ==
  /\ src \in Files /\ dst \in Files
  /\ pc = "push"
  /\ working_hunks = << >>
  /\ list = 0 /\ otherhunk = 0 /\ hunks = << >>
  /\ ptr = 0
  /\ root = << >>
  /\ queue = << >>
  /\ job = [t \in Thread |-> NoJob]
  /\ mode = [t \in Thread |-> "SYNC"]
  /\ at = [t \in Thread |-> 0]
  /\ start = [t \in Thread |-> 0]
  /\ data = 0

tree == <<list, otherhunk, hunks>>

\* Bug: the job is numbered one too high.
PushWrongJob ==
  /\ pc = "push"
  /\ ptr < Common
  /\ root' = Append(root, << >>)
  /\ queue' = Append(queue, Len(root) + 2)
  /\ ptr' = Smaller(ptr + blocksize, Common)
  /\ UNCHANGED <<src, dst, pc, working_hunks, tree, job, mode, at, start, data>>

\* The caller cuts off the next block and pushes it.
Push ==
  /\ pc = "push"
  /\ ptr < Common
  /\ root' = Append(root, << >>)
  /\ queue' = Append(queue, Len(root) + 1)
  /\ ptr' = Smaller(ptr + blocksize, Common)
  /\ UNCHANGED <<src, dst, pc, working_hunks, tree, job, mode, at, start, data>>

Wait ==
  /\ pc = "push"
  /\ ptr >= Common
  /\ pc' = "wait"
  /\ UNCHANGED <<src, dst, working_hunks, tree, ptr, root, pool, data>>

-----------------------------------------------------------------------------
\* hi_diff_calculate_simple_thread.

Running(t) == pc \in {"push", "wait"} /\ job[t] # NoJob

\* Bug: the mode of the last job is kept.
TakeKeepsMode(t) ==
  /\ pc \in {"push", "wait"}
  /\ job[t] = NoJob
  /\ queue # << >>
  /\ queue' = Tail(queue)
  /\ job' = [job EXCEPT ![t] = Head(queue)]
  /\ at' = [at EXCEPT ![t] = startpos(Head(queue))]
  /\ start' = [start EXCEPT ![t] = startpos(Head(queue))]
  /\ UNCHANGED <<src, dst, pc, working_hunks, tree, ptr, root, mode, data>>

Take(t) ==
  /\ pc \in {"push", "wait"}
  /\ job[t] = NoJob
  /\ queue # << >>
  /\ queue' = Tail(queue)
  /\ job' = [job EXCEPT ![t] = Head(queue)]
  /\ mode' = [mode EXCEPT ![t] = "SYNC"]
  /\ at' = [at EXCEPT ![t] = startpos(Head(queue))]
  /\ start' = [start EXCEPT ![t] = startpos(Head(queue))]
  /\ UNCHANGED <<src, dst, pc, working_hunks, tree, ptr, root, data>>

Equal(i) == src.memory[i] = dst.memory[i]

\* From here on the bytes up to i (excluded) are all equal, or all different,
\* and i is where hi_diff_memcmp_ptr or hi_diff_memdiff_ptr stops: the first
\* byte that is not so, or the end of the block.
StopsAt(t, i) ==
  /\ \A k \in at[t] .. i - 1 : Equal(k) <=> mode[t] = "SYNC"
  /\ i < endpos(job[t]) => (Equal(i) <=> mode[t] # "SYNC")

\* The type of the working hunk follows the mode.
WorkingType(t) == IF mode[t] = "SYNC" THEN "SAME" ELSE "DIFF"

\* Bug: the hunk ends at the byte where the stretch stopped.
InsertTooLong(t, i) ==
  root' = [root EXCEPT ![job[t]] =
             Append(@, ClampedHunk(WorkingType(t), start[t], i, start[t], i))]

\* insert_hunk_threaded for the working hunk of t, which ends before byte i.
insert_hunk_threaded(t, i) ==
  root' = [root EXCEPT ![job[t]] =
             Append(@, ClampedHunk(WorkingType(t), start[t], i - 1, start[t], i - 1))]

\* The stretch ends inside the block: the hunk is listed, unless it has no
\* byte, and the mode changes.
Switch(t) ==
  /\ Running(t)
  /\ \E i \in at[t] .. endpos(job[t]) - 1 :
       /\ StopsAt(t, i)
       /\ IF mode[t] = "SYNC" /\ i = at[t]
          THEN UNCHANGED root
          ELSE insert_hunk_threaded(t, i)
       /\ at' = [at EXCEPT ![t] = i]
       /\ start' = [start EXCEPT ![t] = i]
  /\ mode' = [mode EXCEPT ![t] = IF @ = "SYNC" THEN "UNSYNCED_SIMPLE" ELSE "SYNC"]
  /\ UNCHANGED <<src, dst, pc, working_hunks, tree, ptr, queue, job, data>>

\* The stretch goes on to the end of the block: the last hunk of the job.
Finish(t) ==
  /\ Running(t)
  /\ StopsAt(t, endpos(job[t]))
  /\ insert_hunk_threaded(t, endpos(job[t]))
  /\ at' = [at EXCEPT ![t] = endpos(job[t])]
  /\ job' = [job EXCEPT ![t] = NoJob]
  /\ UNCHANGED <<src, dst, pc, working_hunks, tree, ptr, queue, mode, start,
                 data>>

\* thread_data comes from malloc and its root is not set: the first prepend of
\* a job goes through whatever the memory holds, which need not be NULL.
PrependFault(t) ==
  /\ Running(t)
  /\ root[job[t]] = << >>
  /\ pc' = "fault"
  /\ UNCHANGED <<src, dst, working_hunks, tree, ptr, root, pool, data>>

Work(t) == Take(t) \/ Switch(t) \/ Finish(t) \/ PrependFault(t)

-----------------------------------------------------------------------------
\* The caller, when the pool is empty.

Return ==
  /\ pc = "wait"
  /\ queue = << >>
  /\ \A t \in Thread : job[t] = NoJob
  /\ pc' = "concat"
  /\ data' = 1
  /\ UNCHANGED <<src, dst, working_hunks, tree, ptr, root, pool>>

\* Bug: the list walk does not advance.
ConcatStays ==
  /\ pc = "concat"
  /\ data <= Len(root)
  /\ working_hunks' = working_hunks \o root[data]
  /\ root' = [root EXCEPT ![data] = << >>]
  /\ UNCHANGED <<src, dst, pc, tree, ptr, pool, data>>

Concat ==
  /\ pc = "concat"
  /\ data <= Len(root)
  /\ working_hunks' = working_hunks \o root[data]
  /\ root' = [root EXCEPT ![data] = << >>]
  /\ data' = data + 1
  /\ UNCHANGED <<src, dst, pc, tree, ptr, pool>>

\* next of the last thread data is not set either: the list has an end only if
\* the memory happened to hold NULL.
ConcatFault ==
  /\ pc = "concat"
  /\ data > Len(root)
  /\ pc' = "fault"
  /\ UNCHANGED <<src, dst, working_hunks, tree, ptr, root, pool, data>>

\* Bug: no hunk for the rest when one of the files has none.
RestOfBoth ==
  /\ pc = "concat"
  /\ data > Len(root)
  /\ working_hunks' =
       IF ptr = src.size \/ ptr = dst.size
       THEN working_hunks
       ELSE insert_hunk(ClampedHunk("DIFF", ptr, src.size, ptr, dst.size))
  /\ pc' = "backtrack"
  /\ list' = 1
  /\ UNCHANGED <<src, dst, otherhunk, hunks, ptr, root, pool, data>>

\* The part that only one of the files has is one more hunk.
Rest ==
  /\ pc = "concat"
  /\ data > Len(root)
  /\ working_hunks' =
       IF ptr = src.size /\ ptr = dst.size
       THEN working_hunks
       ELSE insert_hunk(ClampedHunk("DIFF", ptr, src.size, ptr, dst.size))
  /\ pc' = "backtrack"
  /\ list' = 1
  /\ UNCHANGED <<src, dst, otherhunk, hunks, ptr, root, pool, data>>

Terminated == pc \in {"done", "fault"} /\ UNCHANGED vars

Caller ==
  \/ Push \/ Wait \/ Return \/ Concat \/ ConcatFault \/ Rest
  \/ (backtrack_hunks /\ UNCHANGED <<ptr, root, pool, data>>)

Next == Caller \/ (\E t \in Thread : Work(t)) \/ Terminated

\* The caller and every thread of the pool keep running.
Fairness == WF_vars(Caller) /\ \A t \in Thread : WF_vars(Work(t))

Spec == Init /\ [][Next]_vars /\ Fairness

-----------------------------------------------------------------------------
Covers(hunk, i) == hunk.src_start <= i /\ i <= hunk.src_end

\* The hunks a byte can be found in: the lists of the jobs and the working
\* list, and in the end only the tree.
Listed ==
  IF pc = "done"
  THEN {working_hunks[hunks[n].value] : n \in DOMAIN hunks}
  ELSE {working_hunks[i] : i \in DOMAIN working_hunks}
         \cup UNION {{root[j][i] : i \in DOMAIN root[j]} : j \in DOMAIN root}

TypesAt(i) == {hunk.type : hunk \in {h \in Listed : Covers(h, i)}}

ListedVerdict ==
  [i \in 0 .. Common - 1 |->
     CASE TypesAt(i) = {} -> "unknown"
       [] TypesAt(i) = {"SAME"} -> "same"
       [] TypesAt(i) = {"DIFF"} -> "diff"
       [] OTHER -> "both"]

\* Every byte is decided once, by one thread, and rightly; joining the lists,
\* coalescing them and building the tree take no verdict back.
Abstract == INSTANCE ByteDiff WITH verdict <- ListedVerdict
RefinesByteDiff == Abstract!Spec

\* The finished tree does not show the blocks: neighbours differ in type, so
\* that every hunk is a maximal stretch whichever threads found its parts.
MaximalHunks ==
  pc = "done" =>
    \A n \in DOMAIN hunks :
      n > 1 => working_hunks[hunks[n - 1].value].type
                 # working_hunks[hunks[n].value].type

\* In the finished tree the hunks tile both files up to the end of the longer
\* one, without a byte in two hunks.
TreeTiles ==
  pc = "done" =>
    \A i \in 0 .. src.size + dst.size :
      LET Holding(from, to) ==
            Cardinality({n \in DOMAIN hunks :
                           LET h == working_hunks[hunks[n].value]
                           IN  h[from] <= i /\ i <= h[to]})
      IN  /\ i < src.size => Holding("src_start", "src_end") = 1
          /\ i < dst.size => Holding("dst_start", "dst_end") = 1

\* A thread has listed its block up to the start of its working hunk and no
\* further: no two jobs list the same byte, whatever the order they run in.
ListsOwnBlock ==
  \A j \in DOMAIN root : \A i \in DOMAIN root[j] :
    /\ root[j][i].src_start = IF i = 1 THEN startpos(j) ELSE root[j][i - 1].src_end + 1
    /\ root[j][i].src_end < endpos(j)

\* The diff comes to an end under every schedule of the pool.
Terminates == <>(pc \in {"done", "fault"})

\* "s = Simple (faster, but assumes only differences, no insertion or removal
\* of bytes)" (hi.c:65): the algorithm the user may choose gets to its result.
Completes == <>(pc = "done")
=============================================================================
