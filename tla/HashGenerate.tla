---------------------------- MODULE HashGenerate ----------------------------
(***************************************************************************)
(* hi_hash_generate of src/src/hi_buzhash.c: the caller pushes one job per *)
(* block of the file to a thread pool and waits for it; each job hashes    *)
(* its windows into a table of its own and then merges that table into     *)
(* file->buzhashes under M_Mutex, one key at a time.                       *)
(***************************************************************************)
EXTENDS HashTable

CONSTANTS Thread,   \* the threads of the pool, MaxThreads of them
          NoJob     \* no job in a thread, no thread at the mutex

ASSUME PoolAssumption ==
  /\ IsFiniteSet(Thread) /\ Cardinality(Thread) = MaxThreads
  /\ NoJob \notin Nat \cup Thread

VARIABLES
  file,      \* the file being hashed
  buzhashes, \* file->buzhashes
  pushed,    \* jobs pushed so far
  queue,     \* the queue of the pool
  main,      \* where the caller is: "push", "wait" or "done"
  at,        \* where each thread is
  job,       \* the job each thread has taken
  local,     \* the hashtable of each thread
  key,       \* the key g_hash_table_foreach_remove is at
  found,     \* globalvalue: what merge_hashes found under the key
  mutex      \* the thread that holds M_Mutex

vars == <<file, buzhashes, pushed, queue, main, at, job, local, key, found,
          mutex>>

Free == NoJob

TypeOK ==
  /\ file \in Files
  /\ buzhashes \in [Hash -> Seq(Nat)]
  /\ pushed \in 0 .. JobCount(file)
  /\ queue \in Seq(Jobs(file))
  /\ main \in {"push", "wait", "done"}
  /\ at \in [Thread -> {"idle", "lock", "lookup", "insert"}]
  /\ job \in [Thread -> Jobs(file) \cup {NoJob}]
  /\ local \in [Thread -> [Hash -> Seq(Nat)]]
  /\ key \in [Thread -> Hash]
  /\ found \in [Thread -> Seq(Nat)]
  /\ mutex \in Thread \cup {Free}

Init ==
  /\ file \in Files
  /\ buzhashes = EmptyTable
  /\ pushed = 0
  /\ queue = << >>
  /\ main = "push"
  /\ at = [t \in Thread |-> "idle"]
  /\ job = [t \in Thread |-> NoJob]
  /\ local = [t \in Thread |-> EmptyTable]
  /\ key = [t \in Thread |-> 0]
  /\ found = [t \in Thread |-> << >>]
  /\ mutex = Free

\* Bug: one job too many.
PushOneMore ==
  /\ main = "push"
  /\ pushed <= JobCount(file)
  /\ pushed' = pushed + 1
  /\ queue' = Append(queue, pushed + 1)
  /\ UNCHANGED <<file, buzhashes, main, at, job, local, key, found, mutex>>

Push ==
  /\ main = "push"
  /\ pushed < JobCount(file)
  /\ pushed' = pushed + 1
  /\ queue' = Append(queue, pushed + 1)
  /\ UNCHANGED <<file, buzhashes, main, at, job, local, key, found, mutex>>

\* g_thread_pool_free(pool, FALSE, TRUE): no more jobs, wait for those pushed.
Wait ==
  /\ main = "push"
  /\ pushed = JobCount(file)
  /\ main' = "wait"
  /\ UNCHANGED <<file, buzhashes, pushed, queue, at, job, local, key, found,
                 mutex>>

\* Bug: the pool is freed without waiting for its jobs.
ReturnAtOnce ==
  /\ main = "wait"
  /\ main' = "done"
  /\ UNCHANGED <<file, buzhashes, pushed, queue, at, job, local, key, found,
                 mutex>>

Return ==
  /\ main = "wait"
  /\ queue = << >>
  /\ \A t \in Thread : at[t] = "idle"
  /\ main' = "done"
  /\ UNCHANGED <<file, buzhashes, pushed, queue, at, job, local, key, found,
                 mutex>>

\* A thread takes the oldest job and hashes its windows.
HashBlock(t) ==
  /\ at[t] = "idle"
  /\ queue # << >>
  /\ job' = [job EXCEPT ![t] = Head(queue)]
  /\ queue' = Tail(queue)
  /\ local' = [local EXCEPT ![t] = LocalTable(file, Head(queue))]
  /\ at' = [at EXCEPT ![t] = "lock"]
  /\ UNCHANGED <<file, buzhashes, pushed, main, key, found, mutex>>

\* Bug: the merge does not take the mutex.
MergeUnlocked(t) ==
  /\ at[t] = "lock"
  /\ at' = [at EXCEPT ![t] = "lookup"]
  /\ UNCHANGED <<file, buzhashes, pushed, queue, main, job, local, key, found,
                 mutex>>

Lock(t) ==
  /\ at[t] = "lock"
  /\ mutex = Free
  /\ mutex' = t
  /\ at' = [at EXCEPT ![t] = "lookup"]
  /\ UNCHANGED <<file, buzhashes, pushed, queue, main, job, local, key, found>>

\* merge_hashes looks the key up in the global table ...
Lookup(t) ==
  /\ at[t] = "lookup"
  /\ \E h \in Hash :
       /\ local[t][h] # << >>
       /\ key' = [key EXCEPT ![t] = h]
       /\ found' = [found EXCEPT ![t] = buzhashes[h]]
  /\ at' = [at EXCEPT ![t] = "insert"]
  /\ UNCHANGED <<file, buzhashes, pushed, queue, main, job, local, mutex>>

\* Bug: the local array replaces the global one.
InsertOverwrites(t) ==
  /\ at[t] = "insert"
  /\ buzhashes' = [buzhashes EXCEPT ![key[t]] = local[t][key[t]]]
  /\ local' = [local EXCEPT ![t][key[t]] = << >>]
  /\ at' = [at EXCEPT ![t] = "lookup"]
  /\ UNCHANGED <<file, pushed, queue, main, job, key, found, mutex>>

\* ... and stores the merged array there; the key leaves the local table.
Insert(t) ==
  /\ at[t] = "insert"
  /\ buzhashes' = [buzhashes EXCEPT
                     ![key[t]] = merge_hashes(found[t], local[t][key[t]])]
  /\ local' = [local EXCEPT ![t][key[t]] = << >>]
  /\ at' = [at EXCEPT ![t] = "lookup"]
  /\ UNCHANGED <<file, pushed, queue, main, job, key, found, mutex>>

\* Bug: the mutex is not released.
UnlockForgotten(t) ==
  /\ at[t] = "lookup"
  /\ local[t] = EmptyTable
  /\ at' = [at EXCEPT ![t] = "idle"]
  /\ job' = [job EXCEPT ![t] = NoJob]
  /\ UNCHANGED <<file, buzhashes, pushed, queue, main, local, key, found, mutex>>

Unlock(t) ==
  /\ at[t] = "lookup"
  /\ local[t] = EmptyTable
  /\ mutex' = Free
  /\ at' = [at EXCEPT ![t] = "idle"]
  /\ job' = [job EXCEPT ![t] = NoJob]
  /\ UNCHANGED <<file, buzhashes, pushed, queue, main, local, key, found>>

Work(t) == HashBlock(t) \/ Lock(t) \/ Lookup(t) \/ Insert(t) \/ Unlock(t)

Terminated == main = "done" /\ UNCHANGED vars

Next == Push \/ Wait \/ Return \/ (\E t \in Thread : Work(t)) \/ Terminated

\* The caller and every thread of the pool keep running.
Fairness == WF_vars(Push \/ Wait \/ Return) /\ \A t \in Thread : WF_vars(Work(t))

Spec == Init /\ [][Next]_vars /\ Fairness

-----------------------------------------------------------------------------

Started == {j \in Jobs(file) : j <= pushed} \ ToSet(queue)

Occurrences(array, offset) == Cardinality({i \in DOMAIN array : array[i] = offset})

\* Every window of a started job is in exactly one place, the global table or
\* the table of the thread that still has it to merge, and once in it: merging
\* under the mutex loses nothing and lists nothing twice.
OffsetsConserved ==
  \A j \in Started : \A k \in 1 .. BlockWindows :
    LET offset == JobOffsets(j)[k]
        h == WindowHash(file, offset)
        unmerged == {t \in Thread : job[t] = j /\ local[t][h] # << >>}
    IN  Occurrences(buzhashes[h], offset) + Cardinality(unmerged) = 1

\* The array a merge is about to grow is still the one it looked up: no other
\* thread has stored under the key since (the reason for M_Mutex).
FoundIsCurrent ==
  \A t \in Thread : at[t] = "insert" => found[t] = buzhashes[key[t]]

\* The first offset of every array is its least, whatever order the blocks
\* were merged in: what the comparison of first elements in merge_hashes buys.
FirstIsLeast ==
  \A h \in Hash : \A i \in DOMAIN buzhashes[h] : buzhashes[h][1] <= buzhashes[h][i]

\* What the pool leaves behind is one of the tables HashTables allows; RKDiff
\* takes hi_hash_generate as the choice of one of those.
PossibleTable == main = "done" => buzhashes \in HashTables(file)

\* Under every interleaving of the threads the table implements WindowIndex: no
\* merge takes back what another one has entered.
Index == INSTANCE WindowIndex WITH index <- [h \in Hash |-> ToSet(buzhashes[h])]
RefinesWindowIndex == Index!Spec

\* The caller gets out of g_thread_pool_free: every job is run and merged.
Completes == <>(main = "done")

\* "Ensure the order of the array is valid" (hi_buzhash.c:115): every array
\* lists its offsets in ascending order, as the search in the far mode of
\* hi_diff.c, which stops at the first offset that is too far, expects.
ArraysAscending ==
  \A h \in Hash : \A i \in DOMAIN buzhashes[h] :
    i > 1 => buzhashes[h][i - 1] < buzhashes[h][i]
=============================================================================
