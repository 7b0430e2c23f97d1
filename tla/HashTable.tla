----------------------------- MODULE HashTable -----------------------------
(***************************************************************************)
(* The table of window hashes that hi_hash_generate (src/src/hi_buzhash.c) *)
(* builds over a file: from a hash to the array of the offsets of the      *)
(* windows that have it.  A key that is not in the table maps to <<>>; the *)
(* count the code keeps in value[0] is the length of the sequence.         *)
(***************************************************************************)
EXTENDS FileImage, RabinKarp, SequencesExt

CONSTANTS BlockWindows,   \* windows in a block: 1024 in the code
          MaxThreads      \* max_threads of the pool: 4 in the code

ASSUME TableAssumption ==
  /\ BlockWindows \in Nat \ {0}
  /\ MaxThreads \in Nat \ {0}

\* With the constants of the code nothing the hash calculates wraps around:
\* a hash is below 2^23, and is multiplied by 256 or by a byte.
ASSUME WordAssumption ==
  /\ 2 * PRIME <= UINT
  /\ PRIME * BASE < UINT
  /\ \A value \in Byte : (PRIME - 1) * BASE + value < UINT /\ PRIME * value < UINT

blocksize == hashbytes * BlockWindows

\* The hash of the window at start, over the bytes that are in the file: 0
\* when there are none.
WindowHash(file, start) ==
  LET prefix[n \in 0 .. hashbytes] ==
        IF n = 0 THEN 0
        ELSE IF start + n - 1 < file.size
        THEN rabinkarp_add(prefix[n - 1], file.memory[start + n - 1])
        ELSE prefix[n - 1]
  IN  prefix[hashbytes]

\* The jobs pushed for a file, numbered from 1: one per started block.
JobCount(file) == (file.size + blocksize - 1) \div blocksize
Jobs(file) == 1 .. JobCount(file)

\* The windows a job hashes.  Its length argument is block_start + blocksize,
\* which the last block does not bound by the size of the file.
JobOffsets(job) ==
  [k \in 1 .. BlockWindows |-> (job - 1) * blocksize + (k - 1) * hashbytes]

EmptyTable == [h \in Hash |-> << >>]

\* The table a job fills: each window goes to the end of the array of its hash.
LocalTable(file, job) ==
  LET hashed[n \in 0 .. BlockWindows] ==
        IF n = 0 THEN EmptyTable
        ELSE [hashed[n - 1] EXCEPT
                ![WindowHash(file, JobOffsets(job)[n])] = Append(@, JobOffsets(job)[n])]
  IN  hashed[BlockWindows]

\* Bug: the local array is always appended.
AppendAlways(globalvalue, value) == globalvalue \o value

\* merge_hashes for one key: the global array and the local one, the one with
\* the smaller first offset in front.
merge_hashes(globalvalue, value) ==
  IF globalvalue = << >> THEN value
  ELSE IF globalvalue[1] < value[1] THEN globalvalue \o value
  ELSE value \o globalvalue

MergeTable(table, local) ==
  [h \in Hash |-> IF local[h] = << >> THEN table[h]
                  ELSE merge_hashes(table[h], local[h])]

\* The orders in which the jobs can take the mutex.  The pool starts them in
\* order on MaxThreads threads, so fewer than MaxThreads earlier jobs can be
\* unmerged when a job merges.
MergeOrders(file) ==
  {order \in SetToSeqs(Jobs(file)) :
     \A i \in DOMAIN order :
       Cardinality({j \in i + 1 .. Len(order) : order[j] < order[i]})
         < MaxThreads}

\* The table after the jobs of order have merged theirs, one after the other.
MergedTable(file, order) ==
  LET merged[n \in 0 .. Len(order)] ==
        IF n = 0 THEN EmptyTable
        ELSE MergeTable(merged[n - 1], LocalTable(file, order[n]))
  IN  merged[Len(order)]

\* The tables hi_hash_generate can leave in file->buzhashes.
HashTables(file) == {MergedTable(file, order) : order \in MergeOrders(file)}
=============================================================================
