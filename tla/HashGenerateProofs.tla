------------------------- MODULE HashGenerateProofs -------------------------
(***************************************************************************)
(* Proofs about the pool of hi_hash_generate.  M_Mutex makes merging a key *)
(* atomic; so, however the threads are interleaved, no window is lost or   *)
(* entered twice, every array begins with its least offset, and the table  *)
(* grows as WindowIndex says.  The invariant: a pushed job is in the queue *)
(* or in one thread, a thread has under a key what its block has there     *)
(* until it has merged the key, and a window is in the global table once   *)
(* it is merged, and not before.                                           *)
(***************************************************************************)
EXTENDS HashGenerate, HashTableProofs, FiniteSetTheorems

Merging(t) == at[t] \in {"lookup", "insert"}

\* A thread that merges holds the mutex, and what it has looked up is what the
\* table still holds.
MutexInv ==
  /\ at \in [Thread -> {"idle", "lock", "lookup", "insert"}]
  /\ DOMAIN key = Thread /\ DOMAIN found = Thread
  /\ \A t \in Thread : Merging(t) => mutex = t
  /\ FoundIsCurrent

\* No thread merges before the first block is taken.
LEMMA InitMutexInv == Init => MutexInv
<1>1. Init => /\ at \in [Thread -> {"idle", "lock", "lookup", "insert"}]
              /\ DOMAIN key = Thread /\ DOMAIN found = Thread
  BY DEF Init
<1>2. Init => \A t \in Thread : at[t] = "idle"
  BY DEF Init
<1> QED
  BY <1>1, <1>2 DEF MutexInv, Merging, FoundIsCurrent

\* Steps that leave the threads, the table and the mutex alone.
LEMMA CallerKeepsMutexInv ==
  ASSUME MutexInv, UNCHANGED <<buzhashes, at, key, found, mutex>>
  PROVE  MutexInv'
BY DEF MutexInv, Merging, FoundIsCurrent

\* A thread that works leaves the others' lookups valid.
LEMMA WorkKeepsMutexInv ==
  ASSUME MutexInv, NEW t \in Thread, Work(t)
  PROVE  MutexInv'
<1> USE DEF MutexInv, Merging, FoundIsCurrent
<1>1. CASE HashBlock(t)
  BY <1>1 DEF HashBlock
<1>2. CASE Lock(t)
  <2>1. \A u \in Thread : ~Merging(u)
    BY <1>2, PoolAssumption DEF Lock, Free
  <2>2. /\ at' = [at EXCEPT ![t] = "lookup"] /\ mutex' = t
        /\ UNCHANGED <<buzhashes, key, found>>
    BY <1>2 DEF Lock
  <2>3. at' \in [Thread -> {"idle", "lock", "lookup", "insert"}]
    BY <2>2
  <2>4. \A u \in Thread : u # t => ~Merging(u)'
    BY <2>1, <2>2
  <2>5. at'[t] = "lookup"
    BY <2>2
  <2>6. \A u \in Thread : at'[u] # "insert"
    BY <2>4, <2>5
  <2> QED
    BY <2>2, <2>3, <2>4, <2>6
<1>3. CASE Lookup(t)
  <2>1. PICK h \in Hash : /\ key' = [key EXCEPT ![t] = h]
                         /\ found' = [found EXCEPT ![t] = buzhashes[h]]
    BY <1>3 DEF Lookup
  <2>2. /\ at' = [at EXCEPT ![t] = "insert"]
        /\ at[t] = "lookup"
        /\ UNCHANGED <<buzhashes, mutex>>
    BY <1>3 DEF Lookup
  <2>3. \A u \in Thread : Merging(u)' => mutex' = u
    BY <2>2
  <2>4. FoundIsCurrent'
    BY <2>1, <2>2
  <2> QED
    BY <2>1, <2>2, <2>3, <2>4
<1>4. CASE Insert(t)
  BY <1>4 DEF Insert
<1>5. CASE Unlock(t)
  BY <1>5 DEF Unlock
<1> QED
  BY <1>1, <1>2, <1>3, <1>4, <1>5 DEF Work

\* Every step does.
LEMMA NextKeepsMutexInv == MutexInv /\ [Next]_vars => MutexInv'
<1> SUFFICES ASSUME MutexInv, [Next]_vars PROVE MutexInv'
  OBVIOUS
<1>1. CASE Push \/ Wait \/ Return
  BY <1>1, CallerKeepsMutexInv DEF Push, Wait, Return
<1>2. CASE \E t \in Thread : Work(t)
  BY <1>2, WorkKeepsMutexInv
<1>3. CASE Terminated \/ UNCHANGED vars
  BY <1>3, CallerKeepsMutexInv DEF Terminated, vars
<1> QED
  BY <1>1, <1>2, <1>3 DEF Next

\* However many threads merge, the array a merge grows is the one it looked up.
THEOREM MergeIsAtomic == Spec => []FoundIsCurrent
<1>1. MutexInv => FoundIsCurrent
  BY DEF MutexInv
<1> QED
  BY <1>1, InitMutexInv, NextKeepsMutexInv, PTL DEF Spec
-----------------------------------------------------------------------------
\* The jobs of a file.
LEMMA JobsType ==
  ASSUME NEW f \in Files
  PROVE  JobCount(f) \in Nat /\ Jobs(f) \subseteq Nat \ {0}
<1> DEFINE n == f.size + blocksize - 1
           b == blocksize
<1>1. f.size \in Nat \ {0}
  BY MemoryBytes
<1>2. blocksize \in Nat \ {0}
  BY OffsetsAscend, 1 \in Nat \ {0}
<1>3. n \in Nat /\ b \in Nat \ {0}
  BY <1>1, <1>2
<1>4. JobCount(f) = n \div b
  BY DEF JobCount
<1> HIDE DEF n, b
<1>5. n \div b \in Nat
  BY <1>3
<1> QED
  BY <1>4, <1>5 DEF Jobs

\* What the queue, the threads and the tables are made of.
LEMMA TypeFacts ==
  ASSUME TypeOK
  PROVE  /\ Jobs(file) \subseteq Nat \ {0} /\ Len(queue) \in Nat
         /\ DOMAIN queue = 1 .. Len(queue)
         /\ \A i \in 1 .. Len(queue) : queue[i] \in Jobs(file)
         /\ \A h \in Hash : buzhashes[h] \in Seq(Nat)
         /\ \A t \in Thread :
              /\ found[t] \in Seq(Nat) /\ key[t] \in Hash
              /\ local[t] \in [Hash -> Seq(Nat)]
              /\ job[t] # NoJob => job[t] \in Jobs(file)
BY JobsType, LenProperties, ElementOfSeq DEF TypeOK

\* A job that is taken from the queue leaves the others in it.
LEMMA TakenFromQueue ==
  ASSUME TypeOK, queue # << >>, queue' = Tail(queue)
  PROVE  /\ Head(queue) = queue[1] /\ Head(queue) \in Jobs(file)
         /\ queue' \in Seq(Jobs(file))
         /\ Len(queue) \in Nat \ {0} /\ Len(queue') = Len(queue) - 1
         /\ \A i \in 1 .. Len(queue') : i + 1 \in 1 .. Len(queue) /\ queue'[i] = queue[i + 1]
<1>1. queue \in Seq(Jobs(file))
  BY DEF TypeOK
<1>2. /\ Head(queue) = queue[1] /\ Head(queue) \in Jobs(file)
      /\ Tail(queue) \in Seq(Jobs(file)) /\ Len(Tail(queue)) = Len(queue) - 1
      /\ \A i \in 1 .. Len(Tail(queue)) : Tail(queue)[i] = queue[i + 1]
  BY <1>1, HeadTailProperties, EmptySeq
<1>3. Len(queue) \in Nat \ {0}
  BY <1>1, EmptySeq, LenProperties
<1>4. \A i \in 1 .. Len(queue) - 1 : i + 1 \in 1 .. Len(queue)
  BY <1>3
<1> QED
  BY <1>2, <1>3, <1>4

\* A job that is pushed comes after the others.
LEMMA PushedToQueue ==
  ASSUME TypeOK, Push
  PROVE  /\ pushed + 1 \in Jobs(file) /\ pushed' = pushed + 1 /\ pushed \in Nat
         /\ pushed' \in 0 .. JobCount(file)
         /\ queue' \in Seq(Jobs(file))
         /\ Len(queue') = Len(queue) + 1 /\ Len(queue) \in Nat
         /\ \A i \in 1 .. Len(queue) : queue'[i] = queue[i]
         /\ queue'[Len(queue) + 1] = pushed + 1
<1>1. /\ queue \in Seq(Jobs(file)) /\ pushed \in 0 .. JobCount(file) /\ pushed < JobCount(file)
      /\ JobCount(file) \in Nat /\ pushed' = pushed + 1 /\ queue' = Append(queue, pushed + 1)
  BY JobsType DEF TypeOK, Push
<1>2. pushed + 1 \in Jobs(file) /\ pushed \in Nat /\ pushed' \in 0 .. JobCount(file)
  BY <1>1 DEF Jobs
<1> QED
  BY <1>1, <1>2, AppendProperties, LenProperties

-----------------------------------------------------------------------------
\* A job is in the queue once or in one thread, and has been pushed.
JobsInv ==
  /\ \A i \in 1 .. Len(queue) :
       /\ queue[i] <= pushed
       /\ \A k \in 1 .. Len(queue) : queue[k] = queue[i] => k = i
       /\ \A t \in Thread : job[t] # queue[i]
  /\ \A t \in Thread :
       /\ at[t] = "idle" <=> job[t] = NoJob
       /\ job[t] # NoJob => job[t] <= pushed
       /\ \A u \in Thread : job[t] # NoJob /\ job[u] = job[t] => u = t

\* A thread has under each key what its block has there, or has merged it.
LocalInv ==
  \A t \in Thread : job[t] # NoJob =>
    /\ \A h \in Hash : local[t][h] = << >> \/ local[t][h] = LocalTable(file, job[t])[h]
    /\ at[t] = "insert" => local[t][key[t]] # << >>

\* The windows of job j that have hash h are still in the table of thread t.
Unmerged(t, j, h) == job[t] = j /\ local[t][h] # << >>

Begun(j) == j <= pushed /\ \A i \in 1 .. Len(queue) : queue[i] # j

Merged(j, h) == Begun(j) /\ \A t \in Thread : ~Unmerged(t, j, h)

\* A window is in the global table once, under its hash, when it is merged,
\* and not there before.
PlacedInv ==
  \A j \in Jobs(file), k \in 1 .. BlockWindows :
    LET offset == JobOffsets(j)[k]
        h == WindowHash(file, offset)
    IN  IF Merged(j, h) THEN Once(buzhashes[h], offset) ELSE Never(buzhashes[h], offset)

LeastInv == \A h \in Hash : FirstLeast(buzhashes[h])

Inv == TypeOK /\ JobsInv /\ LocalInv /\ PlacedInv /\ LeastInv

\* A window's offset and hash.
LEMMA WindowType ==
  ASSUME TypeOK, NEW j \in Jobs(file), NEW k \in 1 .. BlockWindows
  PROVE  JobOffsets(j)[k] \in Nat /\ WindowHash(file, JobOffsets(j)[k]) \in Hash
<1>1. file \in Files /\ j \in Nat \ {0}
  BY TypeFacts DEF TypeOK
<1>2. JobOffsets(j)[k] \in Nat
  BY <1>1, OffsetsAscend
<1> QED
  BY <1>1, <1>2, WindowHashType

\* The global table only has to be looked at again when it, or what is merged,
\* changes.
LEMMA PlacedKept ==
  ASSUME PlacedInv, UNCHANGED <<file, buzhashes>>,
         \A j \in Jobs(file), k \in 1 .. BlockWindows :
           Merged(j, WindowHash(file, JobOffsets(j)[k]))'
             <=> Merged(j, WindowHash(file, JobOffsets(j)[k]))
  PROVE  PlacedInv'
BY DEF PlacedInv

\* At first nothing is pushed and nothing is in a table.
LEMMA InitTable == Init => Inv
<1> SUFFICES ASSUME Init PROVE Inv
  OBVIOUS
<1>1. file \in Files /\ JobCount(file) \in Nat
  BY JobsType DEF Init
<1>2. /\ << >> \in Seq(Nat) /\ << >> \in Seq(Jobs(file)) /\ Len(<< >>) = 0
      /\ EmptyTable \in [Hash -> Seq(Nat)] /\ \A h \in Hash : EmptyTable[h] = << >>
  BY EmptySeq DEF EmptyTable
<1>3. 0 \in Hash
  BY HashAssumption DEF Hash
<1>4. TypeOK
  BY <1>1, <1>2, <1>3 DEF Init, TypeOK, Free
<1>5. JobsInv
  BY <1>2 DEF Init, JobsInv
<1>6. LocalInv
  BY DEF Init, LocalInv
<1>7. PlacedInv
  <2> SUFFICES ASSUME NEW j \in Jobs(file), NEW k \in 1 .. BlockWindows
               PROVE  /\ ~Merged(j, WindowHash(file, JobOffsets(j)[k]))
                      /\ Never(buzhashes[WindowHash(file, JobOffsets(j)[k])], JobOffsets(j)[k])
    BY DEF PlacedInv
  <2>1. j \in Nat \ {0} /\ WindowHash(file, JobOffsets(j)[k]) \in Hash
    BY <1>4, TypeFacts, WindowType
  <2>2. pushed = 0 /\ buzhashes = EmptyTable
    BY DEF Init
  <2>3. ~(j <= pushed)
    BY <2>1, <2>2
  <2> QED
    BY <1>2, <2>1, <2>2, <2>3 DEF Merged, Begun, Never
<1>8. LeastInv
  BY <1>2 DEF Init, LeastInv, FirstLeast
<1> QED
  BY <1>4, <1>5, <1>6, <1>7, <1>8 DEF Inv

\* A job that is pushed waits in the queue.
LEMMA PushKeepsInv ==
  ASSUME Inv, Push
  PROVE  Inv'
<1>1. /\ TypeOK /\ JobsInv /\ LocalInv /\ PlacedInv /\ LeastInv
      /\ UNCHANGED <<file, buzhashes, main, at, job, local, key, found, mutex>>
  BY DEF Inv, Push
<1>2. /\ pushed + 1 \in Jobs(file) /\ pushed' = pushed + 1 /\ pushed \in Nat
      /\ pushed' \in 0 .. JobCount(file) /\ queue' \in Seq(Jobs(file))
      /\ Len(queue') = Len(queue) + 1 /\ Len(queue) \in Nat
      /\ \A i \in 1 .. Len(queue) : queue'[i] = queue[i]
      /\ queue'[Len(queue) + 1] = pushed + 1
  BY <1>1, PushedToQueue
<1> DEFINE n == Len(queue)
<1>3. TypeOK'
  BY <1>1, <1>2 DEF TypeOK, Jobs, Free
<1>4. /\ \A i \in 1 .. n : queue[i] \in Nat /\ queue[i] <= pushed
      /\ \A t \in Thread : job[t] # NoJob => job[t] \in Nat /\ job[t] <= pushed
      /\ NoJob \notin Nat
  BY <1>1, TypeFacts, PoolAssumption DEF JobsInv
<1>5. \A i \in 1 .. n + 1 : i \in 1 .. n \/ i = n + 1
  BY <1>2
<1>6. JobsInv'
  <2>1. ASSUME NEW i \in 1 .. n + 1
        PROVE  /\ queue'[i] <= pushed + 1
               /\ \A k \in 1 .. n + 1 : queue'[k] = queue'[i] => k = i
               /\ \A t \in Thread : job[t] # queue'[i]
    <3>1. CASE i \in 1 .. n
      <4>1. queue'[i] = queue[i] /\ queue[i] \in Nat /\ queue[i] <= pushed
        BY <1>2, <1>4, <3>1
      <4>2. ASSUME NEW k \in 1 .. n + 1, queue'[k] = queue'[i] PROVE k = i
        <5>1. k # n + 1
          BY <1>2, <4>1, <4>2
        <5>2. k \in 1 .. n
          BY <1>5, <5>1
        <5>3. queue[k] = queue[i]
          BY <1>2, <4>1, <4>2, <5>2
        <5> QED
          BY <1>1, <3>1, <5>2, <5>3 DEF JobsInv
      <4> QED
        BY <1>1, <1>2, <3>1, <4>1, <4>2 DEF JobsInv
    <3>2. CASE i = n + 1
      <4>1. queue'[i] = pushed + 1
        BY <1>2, <3>2
      <4>2. ASSUME NEW k \in 1 .. n PROVE queue'[k] # pushed + 1
        BY <1>2, <1>4
      <4>3. ASSUME NEW t \in Thread PROVE job[t] # pushed + 1
        BY <1>2, <1>4
      <4> QED
        BY <1>2, <1>5, <3>2, <4>1, <4>2, <4>3
    <3> QED
      BY <1>5, <3>1, <3>2
  <2>2. \A t \in Thread : job[t] # NoJob => job[t] <= pushed + 1
    BY <1>2, <1>4
  <2> QED
    BY <1>1, <1>2, <2>1, <2>2 DEF JobsInv
<1>7. LocalInv' /\ LeastInv'
  BY <1>1 DEF LocalInv, LeastInv
<1>8. ASSUME NEW j \in Jobs(file) PROVE Begun(j)' <=> Begun(j)
  <2>1. j \in Nat
    BY <1>1, TypeFacts
  <2>2. CASE j = pushed + 1
    <3>1. ~Begun(j)
      BY <1>2, <2>2 DEF Begun
    <3>2. n + 1 \in 1 .. n + 1
      BY <1>2
    <3>3. ~Begun(j)'
      BY <1>2, <2>2, <3>2 DEF Begun
    <3> QED
      BY <3>1, <3>3
  <2>3. CASE j # pushed + 1
    <3>1. j <= pushed' <=> j <= pushed
      BY <1>2, <2>1, <2>3
    <3>2. (\A i \in 1 .. n + 1 : queue'[i] # j) <=> (\A i \in 1 .. n : queue[i] # j)
      <4>1. \A i \in 1 .. n : i \in 1 .. n + 1
        BY <1>2
      <4> QED
        BY <1>2, <1>5, <2>3, <4>1
    <3> QED
      BY <1>2, <3>1, <3>2 DEF Begun
  <2> QED
    BY <2>2, <2>3
<1>9. \A t, j, h : Unmerged(t, j, h)' <=> Unmerged(t, j, h)
  BY <1>1 DEF Unmerged
<1>10. \A h : \A j \in Jobs(file) : Merged(j, h)' <=> Merged(j, h)
  BY <1>8, <1>9 DEF Merged
<1>11. PlacedInv'
  BY <1>1, <1>10, PlacedKept
<1> QED
  BY <1>3, <1>6, <1>7, <1>11 DEF Inv

\* A thread that takes a job has all its windows still to merge.
LEMMA HashBlockKeepsInv ==
  ASSUME Inv, NEW t \in Thread, HashBlock(t)
  PROVE  Inv'
<1> DEFINE n == Len(queue)
           j == Head(queue)
           table == LocalTable(file, j)
<1>1. /\ TypeOK /\ JobsInv /\ LocalInv /\ PlacedInv /\ LeastInv
      /\ at[t] = "idle" /\ queue # << >> /\ queue' = Tail(queue)
      /\ job' = [job EXCEPT ![t] = j] /\ local' = [local EXCEPT ![t] = table]
      /\ at' = [at EXCEPT ![t] = "lock"]
      /\ UNCHANGED <<file, buzhashes, pushed, main, key, found, mutex>>
  BY DEF Inv, HashBlock
<1>2. /\ j = queue[1] /\ j \in Jobs(file) /\ queue' \in Seq(Jobs(file))
      /\ n \in Nat \ {0} /\ Len(queue') = n - 1
      /\ \A i \in 1 .. n - 1 : i + 1 \in 1 .. n /\ queue'[i] = queue[i + 1]
  BY <1>1, TakenFromQueue
<1>3. /\ j \in Nat \ {0} /\ file \in Files /\ j # NoJob
      /\ table \in [Hash -> Seq(Nat)]
  <2> HIDE DEF j
  <2>1. file \in Files
    BY <1>1 DEF TypeOK
  <2>2. Jobs(file) \subseteq Nat \ {0}
    BY <1>1, TypeFacts
  <2>3. j \in Nat \ {0}
    BY <1>2, <2>2
  <2>4. j # NoJob
    BY <2>3, PoolAssumption
  <2>5. 0 \in Hash
    BY HashAssumption DEF Hash
  <2>6. LocalTable(file, j) \in [Hash -> Seq(Nat)]
    BY <2>1, <2>3, <2>5, LocalArrays
  <2> QED
    BY <2>1, <2>3, <2>4, <2>6
<1> HIDE DEF j, n, table
<1>4. /\ job \in [Thread -> Jobs(file) \cup {NoJob}]
      /\ local \in [Thread -> [Hash -> Seq(Nat)]]
      /\ at \in [Thread -> {"idle", "lock", "lookup", "insert"}]
  BY <1>1 DEF TypeOK
<1>5. /\ job'[t] = j /\ local'[t] = table /\ at'[t] = "lock"
      /\ \A u \in Thread : u # t => job'[u] = job[u] /\ local'[u] = local[u] /\ at'[u] = at[u]
  BY <1>1, <1>4
<1>6. TypeOK'
  BY <1>1, <1>2, <1>3, <1>4 DEF TypeOK, Free
<1>7. /\ 1 \in 1 .. n /\ job[t] = NoJob /\ j <= pushed
      /\ \A u \in Thread : job[u] # j
      /\ \A i \in 1 .. n : queue[i] = j => i = 1
  <2>1. 1 \in 1 .. n
    BY <1>2
  <2> QED
    BY <1>1, <1>2, <2>1 DEF JobsInv, n
<1>8. \A i \in 1 .. n - 1 : queue'[i] # j
  <2> SUFFICES ASSUME NEW i \in 1 .. n - 1 PROVE queue'[i] # j
    OBVIOUS
  <2>1. i + 1 \in 1 .. n /\ queue'[i] = queue[i + 1] /\ i + 1 # 1
    BY <1>2
  <2> QED
    BY <1>7, <2>1
<1>9. JobsInv'
  <2>1. ASSUME NEW i \in 1 .. n - 1
        PROVE  /\ queue'[i] <= pushed
               /\ \A k \in 1 .. n - 1 : queue'[k] = queue'[i] => k = i
               /\ \A u \in Thread : job'[u] # queue'[i]
    <3>1. i + 1 \in 1 .. n /\ queue'[i] = queue[i + 1]
      BY <1>2
    <3>2. /\ queue[i + 1] <= pushed
          /\ \A k \in 1 .. n : queue[k] = queue[i + 1] => k = i + 1
          /\ \A u \in Thread : job[u] # queue[i + 1]
      BY <1>1, <3>1 DEF JobsInv, n
    <3>3. ASSUME NEW k \in 1 .. n - 1, queue'[k] = queue'[i] PROVE k = i
      <4>1. k + 1 \in 1 .. n /\ queue'[k] = queue[k + 1]
        BY <1>2
      <4>2. k + 1 = i + 1
        BY <3>1, <3>2, <3>3, <4>1
      <4> QED
        BY <4>2
    <3>4. queue'[i] # j
      BY <1>8
    <3>5. \A u \in Thread : job'[u] # queue'[i]
      BY <1>5, <3>1, <3>2, <3>4
    <3> QED
      BY <3>1, <3>2, <3>3, <3>5
  <2>2. ASSUME NEW u \in Thread
        PROVE  /\ at'[u] = "idle" <=> job'[u] = NoJob
               /\ job'[u] # NoJob => job'[u] <= pushed
               /\ \A v \in Thread : job'[u] # NoJob /\ job'[v] = job'[u] => v = u
    BY <1>1, <1>3, <1>5, <1>7 DEF JobsInv
  <2> QED
    BY <1>1, <1>2, <2>1, <2>2 DEF JobsInv
<1>10. LocalInv'
  <2> SUFFICES ASSUME NEW u \in Thread, job'[u] # NoJob
               PROVE  /\ \A h \in Hash : local'[u][h] = << >>
                                         \/ local'[u][h] = LocalTable(file, job'[u])[h]
                      /\ at'[u] = "insert" => local'[u][key[u]] # << >>
    BY <1>1 DEF LocalInv
  <2>1. CASE u = t
    BY <1>5, <2>1 DEF table
  <2>2. CASE u # t
    BY <1>1, <1>5, <2>2 DEF LocalInv
  <2> QED
    BY <2>1, <2>2
<1>11. LeastInv'
  BY <1>1 DEF LeastInv
<1>12. ASSUME NEW i \in Jobs(file), NEW k \in 1 .. BlockWindows, NEW h \in Hash,
              WindowHash(file, JobOffsets(i)[k]) = h
       PROVE  Merged(i, h)' <=> Merged(i, h)
  <2>2. CASE i = j
    <3>1. ~Merged(i, h)
      BY <1>2, <1>7, <2>2 DEF Merged, Begun, n
    <3>2. LocalTable(file, i)[h] # << >>
      BY <1>3, <1>12, <2>2, LocalArrays
    <3>3. local'[t][h] # << >> /\ job'[t] = i
      BY <1>5, <2>2, <3>2 DEF table
    <3>4. Unmerged(t, i, h)'
      BY <3>3 DEF Unmerged
    <3>5. ~Merged(i, h)'
      BY <3>4 DEF Merged
    <3> QED
      BY <3>1, <3>5
  <2>3. CASE i # j
    <3>1. (\A m \in 1 .. n - 1 : queue'[m] # i) <=> (\A m \in 1 .. n : queue[m] # i)
      <4>1. ASSUME \A m \in 1 .. n - 1 : queue'[m] # i, NEW m \in 1 .. n
            PROVE  queue[m] # i
        <5>1. CASE m = 1
          BY <1>2, <2>3, <5>1
        <5>2. CASE m # 1
          <6>1. m - 1 \in 1 .. n - 1 /\ (m - 1) + 1 = m
            BY <1>2, <5>2
          <6> QED
            BY <1>2, <4>1, <6>1
        <5> QED
          BY <5>1, <5>2
      <4> QED
        BY <1>2, <4>1
    <3>2. Begun(i)' <=> Begun(i)
      BY <1>1, <1>2, <3>1 DEF Begun, n
    <3>3. ASSUME NEW u \in Thread PROVE Unmerged(u, i, h)' <=> Unmerged(u, i, h)
      <4>1. i # NoJob
        BY <1>1, TypeFacts, PoolAssumption
      <4>2. CASE u = t
        BY <1>5, <1>7, <2>3, <4>1, <4>2 DEF Unmerged
      <4>3. CASE u # t
        BY <1>1, <1>5, <4>3 DEF Unmerged
      <4> QED
        BY <4>2, <4>3
    <3> QED
      BY <1>1, <3>2, <3>3 DEF Merged
  <2> QED
    BY <2>2, <2>3
<1>14. ASSUME NEW i \in Jobs(file), NEW k \in 1 .. BlockWindows
       PROVE  Merged(i, WindowHash(file, JobOffsets(i)[k]))'
                <=> Merged(i, WindowHash(file, JobOffsets(i)[k]))
  <2>1. PICK h \in Hash : WindowHash(file, JobOffsets(i)[k]) = h
    BY <1>1, WindowType
  <2>2. WindowHash(file, JobOffsets(i)[k])' = h
    BY <1>1, <2>1
  <2>3. Merged(i, h)' <=> Merged(i, h)
    BY <1>12, <2>1
  <2> QED
    BY <2>1, <2>2, <2>3 DEF Merged
<1>13. PlacedInv'
  BY <1>1, <1>14, PlacedKept
<1> QED
  BY <1>6, <1>9, <1>10, <1>11, <1>13 DEF Inv

\* Steps that change neither a table nor which jobs are where.
LEMMA StepKeepsInv ==
  ASSUME Inv, TypeOK', UNCHANGED <<file, buzhashes, pushed, queue, job, local>>,
         \A t \in Thread : at'[t] = "idle" <=> at[t] = "idle",
         \A t \in Thread : at'[t] = "insert" => local[t][key'[t]] # << >>
  PROVE  Inv'
<1>1. TypeOK /\ JobsInv /\ LocalInv /\ PlacedInv /\ LeastInv
  BY DEF Inv
<1>2. JobsInv'
  BY <1>1 DEF JobsInv
<1>3. LocalInv'
  BY <1>1 DEF LocalInv
<1>4. LeastInv'
  BY <1>1 DEF LeastInv
<1>5. \A j, h : Merged(j, h)' <=> Merged(j, h)
  BY DEF Merged, Begun, Unmerged
<1>6. PlacedInv'
  BY <1>1, <1>5, PlacedKept
<1> QED
  BY <1>2, <1>3, <1>4, <1>6 DEF Inv

\* The caller, the lock and the lookup.
LEMMA WaitLockLookupKeepInv ==
  ASSUME Inv, Wait \/ Return \/ Terminated \/ UNCHANGED vars
                \/ \E t \in Thread : Lock(t) \/ Lookup(t)
  PROVE  Inv'
<1>1. TypeOK /\ LocalInv
  BY DEF Inv
<1>2. CASE Wait \/ Return \/ Terminated \/ UNCHANGED vars
  <2>1. /\ UNCHANGED <<file, buzhashes, pushed, queue, at, job, local, key, found, mutex>>
        /\ main' \in {"push", "wait", "done"}
    BY <1>1, <1>2 DEF Wait, Return, Terminated, vars, TypeOK
  <2>2. TypeOK'
    BY <1>1, <2>1 DEF TypeOK
  <2>3. \A t \in Thread : at[t] = "insert" => job[t] # NoJob
    BY DEF Inv, JobsInv
  <2>4. \A t \in Thread : at'[t] = "insert" => local[t][key'[t]] # << >>
    BY <1>1, <2>1, <2>3 DEF LocalInv
  <2> QED
    BY <2>1, <2>2, <2>4, StepKeepsInv
<1>3. ASSUME NEW t \in Thread, Lock(t) PROVE Inv'
  <2>1. /\ at[t] = "lock" /\ at' = [at EXCEPT ![t] = "lookup"] /\ mutex' = t
        /\ UNCHANGED <<file, buzhashes, pushed, queue, main, job, local, key, found>>
    BY <1>3 DEF Lock
  <2>2. /\ at'[t] = "lookup" /\ \A u \in Thread : u # t => at'[u] = at[u]
        /\ at' \in [Thread -> {"idle", "lock", "lookup", "insert"}]
    BY <1>1, <2>1 DEF TypeOK
  <2>3. TypeOK'
    BY <1>1, <2>1, <2>2 DEF TypeOK
  <2>4. \A u \in Thread : at[u] = "insert" => job[u] # NoJob
    BY DEF Inv, JobsInv
  <2>5. \A u \in Thread : at'[u] = "insert" => local[u][key'[u]] # << >>
    BY <1>1, <2>1, <2>2, <2>4 DEF LocalInv
  <2>6. \A u \in Thread : at'[u] = "idle" <=> at[u] = "idle"
    BY <2>1, <2>2
  <2> QED
    BY <2>1, <2>3, <2>5, <2>6, StepKeepsInv
<1>4. ASSUME NEW t \in Thread, Lookup(t) PROVE Inv'
  <2>1. PICK h \in Hash : /\ local[t][h] # << >>
                         /\ key' = [key EXCEPT ![t] = h]
                         /\ found' = [found EXCEPT ![t] = buzhashes[h]]
    BY <1>4 DEF Lookup
  <2>2. /\ at[t] = "lookup" /\ at' = [at EXCEPT ![t] = "insert"]
        /\ UNCHANGED <<file, buzhashes, pushed, queue, main, job, local, mutex>>
    BY <1>4 DEF Lookup
  <2>3. /\ at'[t] = "insert" /\ \A u \in Thread : u # t => at'[u] = at[u]
        /\ at' \in [Thread -> {"idle", "lock", "lookup", "insert"}]
        /\ key'[t] = h /\ \A u \in Thread : u # t => key'[u] = key[u]
    BY <1>1, <2>1, <2>2 DEF TypeOK
  <2>4. key' \in [Thread -> Hash] /\ found' \in [Thread -> Seq(Nat)]
    BY <1>1, <2>1, TypeFacts DEF TypeOK
  <2>5. TypeOK'
    BY <1>1, <2>2, <2>3, <2>4 DEF TypeOK
  <2>6. \A u \in Thread : at[u] = "insert" => job[u] # NoJob
    BY DEF Inv, JobsInv
  <2>7. \A u \in Thread : at'[u] = "insert" => local[u][key'[u]] # << >>
    BY <1>1, <2>1, <2>3, <2>6 DEF LocalInv
  <2>8. \A u \in Thread : at'[u] = "idle" <=> at[u] = "idle"
    BY <2>2, <2>3
  <2> QED
    BY <2>2, <2>5, <2>7, <2>8, StepKeepsInv
<1> QED
  BY <1>2, <1>3, <1>4

\* A thread that has merged all its keys leaves its job done.
LEMMA UnlockKeepsInv ==
  ASSUME Inv, NEW t \in Thread, Unlock(t)
  PROVE  Inv'
<1>1. /\ TypeOK /\ JobsInv /\ LocalInv /\ PlacedInv /\ LeastInv
      /\ at[t] = "lookup" /\ local[t] = EmptyTable /\ mutex' = Free
      /\ at' = [at EXCEPT ![t] = "idle"] /\ job' = [job EXCEPT ![t] = NoJob]
      /\ UNCHANGED <<file, buzhashes, pushed, queue, main, local, key, found>>
  BY DEF Inv, Unlock
<1>2. /\ at'[t] = "idle" /\ job'[t] = NoJob
      /\ \A u \in Thread : u # t => at'[u] = at[u] /\ job'[u] = job[u]
      /\ at' \in [Thread -> {"idle", "lock", "lookup", "insert"}]
      /\ job' \in [Thread -> Jobs(file) \cup {NoJob}]
  BY <1>1 DEF TypeOK
<1>3. TypeOK'
  BY <1>1, <1>2 DEF TypeOK, Free
<1>4. JobsInv'
  <2>1. \A i \in 1 .. Len(queue) : queue[i] # NoJob
    BY <1>1, TypeFacts, PoolAssumption
  <2> QED
    BY <1>1, <1>2, <2>1 DEF JobsInv
<1>5. LocalInv'
  BY <1>1, <1>2 DEF LocalInv
<1>6. LeastInv'
  BY <1>1 DEF LeastInv
<1>7. ASSUME NEW j \in Jobs(file), NEW h \in Hash PROVE Merged(j, h)' <=> Merged(j, h)
  <2>1. j # NoJob
    BY <1>1, TypeFacts, PoolAssumption
  <2>2. local[t][h] = << >>
    BY <1>1, EmptyFiled
  <2>3. ASSUME NEW u \in Thread PROVE Unmerged(u, j, h)' <=> Unmerged(u, j, h)
    <3>1. CASE u = t
      BY <1>1, <1>2, <2>1, <2>2, <3>1 DEF Unmerged
    <3>2. CASE u # t
      BY <1>1, <1>2, <3>2 DEF Unmerged
    <3> QED
      BY <3>1, <3>2
  <2>4. Begun(j)' <=> Begun(j)
    BY <1>1 DEF Begun
  <2> QED
    BY <2>3, <2>4 DEF Merged
<1>8. PlacedInv'
  BY <1>1, <1>7, WindowType, PlacedKept
<1> QED
  BY <1>3, <1>4, <1>5, <1>6, <1>8 DEF Inv

\* The first of ascending offsets is the least.
LEMMA FirstLeastOfAscending ==
  ASSUME NEW s \in Seq(Nat), Ascending(s)
  PROVE  FirstLeast(s)
<1>1. Len(s) \in Nat /\ \A i \in 1 .. Len(s) : s[i] \in Nat
  BY LenProperties, ElementOfSeq
<1> SUFFICES ASSUME NEW i \in 1 .. Len(s) PROVE s[1] <= s[i]
  BY DEF FirstLeast
<1>2. 1 \in 1 .. Len(s) /\ (i = 1 \/ 1 < i)
  BY <1>1
<1> QED
  BY <1>1, <1>2 DEF Ascending

\* The store that ends the merge of a key: what it puts in place of the array
\* is that array, as it still is, and the windows of the thread's block.
LEMMA MergedIntoCurrent ==
  ASSUME Inv, MutexInv, NEW t \in Thread, Insert(t)
  PROVE  /\ job[t] \in Jobs(file) /\ job[t] \in Nat \ {0} /\ key[t] \in Hash
         /\ buzhashes[key[t]] \in Seq(Nat)
         /\ local[t][key[t]] = LocalTable(file, job[t])[key[t]]
         /\ local[t][key[t]] \in Seq(Nat) /\ local[t][key[t]] # << >>
         /\ buzhashes' = [buzhashes EXCEPT
                            ![key[t]] = merge_hashes(buzhashes[key[t]], local[t][key[t]])]
<1>1. TypeOK /\ JobsInv /\ LocalInv /\ at[t] = "insert"
  BY DEF Inv, Insert
<1>2. job[t] # NoJob
  BY <1>1 DEF JobsInv
<1>3. job[t] \in Jobs(file) /\ Jobs(file) \subseteq Nat \ {0}
  BY <1>1, <1>2, TypeFacts
<1>4. key[t] \in Hash /\ local[t] \in [Hash -> Seq(Nat)]
  BY <1>1, TypeFacts
<1>5. buzhashes[key[t]] \in Seq(Nat)
  BY <1>1, <1>4, TypeFacts
<1>6. /\ local[t][key[t]] = LocalTable(file, job[t])[key[t]]
      /\ local[t][key[t]] # << >>
  BY <1>1, <1>2, <1>4 DEF LocalInv
<1>7. found[t] = buzhashes[key[t]]
  BY <1>1 DEF MutexInv, FoundIsCurrent
<1> QED
  BY <1>3, <1>4, <1>5, <1>6, <1>7 DEF Insert

\* Storing the merged array keeps every window where it belongs.
LEMMA InsertKeepsInv ==
  ASSUME Inv, MutexInv, NEW t \in Thread, Insert(t)
  PROVE  Inv'
<1>1. /\ TypeOK /\ JobsInv /\ LocalInv /\ PlacedInv /\ LeastInv
      /\ at[t] = "insert" /\ at' = [at EXCEPT ![t] = "lookup"]
      /\ local' = [local EXCEPT ![t][key[t]] = << >>]
      /\ UNCHANGED <<file, pushed, queue, main, job, key, found, mutex>>
  BY DEF Inv, Insert
<1>2. PICK j \in Jobs(file) : job[t] = j
  BY MergedIntoCurrent
<1>3. PICK h \in Hash : key[t] = h
  BY MergedIntoCurrent
<1>4. PICK s \in Seq(Nat) : buzhashes[h] = s
  BY <1>3, MergedIntoCurrent
<1>5. PICK r \in Seq(Nat) : local[t][h] = r
  BY <1>3, MergedIntoCurrent
<1>6. /\ j \in Nat \ {0} /\ r # << >> /\ r = LocalTable(file, j)[h]
      /\ buzhashes' = [buzhashes EXCEPT ![h] = merge_hashes(s, r)]
  BY <1>2, <1>3, <1>4, <1>5, MergedIntoCurrent
<1>7. file \in Files
  BY <1>1 DEF TypeOK
<1>8. /\ merge_hashes(s, r) \in Seq(Nat)
      /\ \A x : Once(s, x) /\ Never(r, x) => Once(merge_hashes(s, r), x)
      /\ \A x : Never(s, x) /\ Once(r, x) => Once(merge_hashes(s, r), x)
      /\ \A x : Never(s, x) /\ Never(r, x) => Never(merge_hashes(s, r), x)
      /\ FirstLeast(s) /\ FirstLeast(r) => FirstLeast(merge_hashes(s, r))
  BY <1>6, MergedHolds
<1>9. /\ Ascending(r)
      /\ \A k \in 1 .. BlockWindows :
           WindowHash(file, JobOffsets(j)[k]) = h => Once(r, JobOffsets(j)[k])
      /\ \A i \in Nat \ {0} : i # j =>
           \A k \in 1 .. BlockWindows : Never(r, JobOffsets(i)[k])
  BY <1>6, <1>7, LocalArrays
<1>10. /\ local \in [Thread -> [Hash -> Seq(Nat)]] /\ buzhashes \in [Hash -> Seq(Nat)]
       /\ at \in [Thread -> {"idle", "lock", "lookup", "insert"}]
  BY <1>1 DEF TypeOK
<1>11. << >> \in Seq(Nat)
  BY EmptySeq
<1>12. /\ at'[t] = "lookup" /\ \A u \in Thread : u # t => at'[u] = at[u]
       /\ at' \in [Thread -> {"idle", "lock", "lookup", "insert"}]
  BY <1>1, <1>10
<1>13. /\ local'[t][h] = << >>
       /\ \A g \in Hash : g # h => local'[t][g] = local[t][g]
       /\ \A u \in Thread : u # t => local'[u] = local[u]
       /\ local' \in [Thread -> [Hash -> Seq(Nat)]]
  BY <1>1, <1>3, <1>10, <1>11
<1>14. /\ buzhashes'[h] = merge_hashes(s, r)
       /\ \A g \in Hash : g # h => buzhashes'[g] = buzhashes[g]
       /\ buzhashes' \in [Hash -> Seq(Nat)]
  BY <1>6, <1>8, <1>10
<1>15. TypeOK'
  BY <1>1, <1>12, <1>13, <1>14 DEF TypeOK
<1>16. JobsInv'
  BY <1>1, <1>12 DEF JobsInv
<1>17. LocalInv'
  <2> SUFFICES ASSUME NEW u \in Thread, job[u] # NoJob
               PROVE  /\ \A g \in Hash : local'[u][g] = << >>
                                         \/ local'[u][g] = LocalTable(file, job[u])[g]
                      /\ at'[u] = "insert" => local'[u][key[u]] # << >>
    BY <1>1 DEF LocalInv
  <2>1. CASE u = t
    BY <1>1, <1>12, <1>13, <2>1 DEF LocalInv
  <2>2. CASE u # t
    BY <1>1, <1>12, <1>13, <2>2 DEF LocalInv
  <2> QED
    BY <2>1, <2>2
<1>18. LeastInv'
  <2>1. FirstLeast(r)
    BY <1>9, FirstLeastOfAscending
  <2>2. FirstLeast(s)
    BY <1>1, <1>4 DEF LeastInv
  <2> QED
    BY <1>1, <1>8, <1>14, <2>1, <2>2 DEF LeastInv
<1>19. \A i : Begun(i)' <=> Begun(i)
  BY <1>1 DEF Begun
<1>20. ASSUME NEW i \in Jobs(file), NEW k \in 1 .. BlockWindows, NEW g \in Hash, NEW x,
              JobOffsets(i)[k] = x, WindowHash(file, x) = g
       PROVE  IF Merged(i, g)' THEN Once(buzhashes'[g], x) ELSE Never(buzhashes'[g], x)
  <2>1. IF Merged(i, g) THEN Once(buzhashes[g], x) ELSE Never(buzhashes[g], x)
    BY <1>1, <1>20 DEF PlacedInv
  <2>2. i \in Nat \ {0}
    BY <1>1, TypeFacts
  <2>3. CASE g # h
    <3>1. \A u \in Thread : Unmerged(u, i, g)' <=> Unmerged(u, i, g)
      BY <1>1, <1>13, <2>3 DEF Unmerged
    <3> QED
      BY <1>14, <1>19, <2>1, <2>3, <3>1 DEF Merged
  <2>4. CASE g = h /\ i # j
    <3>1. \A u \in Thread : Unmerged(u, i, g)' <=> Unmerged(u, i, g)
      BY <1>1, <1>2, <1>13, <2>4 DEF Unmerged
    <3>2. Merged(i, g)' <=> Merged(i, g)
      BY <1>19, <3>1 DEF Merged
    <3>3. Never(r, x)
      BY <1>9, <1>20, <2>2, <2>4
    <3> QED
      BY <1>4, <1>8, <1>14, <2>1, <2>4, <3>2, <3>3
  <2>5. CASE g = h /\ i = j
    <3>1. ~Merged(i, g)
      BY <1>2, <1>5, <1>6, <2>5 DEF Merged, Unmerged
    <3>2. Never(s, x) /\ Once(r, x)
      BY <1>4, <1>9, <1>20, <2>1, <2>5, <3>1
    <3>3. Begun(i)
      BY <1>1, <1>2, <1>6, <2>5, PoolAssumption DEF JobsInv, Begun
    <3>4. ASSUME NEW u \in Thread PROVE ~Unmerged(u, i, g)'
      <4>1. CASE u = t
        BY <1>13, <2>5, <4>1 DEF Unmerged
      <4>2. CASE u # t
        <5>1. job[u] # i
          BY <1>1, <1>2, <1>6, <2>5, <4>2, PoolAssumption DEF JobsInv
        <5> QED
          BY <1>1, <5>1 DEF Unmerged
      <4> QED
        BY <4>1, <4>2
    <3>5. Merged(i, g)'
      BY <1>19, <3>3, <3>4 DEF Merged
    <3> QED
      BY <1>8, <1>14, <2>5, <3>2, <3>5
  <2> QED
    BY <2>3, <2>4, <2>5
<1>21. PlacedInv'
  <2> SUFFICES ASSUME NEW i \in Jobs(file), NEW k \in 1 .. BlockWindows
               PROVE  (IF Merged(i, WindowHash(file, JobOffsets(i)[k]))
                       THEN Once(buzhashes[WindowHash(file, JobOffsets(i)[k])], JobOffsets(i)[k])
                       ELSE Never(buzhashes[WindowHash(file, JobOffsets(i)[k])],
                                  JobOffsets(i)[k]))'
    BY <1>1 DEF PlacedInv
  <2>1. PICK x : JobOffsets(i)[k] = x
    OBVIOUS
  <2>2. PICK g \in Hash : WindowHash(file, x) = g
    BY <1>1, <2>1, WindowType
  <2>3. WindowHash(file, JobOffsets(i)[k])' = g
    BY <1>1, <2>1, <2>2
  <2>4. IF Merged(i, g)' THEN Once(buzhashes'[g], x) ELSE Never(buzhashes'[g], x)
    BY <1>20, <2>1, <2>2
  <2> QED
    BY <2>1, <2>3, <2>4 DEF Merged
<1> QED
  BY <1>15, <1>16, <1>17, <1>18, <1>21 DEF Inv

\* Every step keeps the invariant.
LEMMA NextKeepsInv == Inv /\ MutexInv /\ [Next]_vars => Inv'
<1> SUFFICES ASSUME Inv, MutexInv, [Next]_vars PROVE Inv'
  OBVIOUS
<1>1. CASE Push
  BY <1>1, PushKeepsInv
<1>2. CASE Wait \/ Return \/ Terminated \/ UNCHANGED vars
  BY <1>2, WaitLockLookupKeepInv
<1>3. ASSUME NEW t \in Thread, Work(t) PROVE Inv'
  <2>1. CASE HashBlock(t)
    BY <2>1, HashBlockKeepsInv
  <2>2. CASE Lock(t) \/ Lookup(t)
    BY <2>2, WaitLockLookupKeepInv
  <2>3. CASE Insert(t)
    BY <2>3, InsertKeepsInv
  <2>4. CASE Unlock(t)
    BY <2>4, UnlockKeepsInv
  <2> QED
    BY <1>3, <2>1, <2>2, <2>3, <2>4 DEF Work
<1> QED
  BY <1>1, <1>2, <1>3 DEF Next

\* The invariant of every execution.
LEMMA SpecInv == Spec => [](Inv /\ MutexInv)
BY InitTable, NextKeepsInv, InitMutexInv, NextKeepsMutexInv, PTL DEF Spec
-----------------------------------------------------------------------------
\* The tables hold offsets only, and the threads work on jobs that were pushed.
THEOREM TypeCorrect == Spec => []TypeOK
<1>1. Inv => TypeOK
  BY DEF Inv
<1> QED
  BY <1>1, SpecInv, PTL

\* Whatever order the blocks are merged in, every array begins with its least
\* offset.
THEOREM LeastFirst == Spec => []FirstIsLeast
<1>1. Inv => FirstIsLeast
  <2> SUFFICES ASSUME Inv, NEW h \in Hash PROVE \A i \in DOMAIN buzhashes[h] :
                                                  buzhashes[h][1] <= buzhashes[h][i]
    BY DEF FirstIsLeast
  <2>1. buzhashes[h] \in Seq(Nat)
    BY TypeFacts DEF Inv
  <2> QED
    BY <2>1, LenProperties DEF Inv, LeastInv, FirstLeast
<1> QED
  BY <1>1, SpecInv, PTL

\* The places of an offset that is there once, and of one that is not there.
LEMMA OccurrencesCounted ==
  ASSUME NEW s \in Seq(Nat), NEW x
  PROVE  /\ Once(s, x) => Occurrences(s, x) = 1
         /\ Never(s, x) => Occurrences(s, x) = 0
<1> DEFINE places == {i \in DOMAIN s : s[i] = x}
<1>1. DOMAIN s = 1 .. Len(s)
  BY LenProperties
<1>2. ASSUME Once(s, x) PROVE Cardinality(places) = 1
  <2>1. PICK i \in 1 .. Len(s) : \A l \in 1 .. Len(s) : s[l] = x <=> l = i
    BY <1>2 DEF Once
  <2>2. places = {i}
    BY <1>1, <2>1
  <2> QED
    BY <2>2, FS_Singleton
<1>3. ASSUME Never(s, x) PROVE Cardinality(places) = 0
  <2>1. places = {}
    BY <1>1, <1>3 DEF Never
  <2> QED
    BY <2>1, FS_EmptySet
<1> QED
  BY <1>2, <1>3 DEF Occurrences

\* However the merges of the threads are interleaved, every window of a job
\* that a thread has taken is once in the global table or once still to merge.
THEOREM OffsetsKept == Spec => []OffsetsConserved
<1>1. ASSUME Inv PROVE OffsetsConserved
  <2> SUFFICES ASSUME NEW j \in Started, NEW k \in 1 .. BlockWindows,
                      NEW x, x = JobOffsets(j)[k], NEW h, h = WindowHash(file, x)
               PROVE  Occurrences(buzhashes[h], x)
                        + Cardinality({t \in Thread : job[t] = j /\ local[t][h] # << >>}) = 1
    BY DEF OffsetsConserved
  <2>1. TypeOK /\ JobsInv /\ PlacedInv
    BY <1>1 DEF Inv
  <2>2. j \in Jobs(file) /\ j \in Nat \ {0} /\ j <= pushed /\ j \notin ToSet(queue)
    BY <2>1, TypeFacts DEF Started
  <2>3. Begun(j)
    <3>1. \A i \in 1 .. Len(queue) : queue[i] \in ToSet(queue)
      BY <2>1, TypeFacts DEF ToSet
    <3> QED
      BY <2>2, <3>1 DEF Begun
  <2>4. h \in Hash /\ buzhashes[h] \in Seq(Nat)
    <3>1. h \in Hash
      BY <2>1, <2>2, WindowType
    <3> QED
      BY <2>1, <3>1, TypeFacts
  <2> DEFINE unmerged == {t \in Thread : job[t] = j /\ local[t][h] # << >>}
  <2>5. CASE Merged(j, h)
    <3>1. Once(buzhashes[h], x)
      BY <2>1, <2>2, <2>5 DEF PlacedInv
    <3>2. unmerged = {}
      BY <2>5 DEF Merged, Unmerged
    <3>3. Occurrences(buzhashes[h], x) = 1
      BY <2>4, <3>1, OccurrencesCounted
    <3>4. Cardinality(unmerged) = 0
      BY <3>2, FS_EmptySet
    <3> QED
      BY <3>3, <3>4
  <2>6. CASE ~Merged(j, h)
    <3>1. Never(buzhashes[h], x)
      BY <2>1, <2>2, <2>6 DEF PlacedInv
    <3>2. PICK t \in Thread : job[t] = j /\ local[t][h] # << >>
      BY <2>3, <2>6 DEF Merged, Unmerged
    <3>3. j # NoJob
      BY <2>2, PoolAssumption
    <3>4. unmerged = {t}
      BY <2>1, <3>2, <3>3 DEF JobsInv
    <3>5. Occurrences(buzhashes[h], x) = 0
      BY <2>4, <3>1, OccurrencesCounted
    <3>6. Cardinality(unmerged) = 1
      BY <3>4, FS_Singleton
    <3> QED
      BY <3>5, <3>6
  <2> QED
    BY <2>5, <2>6
<1> QED
  BY <1>1, SpecInv, PTL

\* The blocks and the tables of a file are those of WindowIndex.
LEMMA SameBlocks ==
  /\ Index!Files = Files /\ Index!Hash = Hash
  /\ \A f : Index!Jobs(f) = Jobs(f)
  /\ \A f, j : Index!LocalTable(f, j) = LocalTable(f, j)
  /\ \A s : Index!ToSet(s) = ToSet(s)
<1>1. Index!Files = Files
  BY DEF Index!Files, Files
<1>2. Index!Hash = Hash
  BY DEF Index!Hash, Hash
<1>3. \A f : Index!Jobs(f) = Jobs(f)
  BY DEF Index!Jobs, Jobs, Index!JobCount, JobCount, Index!blocksize, blocksize
<1>4. \A f, j : Index!LocalTable(f, j) = LocalTable(f, j)
  BY Zenon DEF Index!LocalTable, LocalTable, Index!EmptyTable, EmptyTable, Index!Hash, Hash,
     Index!WindowHash, WindowHash, Index!JobOffsets, JobOffsets,
     Index!blocksize, blocksize, Index!rabinkarp_add, rabinkarp_add, Index!uint32, uint32
<1>5. \A s : Index!ToSet(s) = ToSet(s)
  BY DEF Index!ToSet, ToSet
<1> QED
  BY <1>1, <1>2, <1>3, <1>4, <1>5

\* The threads of the pool, whatever they do, only ever enter into the table
\* all the windows of one block that have one hash.
THEOREM ImplementsWindowIndex == Spec => RefinesWindowIndex
<1>1. ASSUME Init PROVE Index!Init
  <2>1. \A h \in Hash : ToSet(buzhashes[h]) = {}
    BY <1>1 DEF Init, EmptyTable, ToSet
  <2> QED
    BY <1>1, <2>1, SameBlocks DEF Init, Index!Init
<1>2. ASSUME Inv, MutexInv, NEW t \in Thread, Insert(t) PROVE Index!Next
  <2>1. /\ job[t] \in Jobs(file) /\ key[t] \in Hash
        /\ local[t][key[t]] = LocalTable(file, job[t])[key[t]]
        /\ buzhashes[key[t]] \in Seq(Nat) /\ local[t][key[t]] \in Seq(Nat)
        /\ local[t][key[t]] # << >>
        /\ buzhashes' = [buzhashes EXCEPT
                           ![key[t]] = merge_hashes(buzhashes[key[t]], local[t][key[t]])]
    BY <1>2, MergedIntoCurrent
  <2>2. buzhashes \in [Hash -> Seq(Nat)] /\ UNCHANGED file
    BY <1>2 DEF Inv, TypeOK, Insert
  <2>3. ToSet(merge_hashes(buzhashes[key[t]], local[t][key[t]]))
          = ToSet(buzhashes[key[t]]) \cup ToSet(LocalTable(file, job[t])[key[t]])
    BY <2>1, MergedHolds
  <2>4. \A h \in Hash : ToSet(buzhashes'[h]) =
          IF h = key[t] THEN ToSet(buzhashes[h]) \cup ToSet(LocalTable(file, job[t])[h])
          ELSE ToSet(buzhashes[h])
    BY <2>1, <2>2, <2>3
  <2>5. Index!Enter(job[t], key[t])
    BY <2>1, <2>2, <2>4, SameBlocks DEF Index!Enter
  <2> QED
    BY <2>1, <2>5, SameBlocks DEF Index!Next
<1>3. ASSUME [Next]_vars, \A t \in Thread : ~Insert(t)
      PROVE  UNCHANGED <<file, [h \in Hash |-> ToSet(buzhashes[h])]>>
  <2>1. UNCHANGED <<file, buzhashes>>
    BY <1>3 DEF Next, vars, Push, Wait, Return, Work, HashBlock, Lock, Lookup, Unlock, Terminated
  <2> QED
    BY <2>1
<1>4. Inv /\ MutexInv /\ [Next]_vars =>
        [Index!Next]_<<file, [h \in Hash |-> ToSet(buzhashes[h])]>>
  BY <1>2, <1>3
<1> QED
  BY <1>1, <1>4, SpecInv, PTL DEF Spec, RefinesWindowIndex, Index!Spec
-----------------------------------------------------------------------------
\* The jobs wait in the order of the file, after those that threads have.
QueueInOrder ==
  \A i \in 1 .. Len(queue) :
    /\ \A k \in 1 .. Len(queue) : i < k => queue[i] < queue[k]
    /\ \A t \in Thread : job[t] # NoJob => job[t] < queue[i]

\* Nothing leaves a local table before its thread has the mutex.
WholeAtLock == \A t \in Thread : at[t] = "lock" => local[t] = LocalTable(file, job[t])

\* Nothing is pushed once the caller waits, and nothing is left once it returns.
CallerInv ==
  /\ main # "push" => pushed = JobCount(file)
  /\ main = "done" => queue = << >> /\ \A t \in Thread : at[t] = "idle"

Finished(j) == Begun(j) /\ \A t \in Thread : job[t] # j

\* The earlier jobs that are not among the first i of order.
Overtaken(order, i) == {j \in Jobs(file) : j < order[i] /\ \A k \in 1 .. i : order[k] # j}

\* The jobs that are done have merged in this order; a thread at work has
\* merged its table into theirs but for the keys it still has.
MergedInOrder(order) ==
  /\ order \in Seq(Jobs(file))
  /\ \A i, k \in 1 .. Len(order) : order[i] = order[k] => i = k
  /\ \A j \in Jobs(file) : Finished(j) <=> \E i \in 1 .. Len(order) : order[i] = j
  /\ \A i \in 1 .. Len(order) : Cardinality(Overtaken(order, i)) < MaxThreads
  /\ \A t \in Thread : Merging(t) => \A h \in Hash :
       buzhashes[h] =
         IF local[t][h] = << >>
         THEN MergeTable(MergedTable(file, order), LocalTable(file, job[t]))[h]
         ELSE MergedTable(file, order)[h]
  /\ (\A t \in Thread : ~Merging(t)) => buzhashes = MergedTable(file, order)

OrderInv ==
  /\ QueueInOrder
  /\ WholeAtLock
  /\ CallerInv
  /\ \E order : MergedInOrder(order)

\* Nothing has merged at first.
LEMMA InitOrderInv == Init => OrderInv
<1> SUFFICES ASSUME Init PROVE OrderInv
  OBVIOUS
<1>1. Inv
  BY InitTable
<1>2. /\ Len(queue) = 0 /\ pushed = 0 /\ main = "push" /\ buzhashes = EmptyTable
      /\ \A t \in Thread : at[t] = "idle" /\ job[t] = NoJob
  BY EmptySeq DEF Init
<1>3. QueueInOrder /\ WholeAtLock /\ CallerInv
  BY <1>2 DEF QueueInOrder, WholeAtLock, CallerInv
<1>4. MergedInOrder(<< >>)
  <2>1. << >> \in Seq(Jobs(file)) /\ Len(<< >>) = 0
    BY EmptySeq
  <2>2. \A j \in Jobs(file) : ~Finished(j)
    <3>1. \A j \in Jobs(file) : j \in Nat \ {0}
      BY <1>1, TypeFacts DEF Inv
    <3>2. \A j \in Jobs(file) : ~(j <= pushed)
      BY <1>2, <3>1
    <3> QED
      BY <3>2 DEF Finished, Begun
  <2>3. MergedTable(file, << >>) = EmptyTable
    BY MergedTableNext
  <2> QED
    BY <1>2, <2>1, <2>2, <2>3 DEF MergedInOrder, Merging
<1> QED
  BY <1>3, <1>4 DEF OrderInv

\* The order stands while no job is finished and no key is merged.
LEMMA OrderKept ==
  ASSUME NEW order, MergedInOrder(order),
         UNCHANGED <<file, buzhashes>>,
         \A j \in Jobs(file) : Finished(j)' <=> Finished(j),
         \A t \in Thread : Merging(t)' <=> Merging(t),
         \A t \in Thread : Merging(t) => UNCHANGED <<job[t], local[t]>>
  PROVE  MergedInOrder(order)'
<1>1. \A i : Overtaken(order, i)' = Overtaken(order, i)
  BY DEF Overtaken
<1> QED
  BY <1>1 DEF MergedInOrder

\* A job that is pushed is behind the others.
LEMMA PushKeepsOrder ==
  ASSUME Inv, OrderInv, Push
  PROVE  OrderInv'
<1>1. /\ TypeOK /\ JobsInv /\ main = "push" /\ main' = "push"
      /\ QueueInOrder /\ WholeAtLock /\ CallerInv
      /\ UNCHANGED <<file, buzhashes, at, job, local, key, found, mutex>>
  BY DEF Inv, OrderInv, Push
<1>2. /\ pushed + 1 \in Jobs(file) /\ pushed' = pushed + 1 /\ pushed \in Nat
      /\ pushed' \in 0 .. JobCount(file) /\ queue' \in Seq(Jobs(file))
      /\ Len(queue') = Len(queue) + 1 /\ Len(queue) \in Nat
      /\ \A i \in 1 .. Len(queue) : queue'[i] = queue[i]
      /\ queue'[Len(queue) + 1] = pushed + 1
  BY <1>1, PushedToQueue
<1> DEFINE n == Len(queue)
<1>3. /\ \A i \in 1 .. n : queue[i] \in Nat /\ queue[i] <= pushed
      /\ \A t \in Thread : job[t] # NoJob => job[t] \in Nat /\ job[t] <= pushed
  BY <1>1, TypeFacts DEF JobsInv
<1>4. \A i \in 1 .. n + 1 : i \in 1 .. n \/ i = n + 1
  BY <1>2
<1>5. QueueInOrder'
  <2>1. ASSUME NEW i \in 1 .. n + 1, NEW k \in 1 .. n + 1, i < k
        PROVE  queue'[i] < queue'[k]
    <3>1. i \in 1 .. n
      BY <1>2, <2>1
    <3>2. CASE k \in 1 .. n
      BY <1>1, <1>2, <2>1, <3>1, <3>2 DEF QueueInOrder
    <3>3. CASE k = n + 1
      BY <1>2, <1>3, <3>1, <3>3
    <3> QED
      BY <1>4, <3>2, <3>3
  <2>2. ASSUME NEW i \in 1 .. n + 1, NEW t \in Thread, job[t] # NoJob
        PROVE  job[t] < queue'[i]
    <3>1. CASE i \in 1 .. n
      BY <1>1, <1>2, <2>2, <3>1 DEF QueueInOrder
    <3>2. CASE i = n + 1
      BY <1>2, <1>3, <2>2, <3>2
    <3> QED
      BY <1>4, <3>1, <3>2
  <2> QED
    BY <1>1, <1>2, <2>1, <2>2 DEF QueueInOrder
<1>6. WholeAtLock' /\ CallerInv'
  BY <1>1 DEF WholeAtLock, CallerInv
<1>7. \A j \in Jobs(file) : Finished(j)' <=> Finished(j)
  <2> SUFFICES ASSUME NEW j \in Jobs(file) PROVE Begun(j)' <=> Begun(j)
    BY <1>1 DEF Finished
  <2>1. j \in Nat
    BY <1>1, TypeFacts
  <2>2. CASE j = pushed + 1
    <3>1. n + 1 \in 1 .. n + 1
      BY <1>2
    <3> QED
      BY <1>2, <2>2, <3>1 DEF Begun
  <2>3. CASE j # pushed + 1
    <3>1. j <= pushed' <=> j <= pushed
      BY <1>2, <2>1, <2>3
    <3>2. \A i \in 1 .. n : i \in 1 .. n + 1
      BY <1>2
    <3> QED
      BY <1>2, <1>4, <2>3, <3>1, <3>2 DEF Begun
  <2> QED
    BY <2>2, <2>3
<1>8. PICK order : MergedInOrder(order)
  BY DEF OrderInv
<1>9. MergedInOrder(order)'
  <2>1. \A t \in Thread : Merging(t)' <=> Merging(t)
    BY <1>1 DEF Merging
  <2> QED
    BY <1>1, <1>7, <1>8, <2>1, OrderKept
<1> QED
  BY <1>5, <1>6, <1>9 DEF OrderInv

\* The job a thread takes comes before those that wait and after those that
\* others have.
LEMMA HashBlockKeepsOrder ==
  ASSUME Inv, OrderInv, NEW t \in Thread, HashBlock(t)
  PROVE  OrderInv'
<1> DEFINE n == Len(queue)
           j == Head(queue)
<1>1. /\ TypeOK /\ JobsInv /\ QueueInOrder /\ WholeAtLock /\ CallerInv
      /\ at[t] = "idle" /\ queue # << >> /\ queue' = Tail(queue)
      /\ job' = [job EXCEPT ![t] = j] /\ local' = [local EXCEPT ![t] = LocalTable(file, j)]
      /\ at' = [at EXCEPT ![t] = "lock"]
      /\ UNCHANGED <<file, buzhashes, pushed, main, key, found, mutex>>
  BY DEF Inv, OrderInv, HashBlock
<1>2. /\ j = queue[1] /\ j \in Jobs(file)
      /\ n \in Nat \ {0} /\ Len(queue') = n - 1
      /\ \A i \in 1 .. n - 1 : i + 1 \in 1 .. n /\ queue'[i] = queue[i + 1]
  BY <1>1, TakenFromQueue
<1> HIDE DEF j, n
<1>3. /\ job \in [Thread -> Jobs(file) \cup {NoJob}]
      /\ local \in [Thread -> [Hash -> Seq(Nat)]]
      /\ at \in [Thread -> {"idle", "lock", "lookup", "insert"}]
  BY <1>1 DEF TypeOK
<1>4. /\ job'[t] = j /\ local'[t] = LocalTable(file, j) /\ at'[t] = "lock"
      /\ \A u \in Thread : u # t => job'[u] = job[u] /\ local'[u] = local[u] /\ at'[u] = at[u]
  BY <1>1, <1>3
<1>5. QueueInOrder'
  <2>1. ASSUME NEW i \in 1 .. n - 1, NEW k \in 1 .. n - 1, i < k
        PROVE  queue'[i] < queue'[k]
    <3>1. i + 1 \in 1 .. n /\ k + 1 \in 1 .. n /\ i + 1 < k + 1
      BY <1>2, <2>1
    <3>2. queue[i + 1] < queue[k + 1]
      BY <1>1, <3>1 DEF QueueInOrder, n
    <3> QED
      BY <1>2, <3>2
  <2>2. ASSUME NEW i \in 1 .. n - 1, NEW u \in Thread, job'[u] # NoJob
        PROVE  job'[u] < queue'[i]
    <3>1. i + 1 \in 1 .. n /\ 1 \in 1 .. n /\ 1 < i + 1
      BY <1>2
    <3>2. queue[1] < queue[i + 1]
      BY <1>1, <3>1 DEF QueueInOrder, n
    <3>3. CASE u = t
      BY <1>2, <1>4, <3>2, <3>3
    <3>4. CASE u # t
      BY <1>1, <1>2, <1>4, <2>2, <3>1, <3>4 DEF QueueInOrder, n
    <3> QED
      BY <3>3, <3>4
  <2> QED
    BY <1>2, <2>1, <2>2 DEF QueueInOrder
<1>6. WholeAtLock'
  BY <1>1, <1>4 DEF WholeAtLock
<1>7. CallerInv'
  BY <1>1 DEF CallerInv
<1>8. ASSUME NEW i \in Jobs(file) PROVE Finished(i)' <=> Finished(i)
  <2>1. CASE i = j
    <3>1. 1 \in 1 .. n
      BY <1>2
    <3>2. ~Finished(i)
      BY <1>2, <2>1, <3>1 DEF Finished, Begun, n
    <3>3. ~Finished(i)'
      BY <1>4, <2>1 DEF Finished
    <3> QED
      BY <3>2, <3>3
  <2>2. CASE i # j
    <3>1. ASSUME NEW m \in 1 .. n, queue[m] = i PROVE \E k \in 1 .. n - 1 : queue'[k] = i
      <4>1. m # 1
        BY <1>2, <2>2, <3>1
      <4>2. m - 1 \in 1 .. n - 1 /\ (m - 1) + 1 = m
        BY <1>2, <4>1
      <4> QED
        BY <1>2, <3>1, <4>2
    <3>2. Begun(i)' <=> Begun(i)
      BY <1>1, <1>2, <3>1 DEF Begun, n
    <3>3. i # NoJob /\ job[t] = NoJob
      BY <1>1, TypeFacts, PoolAssumption DEF JobsInv
    <3>4. \A u \in Thread : job'[u] = i <=> job[u] = i
      BY <1>4, <2>2, <3>3
    <3> QED
      BY <3>2, <3>4 DEF Finished
  <2> QED
    BY <2>1, <2>2
<1>9. PICK order : MergedInOrder(order)
  BY DEF OrderInv
<1>10. MergedInOrder(order)'
  <2>1. \A u \in Thread : Merging(u)' <=> Merging(u)
    BY <1>1, <1>4 DEF Merging
  <2>2. ~Merging(t)
    BY <1>1 DEF Merging
  <2>3. \A u \in Thread : Merging(u) => UNCHANGED <<job[u], local[u]>>
    BY <1>4, <2>2
  <2> QED
    BY <1>1, <1>8, <1>9, <2>1, <2>3, OrderKept
<1> QED
  BY <1>5, <1>6, <1>7, <1>10 DEF OrderInv

\* The caller and the lookup of a key merge nothing.
LEMMA CallerLookupKeepOrder ==
  ASSUME Inv, OrderInv, Wait \/ Return \/ Terminated \/ UNCHANGED vars
                          \/ \E t \in Thread : Lookup(t)
  PROVE  OrderInv'
<1>1. /\ TypeOK /\ QueueInOrder /\ WholeAtLock /\ CallerInv
  BY DEF Inv, OrderInv
<1>2. UNCHANGED <<file, buzhashes, pushed, queue, job, local>>
  BY DEF Wait, Return, Terminated, vars, Lookup
<1>3. /\ \A t \in Thread : Merging(t)' <=> Merging(t)
      /\ \A t \in Thread : at'[t] = "lock" <=> at[t] = "lock"
      /\ \A t \in Thread : at'[t] = "idle" <=> at[t] = "idle"
  <2>1. CASE Wait \/ Return \/ Terminated \/ UNCHANGED vars
    BY <2>1 DEF Wait, Return, Terminated, vars, Merging
  <2>2. ASSUME NEW t \in Thread, Lookup(t)
        PROVE  /\ \A u \in Thread : Merging(u)' <=> Merging(u)
               /\ \A u \in Thread : at'[u] = "lock" <=> at[u] = "lock"
               /\ \A u \in Thread : at'[u] = "idle" <=> at[u] = "idle"
    <3>1. at[t] = "lookup" /\ at' = [at EXCEPT ![t] = "insert"]
      BY <2>2 DEF Lookup
    <3>2. at'[t] = "insert" /\ \A u \in Thread : u # t => at'[u] = at[u]
      BY <1>1, <3>1 DEF TypeOK
    <3> QED
      BY <3>1, <3>2 DEF Merging
  <2> QED
    BY <2>1, <2>2
<1>4. QueueInOrder'
  BY <1>1, <1>2 DEF QueueInOrder
<1>5. WholeAtLock'
  BY <1>1, <1>2, <1>3 DEF WholeAtLock
<1>6. CallerInv'
  <2>1. CASE UNCHANGED main
    BY <1>1, <1>2, <1>3, <2>1 DEF CallerInv
  <2>2. CASE Wait
    BY <1>2, <2>2 DEF CallerInv, Wait
  <2>3. CASE Return
    BY <1>1, <1>2, <1>3, <2>3 DEF CallerInv, Return
  <2> QED
    BY <2>1, <2>2, <2>3 DEF Terminated, vars, Lookup
<1>7. PICK order : MergedInOrder(order)
  BY DEF OrderInv
<1>8. \A j \in Jobs(file) : Finished(j)' <=> Finished(j)
  BY <1>2 DEF Finished, Begun
<1>9. MergedInOrder(order)'
  BY <1>2, <1>3, <1>7, <1>8, OrderKept
<1> QED
  BY <1>4, <1>5, <1>6, <1>9 DEF OrderInv

\* A thread begins to merge with all of its table to go.
LEMMA LockKeepsOrder ==
  ASSUME Inv, OrderInv, MutexInv, NEW t \in Thread, Lock(t)
  PROVE  OrderInv'
<1>1. /\ TypeOK /\ JobsInv /\ QueueInOrder /\ WholeAtLock /\ CallerInv
      /\ at[t] = "lock" /\ mutex = Free /\ at' = [at EXCEPT ![t] = "lookup"]
      /\ UNCHANGED <<file, buzhashes, pushed, queue, main, job, local, key, found>>
  BY DEF Inv, OrderInv, Lock
<1>2. at'[t] = "lookup" /\ \A u \in Thread : u # t => at'[u] = at[u]
  BY <1>1 DEF TypeOK
<1>3. \A u \in Thread : ~Merging(u)
  BY <1>1, PoolAssumption DEF MutexInv, Free
<1>4. QueueInOrder' /\ WholeAtLock' /\ CallerInv'
  BY <1>1, <1>2 DEF QueueInOrder, WholeAtLock, CallerInv
<1>5. PICK order : MergedInOrder(order)
  BY DEF OrderInv
<1> DEFINE table == MergedTable(file, order)
           block == LocalTable(file, job[t])
<1>6. buzhashes = table /\ local[t] = block
  BY <1>1, <1>3, <1>5 DEF MergedInOrder, WholeAtLock
<1>7. ASSUME NEW h \in Hash
      PROVE  buzhashes[h] = IF local[t][h] = << >> THEN MergeTable(table, block)[h]
                            ELSE table[h]
  BY <1>6 DEF MergeTable
<1>8. MergedInOrder(order)'
  <2>1. \A j \in Jobs(file) : Finished(j)' <=> Finished(j)
    BY <1>1 DEF Finished, Begun
  <2>2. \A i : Overtaken(order, i)' = Overtaken(order, i)
    BY <1>1 DEF Overtaken
  <2>3. Merging(t)' /\ \A u \in Thread : Merging(u)' => u = t
    BY <1>2, <1>3 DEF Merging
  <2>4. \A u \in Thread : Merging(u)' => \A h \in Hash :
          buzhashes'[h] = IF local'[u][h] = << >>
                          THEN MergeTable(MergedTable(file, order), LocalTable(file, job[u]))'[h]
                          ELSE MergedTable(file, order)'[h]
    BY <1>1, <1>7, <2>3
  <2> QED
    BY <1>1, <1>5, <2>1, <2>2, <2>3, <2>4 DEF MergedInOrder
<1> QED
  BY <1>4, <1>8 DEF OrderInv

\* The store of a key takes it from one case to the other.
LEMMA InsertKeepsOrder ==
  ASSUME Inv, OrderInv, MutexInv, NEW t \in Thread, Insert(t)
  PROVE  OrderInv'
<1>1. /\ TypeOK /\ JobsInv /\ QueueInOrder /\ WholeAtLock /\ CallerInv
      /\ at[t] = "insert" /\ at' = [at EXCEPT ![t] = "lookup"]
      /\ local' = [local EXCEPT ![t][key[t]] = << >>]
      /\ UNCHANGED <<file, pushed, queue, main, job, key, found, mutex>>
  BY DEF Inv, OrderInv, Insert
<1> DEFINE k == key[t]
<1>2. /\ k \in Hash
      /\ local[t][k] = LocalTable(file, job[t])[k] /\ local[t][k] # << >>
      /\ buzhashes' = [buzhashes EXCEPT ![k] = merge_hashes(buzhashes[k], local[t][k])]
  BY MergedIntoCurrent
<1> HIDE DEF k
<1>3. /\ local \in [Thread -> [Hash -> Seq(Nat)]] /\ buzhashes \in [Hash -> Seq(Nat)]
      /\ at \in [Thread -> {"idle", "lock", "lookup", "insert"}]
  BY <1>1 DEF TypeOK
<1>4. /\ local'[t][k] = << >>
      /\ \A h \in Hash : h # k => local'[t][h] = local[t][h]
      /\ \A u \in Thread : u # t => local'[u] = local[u] /\ at'[u] = at[u]
      /\ at'[t] = "lookup"
  BY <1>1, <1>2, <1>3 DEF k
<1>5. /\ buzhashes'[k] = merge_hashes(buzhashes[k], local[t][k])
      /\ \A h \in Hash : h # k => buzhashes'[h] = buzhashes[h]
  BY <1>2, <1>3
<1>6. QueueInOrder' /\ CallerInv'
  BY <1>1, <1>4 DEF QueueInOrder, CallerInv
<1>7. WholeAtLock'
  BY <1>1, <1>4 DEF WholeAtLock
<1>8. PICK order : MergedInOrder(order)
  BY DEF OrderInv
<1> DEFINE table == MergedTable(file, order)
           block == LocalTable(file, job[t])
<1>9. \A h \in Hash : buzhashes[h] = IF local[t][h] = << >> THEN MergeTable(table, block)[h]
                                     ELSE table[h]
  BY <1>1, <1>8 DEF MergedInOrder, Merging
<1>10. ASSUME NEW h \in Hash
       PROVE  buzhashes'[h] = IF local'[t][h] = << >> THEN MergeTable(table, block)[h]
                              ELSE table[h]
  <2>1. CASE h = k
    <3>1. buzhashes[k] = table[k]
      BY <1>2, <1>9
    <3>2. MergeTable(table, block)[k] = merge_hashes(table[k], block[k])
      BY <1>2 DEF MergeTable
    <3> QED
      BY <1>2, <1>4, <1>5, <2>1, <3>1, <3>2
  <2>2. CASE h # k
    BY <1>4, <1>5, <1>9, <2>2
  <2> QED
    BY <2>1, <2>2
<1>11. MergedInOrder(order)'
  <2>1. \A j \in Jobs(file) : Finished(j)' <=> Finished(j)
    BY <1>1 DEF Finished, Begun
  <2>2. \A i : Overtaken(order, i)' = Overtaken(order, i)
    BY <1>1 DEF Overtaken
  <2>3. \A u \in Thread : Merging(u)' => u = t
    BY <1>1, <1>4 DEF Merging, MutexInv
  <2>4. Merging(t)'
    BY <1>4 DEF Merging
  <2>5. \A u \in Thread : Merging(u)' => \A h \in Hash :
          buzhashes'[h] = IF local'[u][h] = << >>
                          THEN MergeTable(MergedTable(file, order), LocalTable(file, job[u]))'[h]
                          ELSE MergedTable(file, order)'[h]
    BY <1>1, <1>10, <2>3
  <2> QED
    BY <1>1, <1>8, <2>1, <2>2, <2>4, <2>5 DEF MergedInOrder
<1> QED
  BY <1>6, <1>7, <1>11 DEF OrderInv

\* When a job is done, the earlier ones that are not are in other threads.
LEMMA FewOvertaken ==
  ASSUME Inv, OrderInv, NEW t \in Thread, job[t] # NoJob
  PROVE  Cardinality({j \in Jobs(file) : j < job[t] /\ ~Finished(j)}) < MaxThreads
<1> DEFINE others == Thread \ {t}
           jobs == {job[u] : u \in others}
           left == {j \in Jobs(file) : j < job[t] /\ ~Finished(j)}
<1>1. TypeOK /\ JobsInv /\ QueueInOrder
  BY DEF Inv, OrderInv
<1>2. ASSUME NEW j \in left PROVE j \in jobs
  <2>1. /\ j \in Nat /\ j < job[t] /\ ~Finished(j) /\ job[t] \in Nat /\ pushed \in Nat
        /\ job[t] <= pushed
    <3>1. Jobs(file) \subseteq Nat
      BY <1>1, TypeFacts
    <3>2. job[t] \in Jobs(file) /\ job[t] <= pushed
      BY <1>1, TypeFacts DEF JobsInv
    <3>3. pushed \in Nat
      BY <1>1 DEF TypeOK
    <3> QED
      BY <3>1, <3>2, <3>3
  <2>2. ASSUME NEW i \in 1 .. Len(queue) PROVE queue[i] # j
    <3>1. job[t] < queue[i]
      BY <1>1 DEF QueueInOrder
    <3> QED
      BY <2>1, <3>1
  <2>3. Begun(j)
    <3>1. j <= pushed
      BY <2>1
    <3> QED
      BY <2>2, <3>1 DEF Begun
  <2>4. PICK u \in Thread : job[u] = j
    BY <2>1, <2>3 DEF Finished
  <2>5. u # t
    BY <2>1, <2>4
  <2> QED
    BY <2>4, <2>5
<1>3. IsFiniteSet(others) /\ Cardinality(others) = MaxThreads - 1
  BY PoolAssumption, FS_RemoveElement
<1>4. IsFiniteSet(jobs) /\ Cardinality(jobs) <= MaxThreads - 1
  <2> DEFINE f == [u \in others |-> job[u]]
  <2>1. f \in Surjection(others, jobs)
    BY DEF Surjection
  <2> HIDE DEF others, jobs
  <2>2. IsFiniteSet(jobs) /\ Cardinality(jobs) <= Cardinality(others)
    BY <1>3, <2>1, FS_Surjection
  <2> QED
    BY <1>3, <2>2
<1>5. left \in SUBSET jobs
  BY <1>2
<1>6. /\ IsFiniteSet(left) /\ Cardinality(left) <= Cardinality(jobs)
  <2> HIDE DEF left, jobs
  <2> QED
    BY <1>4, <1>5, FS_Subset
<1>7. Cardinality(left) \in Nat /\ Cardinality(jobs) \in Nat
  <2> HIDE DEF left, jobs
  <2> QED
    BY <1>4, <1>6, FS_CardinalityType
<1>8. MaxThreads \in Nat
  BY TableAssumption
<1> HIDE DEF left, jobs
<1>9. Cardinality(left) < MaxThreads
  BY <1>4, <1>6, <1>7, <1>8
<1> QED
  BY <1>9 DEF left

\* A thread that unlocks puts its job at the end of the order.
LEMMA UnlockKeepsOrder ==
  ASSUME Inv, OrderInv, MutexInv, NEW t \in Thread, Unlock(t)
  PROVE  OrderInv'
<1>1. PICK j : j = job[t]
  OBVIOUS
<1>2. /\ TypeOK /\ JobsInv /\ QueueInOrder /\ WholeAtLock /\ CallerInv
      /\ at[t] = "lookup" /\ local[t] = EmptyTable
      /\ at' = [at EXCEPT ![t] = "idle"] /\ job' = [job EXCEPT ![t] = NoJob]
      /\ UNCHANGED <<file, buzhashes, pushed, queue, main, local, key, found>>
  BY DEF Inv, OrderInv, Unlock
<1>3. /\ at'[t] = "idle" /\ job'[t] = NoJob
      /\ \A u \in Thread : u # t => at'[u] = at[u] /\ job'[u] = job[u]
  BY <1>2 DEF TypeOK
<1>4. j # NoJob /\ j \in Jobs(file)
  BY <1>2, <1>1, TypeFacts DEF JobsInv
<1>5. QueueInOrder' /\ WholeAtLock'
  BY <1>2, <1>3 DEF QueueInOrder, WholeAtLock
<1>6. CallerInv'
  BY <1>2, <1>3 DEF CallerInv
<1>7. PICK order : MergedInOrder(order)
  BY DEF OrderInv
<1>8. PICK longer : longer = Append(order, j)
  OBVIOUS
<1> DEFINE n == Len(order)
<1>9. /\ order \in Seq(Jobs(file)) /\ n \in Nat
      /\ longer \in Seq(Jobs(file)) /\ Len(longer) = n + 1 /\ longer[n + 1] = j
      /\ \A i \in 1 .. n : longer[i] = order[i]
  <2>1. order \in Seq(Jobs(file))
    BY <1>7 DEF MergedInOrder
  <2> QED
    BY <1>4, <1>8, <2>1, AppendProperties, LenProperties
<1>10. MergedTable(file, longer) = MergeTable(MergedTable(file, order), LocalTable(file, j))
  BY <1>4, <1>9, <1>8, MergedTableNext
<1>11. /\ \A i, k \in 1 .. n : order[i] = order[k] => i = k
       /\ \A i \in Jobs(file) : Finished(i) <=> \E k \in 1 .. n : order[k] = i
       /\ \A i \in 1 .. n : Cardinality(Overtaken(order, i)) < MaxThreads
  BY <1>7 DEF MergedInOrder
<1> HIDE DEF n
<1>12. \A i \in 1 .. n + 1 : i \in 1 .. n \/ i = n + 1
  BY <1>9
<1>13. \A i \in 1 .. n : i \in 1 .. n + 1
  BY <1>9
<1>14. n + 1 \in 1 .. n + 1
  BY <1>9
<1>15. \A k \in 1 .. n : order[k] # j
  <2>1. ~Finished(j)
    BY <1>1 DEF Finished
  <2> QED
    BY <1>4, <1>11, <2>1
<1>16. \A i, k \in 1 .. n + 1 : longer[i] = longer[k] => i = k
  BY <1>9, <1>11, <1>12, <1>15
<1>17. ASSUME NEW i \in Jobs(file)
       PROVE  Finished(i)' <=> \E k \in 1 .. n + 1 : longer[k] = i
  <2>1. Begun(i)' <=> Begun(i)
    BY <1>2 DEF Begun
  <2>2. i # NoJob
    BY <1>2, TypeFacts, PoolAssumption
  <2>3. CASE i = j
    <3>1. Begun(i)
      BY <1>2, <1>4, <2>3, <1>1 DEF Begun, JobsInv
    <3>2. \A u \in Thread : u # t => job[u] # i
      BY <1>2, <1>4, <2>3, <1>1 DEF JobsInv
    <3>3. Finished(i)'
      BY <1>3, <2>1, <2>2, <3>1, <3>2 DEF Finished
    <3> QED
      BY <1>9, <1>14, <2>3, <3>3
  <2>4. CASE i # j
    <3>1. Finished(i)' <=> Finished(i)
      BY <1>3, <2>1, <2>2, <2>4, <1>1 DEF Finished
    <3>2. (\E k \in 1 .. n + 1 : longer[k] = i) <=> (\E k \in 1 .. n : order[k] = i)
      BY <1>9, <1>12, <1>13, <2>4
    <3> QED
      BY <1>11, <3>1, <3>2
  <2> QED
    BY <2>3, <2>4
<1>18. ASSUME NEW i \in 1 .. n + 1
       PROVE  Cardinality(Overtaken(longer, i)') < MaxThreads
  <2>1. Overtaken(longer, i)' = Overtaken(longer, i)
    BY <1>2 DEF Overtaken
  <2>2. CASE i \in 1 .. n
    <3>1. \A k \in 1 .. i : k \in 1 .. n
      BY <1>9, <2>2
    <3>2. Overtaken(longer, i) = Overtaken(order, i)
      BY <1>9, <2>2, <3>1 DEF Overtaken
    <3> QED
      BY <1>11, <2>1, <2>2, <3>2
  <2>3. CASE i = n + 1
    <3> DEFINE left == {b \in Jobs(file) : b < job[t] /\ ~Finished(b)}
    <3>1. Cardinality(left) < MaxThreads
      BY <1>4, FewOvertaken, <1>1
    <3>2. ASSUME NEW b \in Jobs(file)
          PROVE  (b < j /\ \A k \in 1 .. n + 1 : longer[k] # b) <=> (b < j /\ ~Finished(b))
      <4>1. b < j => b # j
        <5>1. b \in Nat /\ j \in Nat
          BY <1>2, <1>4, TypeFacts
        <5> QED
          BY <5>1
      <4>2. b # j => ((\A k \in 1 .. n + 1 : longer[k] # b) <=> (\A k \in 1 .. n : order[k] # b))
        BY <1>9, <1>12, <1>13
      <4> QED
        BY <1>11, <4>1, <4>2
    <3>3. Overtaken(longer, n + 1) = left
      BY <1>9, <3>2, <1>1 DEF Overtaken
    <3> QED
      BY <2>1, <2>3, <3>1, <3>3
  <2> QED
    BY <1>12, <2>2, <2>3
<1>19. \A u \in Thread : ~Merging(u)'
  <2>1. \A u \in Thread : u # t => ~Merging(u)
    BY <1>2 DEF MutexInv, Merging
  <2> QED
    BY <1>3, <2>1 DEF Merging
<1>20. buzhashes = MergedTable(file, longer)
  <2>1. \A h \in Hash : local[t][h] = << >>
    BY <1>2, EmptyFiled
  <2>2. Merging(t)
    BY <1>2 DEF Merging
  <2>3. \A h \in Hash : buzhashes[h] = MergedTable(file, longer)[h]
    BY <1>7, <1>10, <2>1, <2>2, <1>1 DEF MergedInOrder
  <2>4. MergedTable(file, longer) = [h \in Hash |-> MergedTable(file, longer)[h]]
    BY <1>10 DEF MergeTable
  <2>5. buzhashes = [h \in Hash |-> buzhashes[h]]
    BY <1>2 DEF TypeOK
  <2> QED
    BY <2>3, <2>4, <2>5
<1>21. MergedInOrder(longer)'
  <2>1. /\ longer \in Seq(Jobs(file))'
        /\ buzhashes' = MergedTable(file, longer)'
    BY <1>2, <1>9, <1>20
  <2>2. \A i \in Jobs(file)' : Finished(i)' <=> \E k \in 1 .. Len(longer) : longer[k] = i
    BY <1>2, <1>9, <1>17
  <2> QED
    BY <1>9, <1>16, <1>18, <1>19, <2>1, <2>2 DEF MergedInOrder
<1>22. (\E o : MergedInOrder(o))'
  BY <1>21
<1> QED
  BY <1>5, <1>6, <1>22 DEF OrderInv

\* Every step keeps the order.
LEMMA NextKeepsOrder == Inv /\ MutexInv /\ OrderInv /\ [Next]_vars => OrderInv'
<1> SUFFICES ASSUME Inv, MutexInv, OrderInv, [Next]_vars PROVE OrderInv'
  OBVIOUS
<1>1. CASE Push
  BY <1>1, PushKeepsOrder
<1>2. CASE Wait \/ Return \/ Terminated \/ UNCHANGED vars
  BY <1>2, CallerLookupKeepOrder
<1>3. ASSUME NEW t \in Thread, Work(t) PROVE OrderInv'
  <2>1. CASE HashBlock(t)
    BY <2>1, HashBlockKeepsOrder
  <2>2. CASE Lock(t)
    BY <2>2, LockKeepsOrder
  <2>3. CASE Lookup(t)
    BY <2>3, CallerLookupKeepOrder
  <2>4. CASE Insert(t)
    BY <2>4, InsertKeepsOrder
  <2>5. CASE Unlock(t)
    BY <2>5, UnlockKeepsOrder
  <2> QED
    BY <1>3, <2>1, <2>2, <2>3, <2>4, <2>5 DEF Work
<1> QED
  BY <1>1, <1>2, <1>3 DEF Next

\* When all jobs are done, the order is one of MergeOrders.
LEMMA OrderIsPossible ==
  ASSUME Inv, CallerInv, main = "done", NEW order, MergedInOrder(order)
  PROVE  order \in MergeOrders(file)
<1> DEFINE n == Len(order)
<1>1. /\ TypeOK /\ JobsInv /\ pushed = JobCount(file) /\ queue = << >>
      /\ \A t \in Thread : at[t] = "idle"
  BY DEF Inv, CallerInv
<1>2. /\ order \in [1 .. n -> Jobs(file)] /\ n \in Nat
      /\ \A i, k \in 1 .. n : order[i] = order[k] => i = k
      /\ \A i \in 1 .. n : Cardinality(Overtaken(order, i)) < MaxThreads
  BY LenProperties DEF MergedInOrder
<1>3. JobCount(file) \in Nat /\ Jobs(file) = 1 .. JobCount(file) /\ Jobs(file) \subseteq Nat
  BY <1>1, JobsType DEF TypeOK, Jobs
<1>4. \A j \in Jobs(file) : \E i \in 1 .. n : order[i] = j
  <2> SUFFICES ASSUME NEW j \in Jobs(file) PROVE Finished(j)
    BY DEF MergedInOrder
  <2>1. j <= pushed /\ Len(queue) = 0
    BY <1>1, <1>3, EmptySeq
  <2>2. Begun(j)
    BY <2>1 DEF Begun
  <2>3. \A t \in Thread : job[t] # j
    <3>1. j # NoJob
      BY <1>3, PoolAssumption
    <3> QED
      BY <1>1, <3>1 DEF JobsInv
  <2> QED
    BY <2>2, <2>3 DEF Finished
<1> HIDE DEF n
<1>5. /\ IsFiniteSet(Jobs(file)) /\ Cardinality(Jobs(file)) \in Nat
  <2>1. IsFiniteSet(1 .. JobCount(file))
    BY <1>3, FS_Interval
  <2> QED
    BY <1>3, <2>1, FS_CardinalityType
<1>6. Cardinality(Jobs(file)) = n
  <2>1. order \in Bijection(1 .. n, Jobs(file))
    BY <1>2, <1>4 DEF Bijection, Injection, Surjection, IsInjective
  <2>2. ExistsBijection(1 .. n, Jobs(file))
    BY <2>1 DEF ExistsBijection
  <2> QED
    BY <1>2, <2>2, FS_CountingElements
<1>7. order \in SetToSeqs(Jobs(file))
  BY <1>2, <1>6 DEF SetToSeqs
<1>8. ASSUME NEW i \in 1 .. n
      PROVE  Cardinality({k \in i + 1 .. n : order[k] < order[i]}) < MaxThreads
  <2> DEFINE late == {k \in i + 1 .. n : order[k] < order[i]}
             f == [k \in late |-> order[k]]
  <2>1. ASSUME NEW k \in late PROVE k \in 1 .. n /\ order[k] \in Overtaken(order, i)
    <3>1. k \in 1 .. n /\ i < k /\ order[k] < order[i]
      BY <1>2
    <3>2. order[k] \in Jobs(file)
      BY <1>2, <3>1
    <3>3. \A m \in 1 .. i : m \in 1 .. n /\ m # k
      BY <1>2, <3>1
    <3>4. \A m \in 1 .. i : order[m] # order[k]
      BY <1>2, <3>1, <3>3
    <3> QED
      BY <3>1, <3>2, <3>4 DEF Overtaken
  <2>2. f \in Injection(late, Overtaken(order, i))
    BY <1>2, <2>1 DEF Injection, IsInjective
  <2>3. IsFiniteSet(Overtaken(order, i)) /\ Cardinality(Overtaken(order, i)) \in Nat
    <3>1. Overtaken(order, i) \in SUBSET Jobs(file)
      BY DEF Overtaken
    <3>2. IsFiniteSet(Overtaken(order, i))
      BY <1>5, <3>1, FS_Subset
    <3> QED
      BY <3>2, FS_CardinalityType
  <2> HIDE DEF late, f
  <2>4. IsFiniteSet(late) /\ Cardinality(late) <= Cardinality(Overtaken(order, i))
    BY <2>2, <2>3, FS_Injection
  <2>5. Cardinality(late) \in Nat /\ MaxThreads \in Nat
    BY <2>4, FS_CardinalityType, TableAssumption
  <2>6. Cardinality(Overtaken(order, i)) < MaxThreads
    BY <1>2
  <2>7. Cardinality(late) < MaxThreads
    BY <2>3, <2>4, <2>5, <2>6
  <2> QED
    BY <2>7 DEF late
<1>9. DOMAIN order = 1 .. n
  BY <1>2
<1> QED
  BY <1>7, <1>8, <1>9 DEF MergeOrders, n

\* What the pool leaves in file->buzhashes, under every schedule, is a table
\* that merging the blocks one after the other leaves, in an order in which
\* fewer than MaxThreads earlier blocks are missing when a block merges.
THEOREM TablesArePossible == Spec => []PossibleTable
<1>1. Inv /\ OrderInv => PossibleTable
  <2> SUFFICES ASSUME Inv, OrderInv, main = "done" PROVE buzhashes \in HashTables(file)
    BY DEF PossibleTable
  <2>1. PICK order : MergedInOrder(order)
    BY DEF OrderInv
  <2>2. order \in MergeOrders(file)
    BY <2>1, OrderIsPossible DEF OrderInv
  <2>3. \A t \in Thread : ~Merging(t)
    BY DEF OrderInv, CallerInv, Merging
  <2>4. buzhashes = MergedTable(file, order)
    BY <2>1, <2>3 DEF MergedInOrder
  <2> QED
    BY <2>2, <2>4 DEF HashTables
<1> QED
  BY <1>1, SpecInv, InitOrderInv, NextKeepsOrder, PTL DEF Spec
=============================================================================
