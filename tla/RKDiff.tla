------------------------------- MODULE RKDiff -------------------------------
(***************************************************************************)
(* hi_diff_calculate_rabinkarp of src/src/hi_diff.c.  Two pointers walk    *)
(* the files: in step while the bytes agree (SYNC); when they disagree, a  *)
(* search for minimum_same equal bytes close by (NEAR) and, failing that,  *)
(* a walk through src that looks the rolling hash of its next hashbytes    *)
(* bytes up in the table of window hashes of dst (FAR).  The hunks found   *)
(* go through backtrack_hunks into the tree.                               *)
(***************************************************************************)
EXTENDS HunkList, HashTable

CONSTANTS minimum_same,       \* file_options.minimum_same
          diff_jump_percent,  \* file_options.diff_jump_percent
          NULL                \* dst->buzhashes before hi_hash_generate

ASSUME OptionAssumption ==
  /\ minimum_same \in Nat \ {0}
  /\ diff_jump_percent \in 0 .. 100

VARIABLES
  mode,                    \* SYNC, NEAR or FAR
  srcptr, dstptr,          \* the bytes looked at
  srcptr_new, dstptr_new,  \* where they go next
  hash, popvalue,          \* the rolling hash of src and its pop value
  moved_since_hash_match,
  working_hunk,            \* type and starts; its ends are set when inserted
  last_hunk,               \* the hunk inserted at a hash match, 0 for NULL
  buzhashes                \* dst->buzhashes

cursor == <<mode, srcptr, dstptr, srcptr_new, dstptr_new, hash, popvalue,
            moved_since_hash_match, working_hunk, last_hunk, buzhashes>>
tail == <<list, otherhunk, hunks>>
vars == <<src, dst, pc, working_hunks, tail, cursor>>

Mode == {"SYNC", "NEAR", "FAR"}

PC == {"popvalue", "prelude", "loop", "roll", "backtrack", "tree", "done", "fault",
       "failed"}

TypeOK ==
  /\ HunkListTypeOK
  /\ pc \in PC
  /\ mode \in Mode
  /\ srcptr \in Nat /\ dstptr \in Nat
  /\ srcptr_new \in Nat /\ dstptr_new \in Nat
  /\ hash \in Hash
  /\ popvalue \in Nat
  /\ moved_since_hash_match \in BOOLEAN
  /\ working_hunk \in [type : HunkType, src_start : Nat, dst_start : Nat]
  /\ last_hunk \in Nat
  /\ buzhashes # NULL => buzhashes \in HashTables(dst)

Start(type, src_start, dst_start) ==
  [type |-> type, src_start |-> src_start, dst_start |-> dst_start]

Init ==
  /\ src \in Files /\ dst \in Files
  /\ pc = "popvalue"
  /\ working_hunks = << >>
  /\ list = 0 /\ otherhunk = 0 /\ hunks = << >>
  /\ mode = "SYNC"
  /\ srcptr = 0 /\ dstptr = 0 /\ srcptr_new = 0 /\ dstptr_new = 0
  /\ hash = 0 /\ popvalue = 1
  /\ moved_since_hash_match = TRUE
  /\ working_hunk = Start("SAME", 0, 0)
  /\ last_hunk = 0
  /\ buzhashes = NULL

\* How far in dst a hash match may lead.
bytes_jump ==
  LET share == (diff_jump_percent * dst.size) \div 100
  IN  IF share < hashbytes THEN 2 * hashbytes ELSE share

\* working_hunk inserted with these ends.
Inserted(type, src_end, dst_end) ==
  insert_hunk(ClampedHunk(type, working_hunk.src_start, src_end,
                          working_hunk.dst_start, dst_end))

-----------------------------------------------------------------------------
\* hi_hash_prelude, whose loop counts in srcptr_new here, and the hash of the
\* first hashbytes bytes of src.

Popvalue ==
  /\ pc = "popvalue"
  /\ IF srcptr_new < hashbytes - 1
     THEN /\ popvalue' = rabinkarp_popvalue_step(popvalue)
          /\ srcptr_new' = srcptr_new + 1
          /\ pc' = pc
     ELSE /\ srcptr_new' = 0
          /\ pc' = "prelude"
          /\ popvalue' = popvalue
  /\ UNCHANGED <<src, dst, working_hunks, tail, mode, srcptr, dstptr,
                 dstptr_new, hash, moved_since_hash_match, working_hunk,
                 last_hunk, buzhashes>>

Prelude ==
  /\ pc = "prelude"
  /\ IF srcptr_new < hashbytes /\ srcptr_new < src.size
     THEN /\ hash' = rabinkarp_add(hash, src.memory[srcptr_new])
          /\ srcptr_new' = srcptr_new + 1
          /\ pc' = pc
     ELSE /\ pc' = "loop"
          /\ UNCHANGED <<hash, srcptr_new>>
  /\ UNCHANGED <<src, dst, working_hunks, tail, mode, srcptr, dstptr,
                 dstptr_new, popvalue, moved_since_hash_match, working_hunk,
                 last_hunk, buzhashes>>

-----------------------------------------------------------------------------
\* The turn of the main loop, one action per outcome; the roll follows it.

InLoop(m) == pc = "loop" /\ srcptr < src.size /\ dstptr < dst.size /\ mode = m

\* Bug: the pointers are swapped.
MoveToSwapped(s, d) ==
  /\ srcptr_new' = d
  /\ dstptr_new' = s
  /\ pc' = "roll"

\* The pointers go to s and d once the hash has rolled.
MoveTo(s, d) ==
  /\ srcptr_new' = s
  /\ dstptr_new' = d
  /\ pc' = "roll"

Unmoved == UNCHANGED <<src, dst, srcptr, dstptr, hash, popvalue, tail>>

\* Bug: last_hunk is kept when a byte has matched.
SyncMatchKeepsHunk ==
  /\ InLoop("SYNC")
  /\ src.memory[srcptr] = dst.memory[dstptr]
  /\ MoveTo(srcptr + 1, dstptr + 1)
  /\ moved_since_hash_match' = TRUE
  /\ Unmoved
  /\ UNCHANGED <<working_hunks, mode, working_hunk, last_hunk, buzhashes>>

SyncMatch ==
  /\ InLoop("SYNC")
  /\ src.memory[srcptr] = dst.memory[dstptr]
  /\ MoveTo(srcptr + 1, dstptr + 1)
  /\ last_hunk' = 0
  /\ moved_since_hash_match' = TRUE
  /\ Unmoved
  /\ UNCHANGED <<working_hunks, mode, working_hunk, buzhashes>>

\* Bug: the hunk listed ends at the first byte that differs.
SyncLostTooLong ==
  /\ InLoop("SYNC")
  /\ src.memory[srcptr] # dst.memory[dstptr]
  /\ IF srcptr # working_hunk.src_start /\ dstptr # working_hunk.dst_start
     THEN /\ working_hunks' = Inserted(working_hunk.type, srcptr, dstptr)
          /\ working_hunk' = Start(working_hunk.type, srcptr, dstptr)
     ELSE UNCHANGED <<working_hunks, working_hunk>>
  /\ mode' = "NEAR"
  /\ MoveTo(srcptr, dstptr)
  /\ Unmoved
  /\ UNCHANGED <<moved_since_hash_match, last_hunk, buzhashes>>

\* Bug: the working hunk does not start anew.
SyncLostKeepsStart ==
  /\ InLoop("SYNC")
  /\ src.memory[srcptr] # dst.memory[dstptr]
  /\ working_hunks' =
       IF srcptr # working_hunk.src_start /\ dstptr # working_hunk.dst_start
       THEN Inserted(working_hunk.type, srcptr - 1, dstptr - 1)
       ELSE working_hunks
  /\ mode' = "NEAR"
  /\ MoveTo(srcptr, dstptr)
  /\ Unmoved
  /\ UNCHANGED <<moved_since_hash_match, working_hunk, last_hunk, buzhashes>>

SyncLost ==
  /\ InLoop("SYNC")
  /\ src.memory[srcptr] # dst.memory[dstptr]
  /\ IF srcptr # working_hunk.src_start /\ dstptr # working_hunk.dst_start
     THEN /\ working_hunks' = Inserted(working_hunk.type, srcptr - 1, dstptr - 1)
          /\ working_hunk' = Start(working_hunk.type, srcptr, dstptr)
     ELSE UNCHANGED <<working_hunks, working_hunk>>
  /\ mode' = "NEAR"
  /\ MoveTo(srcptr, dstptr)
  /\ Unmoved
  /\ UNCHANGED <<moved_since_hash_match, last_hunk, buzhashes>>

\* The near search looks at srcptr + s and dstptr + size - s for every size
\* below hashbytes and every s up to size, in this order.
Earlier(size1, s1, size2, s2) == size1 < size2 \/ (size1 = size2 /\ s1 < s2)

\* The bounds checked before a place is looked at.
InBounds(s, d) ==
  /\ srcptr + s + minimum_same - 1 <= src.size
  /\ dstptr + d + minimum_same - 1 <= dst.size

SameAt(s, d) ==
  /\ Peek(src, srcptr + s) = Peek(dst, dstptr + d)
  /\ ~Faults(src, srcptr + s)

FaultAt(s, d) == Faults(src, srcptr + s) \/ Faults(dst, dstptr + d)

NearMatch(s, d) ==
  InBounds(s, d) /\ \A idx \in 0 .. minimum_same - 1 : SameAt(s + idx, d + idx)

NearFaults(s, d) ==
  /\ InBounds(s, d)
  /\ \E idx \in 0 .. minimum_same - 1 :
       /\ FaultAt(s + idx, d + idx)
       /\ \A before \in 0 .. idx - 1 : SameAt(s + before, d + before)

NearStops(s, d) == NearMatch(s, d) \/ NearFaults(s, d)

FirstStop(size, s) ==
  /\ NearStops(s, size - s)
  /\ \A size1 \in 0 .. size : \A s1 \in 0 .. size1 :
       Earlier(size1, s1, size, s) => ~NearStops(s1, size1 - s1)

\* Bug: the working hunk starts where the search did.
NearFoundStartsEarly ==
  /\ InLoop("NEAR")
  /\ \E size \in 0 .. hashbytes - 1 : \E s \in 0 .. size :
       LET s_new == srcptr + s
           d_new == dstptr + (size - s)
       IN  /\ FirstStop(size, s)
           /\ NearMatch(s, size - s)
           /\ working_hunks' = Inserted("DIFF", s_new - 1, d_new - 1)
           /\ working_hunk' = Start("SAME", srcptr, dstptr)
           /\ MoveTo(s_new, d_new)
  /\ mode' = "SYNC"
  /\ Unmoved
  /\ UNCHANGED <<moved_since_hash_match, last_hunk, buzhashes>>

NearFound ==
  /\ InLoop("NEAR")
  /\ \E size \in 0 .. hashbytes - 1 : \E s \in 0 .. size :
       LET s_new == srcptr + s
           d_new == dstptr + (size - s)
       IN  /\ FirstStop(size, s)
           /\ NearMatch(s, size - s)
           /\ working_hunks' = Inserted("DIFF", s_new - 1, d_new - 1)
           /\ working_hunk' = Start("SAME", s_new, d_new)
           /\ MoveTo(s_new, d_new)
  /\ mode' = "SYNC"
  /\ Unmoved
  /\ UNCHANGED <<moved_since_hash_match, last_hunk, buzhashes>>

NearFault ==
  /\ InLoop("NEAR")
  /\ \E size \in 0 .. hashbytes - 1 : \E s \in 0 .. size :
       FirstStop(size, s) /\ NearFaults(s, size - s)
  /\ pc' = "fault"
  /\ UNCHANGED <<src, dst, working_hunks, tail, cursor>>

NearMissed ==
  /\ InLoop("NEAR")
  /\ \A size \in 0 .. hashbytes - 1 : \A s \in 0 .. size : ~NearStops(s, size - s)
  /\ mode' = "FAR"
  /\ MoveTo(srcptr, dstptr)
  /\ Unmoved
  /\ UNCHANGED <<working_hunks, moved_since_hash_match, working_hunk,
                 last_hunk, buzhashes>>

\* Since the last hash match no byte has matched: far mode only walks on.
FarGivenUp ==
  /\ InLoop("FAR")
  /\ ~moved_since_hash_match
  /\ MoveTo(srcptr + 1, dstptr)
  /\ Unmoved
  /\ UNCHANGED <<working_hunks, mode, moved_since_hash_match, working_hunk,
                 last_hunk, buzhashes>>

\* Bug: the hand-over from FAR to NEAR does not step forward.
FarTooCloseStays ==
  /\ InLoop("FAR")
  /\ moved_since_hash_match
  /\ srcptr + hashbytes >= src.size
  /\ mode' = "NEAR"
  /\ MoveTo(srcptr, dstptr)
  /\ Unmoved
  /\ UNCHANGED <<working_hunks, moved_since_hash_match, working_hunk,
                 last_hunk, buzhashes>>

FarTooClose ==
  /\ InLoop("FAR")
  /\ moved_since_hash_match
  /\ srcptr + hashbytes >= src.size
  /\ mode' = "NEAR"
  /\ MoveTo(srcptr + 1, dstptr)
  /\ Unmoved
  /\ UNCHANGED <<working_hunks, moved_since_hash_match, working_hunk,
                 last_hunk, buzhashes>>

InFar ==
  /\ InLoop("FAR")
  /\ moved_since_hash_match
  /\ srcptr + hashbytes < src.size

\* The table of dst, made the first time it is needed: any of those the pool
\* of hi_hash_generate can leave (HashGenerate).
hi_hash_generate ==
  /\ InFar
  /\ buzhashes = NULL
  /\ buzhashes' \in HashTables(dst)
  /\ UNCHANGED <<src, dst, pc, working_hunks, tail, mode, srcptr, dstptr,
                 srcptr_new, dstptr_new, hash, popvalue,
                 moved_since_hash_match, working_hunk, last_hunk>>

\* The diff, its tree or the table of hashes cannot be made: NULL is returned.
NoDiff ==
  /\ \/ pc = "prelude" /\ srcptr_new = 0
     \/ InFar /\ buzhashes = NULL
  /\ pc' = "failed"
  /\ UNCHANGED <<src, dst, working_hunks, tail, cursor>>

\* The first offset listed for the hash that is not before dstptr; the search
\* ends there, with a match or too far.
FirstAhead(offset) ==
  LET value == buzhashes[hash]
  IN  \E i \in DOMAIN value :
        /\ value[i] = offset
        /\ offset >= dstptr
        /\ \A j \in 1 .. i - 1 : value[j] < dstptr

\* The offsets a match may lead to.
Within == dstptr .. dstptr + bytes_jump - 1

FarMatch ==
  /\ InFar
  /\ buzhashes # NULL
  /\ \E offset \in Within :
       /\ FirstAhead(offset)
       /\ MoveTo(srcptr, offset)
       /\ IF last_hunk = 0
          THEN /\ working_hunks' = Inserted("DIFF", srcptr - 1, offset - 1)
               /\ last_hunk' = Len(working_hunks) + 1
          ELSE /\ working_hunks' = [working_hunks EXCEPT
                                      ![last_hunk].src_end = srcptr - 1,
                                      ![last_hunk].dst_end = offset - 1]
               /\ last_hunk' = last_hunk
       /\ working_hunk' = Start("SAME_INDEXED", srcptr, offset)
  /\ mode' = "SYNC"
  /\ moved_since_hash_match' = FALSE
  /\ Unmoved
  /\ UNCHANGED buzhashes

FarMissed ==
  /\ InFar
  /\ buzhashes # NULL
  /\ \A offset \in Within : ~FirstAhead(offset)
  /\ MoveTo(srcptr + 1, dstptr)
  /\ Unmoved
  /\ UNCHANGED <<working_hunks, mode, moved_since_hash_match, working_hunk,
                 last_hunk, buzhashes>>

\* Bug: the byte after the one that leaves the window is removed.
RollWrongByte ==
  /\ pc = "roll"
  /\ srcptr < srcptr_new
  /\ srcptr' = srcptr + 1
  /\ hash' = IF srcptr + hashbytes < src.size
             THEN rabinkarp_roll(hash, src.memory[srcptr + hashbytes],
                                 src.memory[srcptr + 1], srcptr + hashbytes,
                                 hashbytes, popvalue)
             ELSE hash
  /\ UNCHANGED <<src, dst, pc, working_hunks, tail, mode, dstptr, srcptr_new,
                 dstptr_new, popvalue, moved_since_hash_match, working_hunk,
                 last_hunk, buzhashes>>

\* The hash follows srcptr, up to the last window of src.
Roll ==
  /\ pc = "roll"
  /\ srcptr < srcptr_new
  /\ srcptr' = srcptr + 1
  /\ hash' = IF srcptr + hashbytes < src.size
             THEN rabinkarp_roll(hash, src.memory[srcptr + hashbytes],
                                 src.memory[srcptr], srcptr + hashbytes,
                                 hashbytes, popvalue)
             ELSE hash
  /\ UNCHANGED <<src, dst, pc, working_hunks, tail, mode, dstptr, srcptr_new,
                 dstptr_new, popvalue, moved_since_hash_match, working_hunk,
                 last_hunk, buzhashes>>

RollDone ==
  /\ pc = "roll"
  /\ srcptr >= srcptr_new
  /\ dstptr' = dstptr_new
  /\ pc' = "loop"
  /\ UNCHANGED <<src, dst, working_hunks, tail, mode, srcptr, srcptr_new,
                 dstptr_new, hash, popvalue, moved_since_hash_match,
                 working_hunk, last_hunk, buzhashes>>

-----------------------------------------------------------------------------
\* The end of either file: the last hunks, then backtrack_hunks.

AtEOF == pc = "loop" /\ (srcptr >= src.size \/ dstptr >= dst.size)

ToBacktrack ==
  /\ pc' = "backtrack"
  /\ list' = 1
  /\ UNCHANGED <<src, dst, otherhunk, hunks, cursor>>

EofSync ==
  /\ AtEOF
  /\ mode = "SYNC"
  /\ LET same == ClampedHunk(working_hunk.type,
                             working_hunk.src_start, srcptr - 1,
                             working_hunk.dst_start, dstptr - 1)
         rest == ClampedHunk("DIFF", srcptr, src.size, dstptr, dst.size)
     IN  working_hunks' = IF dstptr # dst.size \/ srcptr # src.size
                          THEN working_hunks \o <<same, rest>>
                          ELSE Append(working_hunks, same)
  /\ ToBacktrack

EofUnsynced ==
  /\ AtEOF
  /\ mode # "SYNC"
  /\ working_hunks' =
       IF last_hunk = 0
       THEN Inserted("DIFF", src.size, dst.size)
       ELSE [working_hunks EXCEPT ![last_hunk].src_end = src.size,
                                  ![last_hunk].dst_end = dst.size]
  /\ ToBacktrack

Terminated == pc \in {"done", "fault", "failed"} /\ UNCHANGED vars

Loop ==
  \/ SyncMatch \/ SyncLost
  \/ NearFound \/ NearFault \/ NearMissed
  \/ FarGivenUp \/ FarTooClose \/ hi_hash_generate \/ FarMatch \/ FarMissed
  \/ Roll \/ RollDone

Next ==
  \/ Popvalue \/ Prelude \/ NoDiff
  \/ Loop
  \/ EofSync \/ EofUnsynced
  \/ (backtrack_hunks /\ UNCHANGED cursor)
  \/ Terminated

\* The program is sequential and keeps running.
Spec == Init /\ [][Next]_vars /\ WF_vars(Next)

-----------------------------------------------------------------------------
Walking == pc \in {"loop", "roll"}

\* Whenever a window of src starts at srcptr, the rolling hash is the hash of
\* that window, the one hi_hash_generate would file it under: no step that
\* moves srcptr forgets to roll, and none rolls past the last window.
HashTracksWindow ==
  Walking /\ srcptr + hashbytes <= src.size => hash = WindowHash(src, srcptr)

\* Outside SYNC, the hunk that "Edit last hunk" and the end of the files may
\* rewrite through last_hunk is the newest of the list, and it is held exactly
\* as long as no byte has matched since a hash did: the edit never reaches a
\* hunk that another one already follows.
LastHunkIsNewest ==
  Walking /\ mode # "SYNC" =>
    /\ last_hunk # 0 => last_hunk = Len(working_hunks)
    /\ last_hunk = 0 <=> moved_since_hash_match

\* len bytes from the two places on read the same.
SameRun(src_start, dst_start, len) ==
  \A k \in 0 .. len - 1 : Peek(src, src_start + k) = Peek(dst, dst_start + k)

\* In SYNC the two pointers stay on the diagonal of the working hunk, and all
\* the bytes since its start are equal.
SyncedBytesMatch ==
  pc = "loop" /\ mode = "SYNC" =>
    /\ srcptr - working_hunk.src_start = dstptr - working_hunk.dst_start
    /\ SameRun(working_hunk.src_start, working_hunk.dst_start,
               srcptr - working_hunk.src_start)

\* A hunk the walk has listed as the same is the same: as long in src as in
\* dst, and equal byte for byte, although a hash match is never compared.
ListedSameMatches ==
  Walking =>
    \A i \in DOMAIN working_hunks :
      LET hunk == working_hunks[i]
          len == hunk.src_end + 1 - hunk.src_start
      IN  hunk.type # "DIFF" =>
            /\ len = hunk.dst_end + 1 - hunk.dst_start
            /\ SameRun(hunk.src_start, hunk.dst_start, len)

\* A hunk from start to end is followed by one that starts at next, unless the
\* hunk is empty and was clamped to the first byte of its successor.
GoesOn(start, end, next) == next = end + 1 \/ (next = start /\ end = start)

\* The hunks the walk lists, with the working hunk, go on from one another in
\* both files and begin at the first bytes: no byte is skipped.
HunksFollow ==
  Walking =>
    LET starts == Append(working_hunks, working_hunk)
    IN  /\ starts[1].src_start = 0
        /\ starts[1].dst_start = 0
        /\ \A i \in DOMAIN working_hunks :
             LET hunk == working_hunks[i]
             IN  /\ GoesOn(hunk.src_start, hunk.src_end, starts[i + 1].src_start)
                 /\ GoesOn(hunk.dst_start, hunk.dst_end, starts[i + 1].dst_start)

\* The list stays in order in both files while hunks are moved back, cut and
\* removed, so that the nearest predecessor that starts before a hunk is the
\* one it grows into.  Only where a hash match led past the end of dst does
\* backtracking move a hunk forward, past the one that follows it.
StartsInOrder ==
  \A i \in DOMAIN working_hunks :
    i > 1 =>
      \/ StartsBefore(working_hunks[i - 1], working_hunks[i])
      \/ /\ working_hunks[i - 1].type = "SAME_BACKTRACKED"
         /\ working_hunks[i - 1].dst_start > dst.size

InSrc(hunk, i) == hunk.src_start <= i /\ i <= hunk.src_end
InDst(hunk, i) == hunk.dst_start <= i /\ i <= hunk.dst_end

\* Once the walk is over, every byte of either file is in some hunk of the
\* list, however much backtracking cuts and removes.
EveryByteListed ==
  pc \in {"backtrack", "tree"} =>
    /\ \A i \in 0 .. src.size - 1 :
         \E n \in DOMAIN working_hunks : InSrc(working_hunks[n], i)
    /\ \A i \in 0 .. dst.size - 1 :
         \E n \in DOMAIN working_hunks : InDst(working_hunks[n], i)

\* The tree stays a search tree although the hunks its keys point to are
\* extended in place after they went in.
TreeInOrder ==
  \A n \in DOMAIN hunks :
    n > 1 => compare_diff_hunks(working_hunks[hunks[n - 1].key],
                                working_hunks[hunks[n].key]) < 0

\* Every byte of src is in a hunk that the tree holds when the diff is done.
\* (Of dst this is not true: a clamped hunk can replace its neighbour.)
SrcInTree ==
  pc = "done" =>
    \A i \in 0 .. src.size - 1 :
      \E n \in DOMAIN hunks : InSrc(working_hunks[hunks[n].value], i)

\* Neither pointer ever goes back, whatever a hash match proposes.
ForwardOnly == [][srcptr' >= srcptr /\ dstptr' >= dstptr]_vars

\* The diff comes to an end on all files, with or without a tree, although NEAR and FAR hand over to
\* each other without a step forward in between.
Terminates == <>(pc \in {"done", "fault", "failed"})
=============================================================================
