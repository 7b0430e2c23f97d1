---------------------------- MODULE RKDiffProofs ----------------------------
(***************************************************************************)
(* Proofs about RKDiff and about DiffSession, which opens the pagers on    *)
(* its diff.  Type correctness is not inductive by itself: the branch of   *)
(* the far mode that edits last_hunk would write the end -1 into a hunk    *)
(* that starts the files, and is typed only because it is never taken.  So *)
(* the types are proved together with what last_hunk is (Inv).  On it rest *)
(* what the walk lists (WalkInv), what backtracking leaves of the list     *)
(* (BackInv), how its hunks meet in src (MoveInv), which keeps the tree in *)
(* order and without a gap (TreeInv), and what the rolled hash is          *)
(* (HashInv).                                                              *)
(* A session keeps RKDiff's invariants until the pagers open; from then on *)
(* the hunks and their tree stay as they are, and every lookup, whatever   *)
(* the shape of the tree, yields one of them or none (SessionInv).  That   *)
(* the steps of both pagers go forward needs the list in the order of dst  *)
(* too, where a hunk may have moved (DstInv).                              *)
(***************************************************************************)
EXTENDS DiffSession, HunkListProofs, HashTableProofs

BeforeBacktrack == pc \in {"popvalue", "prelude", "loop", "roll"}

\* No hash has matched since a byte has.
NotHeld == last_hunk = 0 /\ moved_since_hash_match

\* A hash has matched and no byte has since.
Held ==
  /\ last_hunk # 0
  /\ last_hunk = Len(working_hunks)
  /\ ~moved_since_hash_match

\* Where the pointers are, or are going.
SrcAhead == IF pc = "roll" THEN srcptr_new ELSE srcptr
DstAhead == IF pc = "roll" THEN dstptr_new ELSE dstptr

\* Outside SYNC last_hunk is held or not.  In SYNC it is held only where the
\* hash matched, or it is stale and the next turn, which finds equal bytes,
\* resets it.
LastHunkInv ==
  BeforeBacktrack =>
    \/ NotHeld
    \/ Held /\ (mode = "SYNC" => SrcAhead = working_hunk.src_start)
    \/ mode = "SYNC" /\ Peek(src, SrcAhead) = Peek(dst, DstAhead)

\* A roll goes forward.
RollInv == pc = "roll" => srcptr <= srcptr_new /\ dstptr <= dstptr_new

Inv == TypeOK /\ HunkListInv /\ LastHunkInv /\ RollInv

-----------------------------------------------------------------------------
\* The rolled hash is a hash.
LEMMA RollType ==
  ASSUME NEW h \in Hash, NEW byte \in Nat, NEW old \in Nat, NEW pop \in Nat,
         NEW curpos \in Nat, NEW rolllen \in Nat
  PROVE  rabinkarp_roll(h, byte, old, curpos, rolllen, pop) \in Hash
<1>1. old * pop \in Nat
  OBVIOUS
<1>2. uint32(old * pop) % PRIME \in 0 .. PRIME - 1
  BY <1>1, HashAssumption DEF uint32
<1>3. h + PRIME - (uint32(old * pop) % PRIME) \in Nat
  BY <1>2, HashAssumption DEF Hash
<1>4. uint32(h + PRIME - (uint32(old * pop) % PRIME)) \in Nat
  BY <1>3, HashAssumption DEF uint32
<1>5. rabinkarp_remove(h, old, pop) \in Nat
  BY <1>4, HashAssumption DEF rabinkarp_remove
<1>6. h \in Nat
  BY HashAssumption DEF Hash
<1> QED
  BY <1>5, <1>6, AddType DEF rabinkarp_roll

\* Inserting the working hunk keeps the list a list of hunks, one longer.
LEMMA InsertedType ==
  ASSUME working_hunks \in Seq(Hunk), NEW type \in HunkType,
         working_hunk \in [type : HunkType, src_start : Nat, dst_start : Nat],
         NEW src_end \in Int, NEW dst_end \in Int
  PROVE  /\ Inserted(type, src_end, dst_end) \in Seq(Hunk)
         /\ Len(Inserted(type, src_end, dst_end)) = Len(working_hunks) + 1
<1>1. ClampedHunk(type, working_hunk.src_start, src_end,
                  working_hunk.dst_start, dst_end) \in Hunk
  BY ClampedHunkType
<1> QED
  BY <1>1, AppendProperties DEF Inserted, insert_hunk

\* What the walk opens is the beginning of a hunk.
LEMMA StartType ==
  ASSUME NEW type \in HunkType, NEW s \in Nat, NEW d \in Nat
  PROVE  /\ Start(type, s, d) \in [type : HunkType, src_start : Nat, dst_start : Nat]
         /\ Start(type, s, d).src_start = s
BY DEF Start

\* The invariant holds at the start.
LEMMA InitInv == Init => Inv
<1> SUFFICES ASSUME Init PROVE Inv
  OBVIOUS
<1> USE DEF Init
<1>1. 0 \in Hash
  BY HashAssumption DEF Hash
<1>2. working_hunks \in Seq(Hunk) /\ Len(working_hunks) = 0
  BY EmptySeq
<1>3. HunkListTypeOK
  BY <1>2, EmptySeq DEF HunkListTypeOK
<1>4. TypeOK
  BY <1>1, <1>3, StartType DEF TypeOK, PC, Mode, HunkType
<1> QED
  BY <1>3, <1>4 DEF Inv, HunkListInv, LastHunkInv, NotHeld, RollInv

-----------------------------------------------------------------------------
\* What every step of the walk keeps once its new list is well typed.
LEMMA WalkKeepsList ==
  ASSUME Inv, BeforeBacktrack, working_hunks' \in Seq(Hunk),
         UNCHANGED <<src, dst, tail>>, pc' \notin {"backtrack", "tree"}
  PROVE  HunkListInv'
<1>1. /\ otherhunk' = 0 /\ hunks' = << >> /\ list' = list
      /\ src' = src /\ dst' = dst
  BY DEF Inv, HunkListInv, BeforeBacktrack, tail
<1>2. Len(working_hunks') \in Nat
  BY LenProperties
<1> QED
  BY <1>1, <1>2, EmptySeq DEF Inv, HunkListInv, HunkListTypeOK

\* The pop value and the first hash are calculated.
LEMMA PreludeKeepsInv ==
  ASSUME Inv, Popvalue \/ Prelude
  PROVE  Inv'
<1> USE DEF Inv
<1>1. pc \in {"popvalue", "prelude"} /\ pc' \in {"popvalue", "prelude", "loop"}
  BY DEF Popvalue, Prelude
<1>2. /\ UNCHANGED <<src, dst, working_hunks, tail, mode, srcptr, dstptr,
                     dstptr_new, moved_since_hash_match, working_hunk,
                     last_hunk, buzhashes>>
  BY DEF Popvalue, Prelude
<1>3. HunkListInv'
  BY <1>1, <1>2, WalkKeepsList DEF BeforeBacktrack, HunkListInv, HunkListTypeOK
<1>4. srcptr_new' \in Nat
  BY DEF Popvalue, Prelude, TypeOK
<1>5. popvalue' \in Nat
  <2>1. rabinkarp_popvalue_step(popvalue) \in Nat
    <3>1. popvalue * BASE \in Nat
      BY HashAssumption DEF TypeOK
    <3>2. uint32(popvalue * BASE) \in Nat
      BY <3>1, HashAssumption DEF uint32
    <3> QED
      BY <3>2, HashAssumption DEF rabinkarp_popvalue_step
  <2> QED
    BY <2>1 DEF Popvalue, Prelude, TypeOK
<1>6. hash' \in Hash
  <2>1. CASE Popvalue
    BY <2>1 DEF Popvalue, TypeOK
  <2>2. CASE Prelude
    <3>1. srcptr_new < src.size => src.memory[srcptr_new] \in Nat
      BY FileBytes DEF TypeOK, HunkListTypeOK
    <3>2. hash \in Nat
      BY HashAssumption DEF TypeOK, Hash
    <3> QED
      BY <2>2, <3>1, <3>2, AddType DEF Prelude, TypeOK
  <2> QED
    BY <2>1, <2>2
<1>7. TypeOK'
  BY <1>1, <1>2, <1>3, <1>4, <1>5, <1>6 DEF TypeOK, HunkListInv, PC
<1>8. LastHunkInv'
  BY <1>1, <1>2 DEF LastHunkInv, BeforeBacktrack, NotHeld, Held, SrcAhead, DstAhead
<1> QED
  BY <1>1, <1>3, <1>7, <1>8 DEF RollInv

-----------------------------------------------------------------------------
\* A turn of the loop that leaves the pointers for the roll to move keeps the
\* invariant if what it does set is well typed and it does not point back.
LEMMA TurnKeepsInv ==
  ASSUME Inv, pc = "loop", pc' = "roll", Unmoved, UNCHANGED buzhashes,
         working_hunks' \in Seq(Hunk),
         mode' \in Mode,
         srcptr_new' \in Nat, srcptr <= srcptr_new',
         dstptr_new' \in Nat, dstptr <= dstptr_new',
         moved_since_hash_match' \in BOOLEAN,
         working_hunk' \in [type : HunkType, src_start : Nat, dst_start : Nat],
         last_hunk' \in Nat,
         LastHunkInv'
  PROVE  Inv'
<1>1. UNCHANGED <<src, dst, srcptr, dstptr, hash, popvalue, tail>>
  BY DEF Unmoved
<1>2. HunkListInv'
  BY <1>1, WalkKeepsList DEF BeforeBacktrack
<1>3. TypeOK'
  BY <1>1, <1>2 DEF Inv, TypeOK, HunkListInv, PC
<1> QED
  BY <1>1, <1>2, <1>3 DEF Inv, RollInv

\* The types a turn starts from.
LEMMA TurnTypes ==
  ASSUME Inv, pc = "loop"
  PROVE  /\ src \in Files /\ dst \in Files
         /\ working_hunks \in Seq(Hunk) /\ Len(working_hunks) \in Nat
         /\ srcptr \in Nat /\ dstptr \in Nat
         /\ mode \in Mode
         /\ moved_since_hash_match \in BOOLEAN
         /\ working_hunk \in [type : HunkType, src_start : Nat, dst_start : Nat]
         /\ working_hunk.type \in HunkType
         /\ last_hunk \in Nat
BY LenProperties DEF Inv, TypeOK, HunkListTypeOK

\* Inside the files Peek is the byte.
LEMMA PeekInside ==
  ASSUME NEW m, InLoop(m)
  PROVE  /\ Peek(src, srcptr) = src.memory[srcptr]
         /\ Peek(dst, dstptr) = dst.memory[dstptr]
BY DEF InLoop, Peek

\* In SYNC the invariant of last_hunk, seen from where the pointers are.
LEMMA HeldInSync ==
  ASSUME Inv, InLoop("SYNC"), src.memory[srcptr] # dst.memory[dstptr]
  PROVE  NotHeld \/ (Held /\ srcptr = working_hunk.src_start)
BY PeekInside DEF Inv, LastHunkInv, BeforeBacktrack, InLoop, SrcAhead, DstAhead

\* Outside SYNC it is held or not.
LEMMA HeldOutsideSync ==
  ASSUME Inv, NEW m \in {"NEAR", "FAR"}, InLoop(m)
  PROVE  NotHeld \/ Held
BY DEF Inv, LastHunkInv, BeforeBacktrack, InLoop

\* A turn of SYNC.
LEMMA SyncKeepsInv ==
  ASSUME Inv, SyncMatch \/ SyncLost
  PROVE  Inv'
<1>1. pc = "loop" /\ InLoop("SYNC")
  BY DEF SyncMatch, SyncLost, InLoop
<1> USE TurnTypes, <1>1
<1>2. CASE SyncMatch
  <2>1. /\ pc' = "roll" /\ Unmoved
        /\ srcptr_new' = srcptr + 1 /\ dstptr_new' = dstptr + 1
        /\ last_hunk' = 0 /\ moved_since_hash_match' = TRUE
        /\ UNCHANGED <<working_hunks, mode, working_hunk, buzhashes>>
    BY <1>2 DEF SyncMatch, MoveTo
  <2>2. LastHunkInv'
    BY <2>1 DEF LastHunkInv, NotHeld
  <2> QED
    BY <2>1, <2>2, TurnKeepsInv
<1>3. CASE SyncLost
  <2>1. /\ pc' = "roll" /\ Unmoved /\ mode' = "NEAR"
        /\ srcptr_new' = srcptr /\ dstptr_new' = dstptr
        /\ UNCHANGED <<moved_since_hash_match, last_hunk, buzhashes>>
    BY <1>3 DEF SyncLost, MoveTo
  <2>2. NotHeld \/ (Held /\ srcptr = working_hunk.src_start)
    BY <1>3, HeldInSync DEF SyncLost
  <2>3. CASE srcptr # working_hunk.src_start /\ dstptr # working_hunk.dst_start
    <3>1. /\ working_hunks' = Inserted(working_hunk.type, srcptr - 1, dstptr - 1)
          /\ working_hunk' = Start(working_hunk.type, srcptr, dstptr)
      BY <1>3, <2>3 DEF SyncLost
    <3>2. working_hunks' \in Seq(Hunk)
      BY <3>1, InsertedType
    <3>3. LastHunkInv'
      BY <2>1, <2>2, <2>3 DEF LastHunkInv, NotHeld
    <3>4. mode' \in Mode
      BY <2>1 DEF Mode
    <3>5. working_hunk' \in [type : HunkType, src_start : Nat, dst_start : Nat]
      BY <3>1, StartType
    <3> QED
      BY <2>1, <3>2, <3>3, <3>4, <3>5, TurnKeepsInv
  <2>4. CASE ~(srcptr # working_hunk.src_start /\ dstptr # working_hunk.dst_start)
    <3>1. UNCHANGED <<working_hunks, working_hunk>>
      BY <1>3, <2>4 DEF SyncLost
    <3>2. LastHunkInv'
      BY <2>1, <2>2, <3>1 DEF LastHunkInv, NotHeld, Held
    <3>3. mode' \in Mode
      BY <2>1 DEF Mode
    <3> QED
      BY <2>1, <3>1, <3>2, <3>3, TurnKeepsInv
  <2> QED
    BY <2>3, <2>4
<1> QED
  BY <1>2, <1>3

\* A near match begins with equal bytes, since minimum_same is not 0.
LEMMA NearMatchAhead ==
  ASSUME NEW s \in Nat, NEW d \in Nat, NearMatch(s, d),
         srcptr \in Nat, dstptr \in Nat
  PROVE  Peek(src, srcptr + s) = Peek(dst, dstptr + d)
<1>1. 0 \in 0 .. minimum_same - 1
  BY OptionAssumption
<1>2. SameAt(s + 0, d + 0)
  BY <1>1 DEF NearMatch
<1> QED
  BY <1>2 DEF SameAt

\* The near search ends, with a match or without.
LEMMA NearKeepsInv ==
  ASSUME Inv, NearFound \/ NearMissed
  PROVE  Inv'
<1>1. pc = "loop" /\ InLoop("NEAR")
  BY DEF NearFound, NearMissed, InLoop
<1> USE TurnTypes, <1>1
<1>2. CASE NearFound
  <2>0. PICK size \in 0 .. hashbytes - 1 : \E s \in 0 .. size :
          /\ NearMatch(s, size - s)
          /\ working_hunks' = Inserted("DIFF", srcptr + s - 1,
                                       dstptr + (size - s) - 1)
          /\ working_hunk' = Start("SAME", srcptr + s, dstptr + (size - s))
          /\ MoveTo(srcptr + s, dstptr + (size - s))
    BY <1>2 DEF NearFound
  <2>1. PICK s \in 0 .. size :
          /\ NearMatch(s, size - s)
          /\ working_hunks' = Inserted("DIFF", srcptr + s - 1,
                                       dstptr + (size - s) - 1)
          /\ working_hunk' = Start("SAME", srcptr + s, dstptr + (size - s))
          /\ MoveTo(srcptr + s, dstptr + (size - s))
    BY <2>0
  <2>2. /\ pc' = "roll" /\ Unmoved /\ mode' = "SYNC"
        /\ srcptr_new' = srcptr + s /\ dstptr_new' = dstptr + (size - s)
        /\ UNCHANGED <<moved_since_hash_match, last_hunk, buzhashes>>
    BY <1>2, <2>1 DEF NearFound, MoveTo
  <2>3. s \in Nat /\ size - s \in Nat
    BY HashAssumption
  <2>4. working_hunks' \in Seq(Hunk)
    <3>1. srcptr + s - 1 \in Int /\ dstptr + (size - s) - 1 \in Int
      BY <2>3
    <3>2. "DIFF" \in HunkType
      BY DEF HunkType
    <3>3. Inserted("DIFF", srcptr + s - 1, dstptr + (size - s) - 1) \in Seq(Hunk)
      BY <3>1, <3>2, InsertedType
    <3> QED
      BY <2>1, <3>3
  <2>5. working_hunk' \in [type : HunkType, src_start : Nat, dst_start : Nat]
    <3>1. srcptr + s \in Nat /\ dstptr + (size - s) \in Nat
      BY <2>3
    <3>2. "SAME" \in HunkType
      BY DEF HunkType
    <3>3. Start("SAME", srcptr + s, dstptr + (size - s))
            \in [type : HunkType, src_start : Nat, dst_start : Nat]
      BY <3>1, <3>2, StartType
    <3> QED
      BY <2>1, <3>3
  <2>6. Peek(src', srcptr_new') = Peek(dst', dstptr_new')
    <3>1. Peek(src, srcptr + s) = Peek(dst, dstptr + (size - s))
      BY <2>1, <2>3, NearMatchAhead
    <3>2. src' = src /\ dst' = dst
      BY <2>2 DEF Unmoved
    <3> QED
      BY <2>2, <3>1, <3>2
  <2>7. LastHunkInv'
    BY <2>2, <2>6 DEF LastHunkInv, SrcAhead, DstAhead
  <2>8. mode' \in Mode
    BY <2>2 DEF Mode
  <2> QED
    BY <2>2, <2>3, <2>4, <2>5, <2>7, <2>8, TurnKeepsInv
<1>3. CASE NearMissed
  <2>1. /\ pc' = "roll" /\ Unmoved /\ mode' = "FAR"
        /\ srcptr_new' = srcptr /\ dstptr_new' = dstptr
        /\ UNCHANGED <<working_hunks, moved_since_hash_match, working_hunk,
                       last_hunk, buzhashes>>
    BY <1>3 DEF NearMissed, MoveTo
  <2>2. LastHunkInv'
    BY <2>1, HeldOutsideSync DEF LastHunkInv, NotHeld, Held
  <2>3. mode' \in Mode
    BY <2>1 DEF Mode
  <2> QED
    BY <2>1, <2>2, <2>3, TurnKeepsInv
<1> QED
  BY <1>2, <1>3

\* A turn of FAR without a match.
LEMMA FarWalkKeepsInv ==
  ASSUME Inv, FarGivenUp \/ FarTooClose \/ FarMissed
  PROVE  Inv'
<1>1. pc = "loop" /\ InLoop("FAR")
  BY DEF FarGivenUp, FarTooClose, FarMissed, InFar, InLoop
<1> USE TurnTypes, <1>1
<1>2. /\ pc' = "roll" /\ Unmoved /\ mode' \in {"NEAR", "FAR"}
      /\ srcptr_new' = srcptr + 1 /\ dstptr_new' = dstptr
      /\ UNCHANGED <<working_hunks, moved_since_hash_match, working_hunk,
                     last_hunk, buzhashes>>
  BY DEF FarGivenUp, FarTooClose, FarMissed, MoveTo, InLoop
<1>3. LastHunkInv'
  BY <1>2, HeldOutsideSync DEF LastHunkInv, NotHeld, Held
<1>4. mode' \in Mode
  BY <1>2 DEF Mode
<1> QED
  BY <1>2, <1>3, <1>4, TurnKeepsInv

\* A hash match finds last_hunk NULL: the branch that edits it is never taken.
LEMMA FarMatchInserts ==
  ASSUME Inv, FarMatch
  PROVE  last_hunk = 0
BY HeldOutsideSync DEF FarMatch, InFar, NotHeld, Held

\* A turn of FAR with a match, which may edit last_hunk.
LEMMA FarMatchKeepsInv ==
  ASSUME Inv, FarMatch
  PROVE  Inv'
<1>1. pc = "loop" /\ InLoop("FAR")
  BY DEF FarMatch, InFar, InLoop
<1> USE TurnTypes, <1>1
<1>2. PICK place \in Within :
        /\ MoveTo(srcptr, place)
        /\ working_hunks' = Inserted("DIFF", srcptr - 1, place - 1)
        /\ last_hunk' = Len(working_hunks) + 1
        /\ working_hunk' = Start("SAME_INDEXED", srcptr, place)
  BY FarMatchInserts DEF FarMatch
<1>3. /\ pc' = "roll" /\ Unmoved /\ mode' = "SYNC"
      /\ srcptr_new' = srcptr /\ dstptr_new' = place
      /\ moved_since_hash_match' = FALSE
      /\ UNCHANGED buzhashes
  BY <1>2 DEF FarMatch, MoveTo
<1>4. place \in Nat /\ dstptr <= place
  <2>1. bytes_jump \in Int
    <3>1. dst.size \in Nat
      BY FileBytes
    <3> QED
      BY <3>1, OptionAssumption, HashAssumption DEF bytes_jump
  <2> QED
    BY <2>1 DEF Within
<1>5. "DIFF" \in HunkType /\ "SAME_INDEXED" \in HunkType
  BY DEF HunkType
<1>6. /\ working_hunks' \in Seq(Hunk)
      /\ Len(working_hunks') = Len(working_hunks) + 1
  BY <1>2, <1>4, <1>5, InsertedType
<1>7. /\ working_hunk' \in [type : HunkType, src_start : Nat, dst_start : Nat]
      /\ working_hunk'.src_start = srcptr
  BY <1>2, <1>4, <1>5, StartType
<1>8. LastHunkInv'
  BY <1>2, <1>3, <1>6, <1>7 DEF LastHunkInv, Held, SrcAhead
<1>9. mode' \in Mode
  BY <1>3 DEF Mode
<1>10. last_hunk' \in Nat /\ moved_since_hash_match' \in BOOLEAN
  <2>1. last_hunk' \in Nat
    BY <1>2
  <2>2. moved_since_hash_match' \in BOOLEAN
    BY <1>3
  <2> QED
    BY <2>1, <2>2
<1>11. /\ srcptr_new' \in Nat /\ srcptr <= srcptr_new'
       /\ dstptr_new' \in Nat /\ dstptr <= dstptr_new'
  BY <1>3, <1>4
<1> QED
  BY <1>3, <1>6, <1>7, <1>8, <1>9, <1>10, <1>11, TurnKeepsInv

\* The call of hi_hash_generate.
LEMMA GenerateKeepsInv ==
  ASSUME Inv, hi_hash_generate
  PROVE  Inv'
<1>1. /\ UNCHANGED <<src, dst, pc, working_hunks, tail, mode, srcptr, dstptr,
                     srcptr_new, dstptr_new, hash, popvalue,
                     moved_since_hash_match, working_hunk, last_hunk>>
      /\ buzhashes' \in HashTables(dst)
      /\ pc = "loop"
  BY DEF hi_hash_generate, InFar, InLoop
<1>2. HunkListInv'
  BY <1>1 DEF Inv, HunkListInv, HunkListTypeOK, tail
<1>3. TypeOK'
  BY <1>1, <1>2 DEF Inv, TypeOK, HunkListInv
<1>4. LastHunkInv' /\ RollInv'
  BY <1>1 DEF Inv, LastHunkInv, BeforeBacktrack, RollInv, NotHeld, Held,
              SrcAhead, DstAhead
<1> QED
  BY <1>2, <1>3, <1>4 DEF Inv

\* The hash rolls up to srcptr_new.
LEMMA RollKeepsInv ==
  ASSUME Inv, Roll \/ RollDone
  PROVE  Inv'
<1>1. /\ UNCHANGED <<src, dst, working_hunks, tail, mode, srcptr_new,
                     dstptr_new, popvalue, moved_since_hash_match,
                     working_hunk, last_hunk, buzhashes>>
      /\ pc = "roll" /\ pc' \in {"roll", "loop"}
  BY DEF Roll, RollDone
<1>2. HunkListInv'
  BY <1>1, WalkKeepsList DEF Inv, BeforeBacktrack, HunkListInv, HunkListTypeOK
<1>3. /\ srcptr \in Nat /\ srcptr_new \in Nat /\ dstptr_new \in Nat
      /\ srcptr <= srcptr_new /\ dstptr \in Nat
  BY <1>1 DEF Inv, TypeOK, RollInv
<1>4. CASE Roll
  <2>1. pc' = "roll" /\ srcptr' = srcptr + 1 /\ srcptr < srcptr_new /\ dstptr' = dstptr
    BY <1>4 DEF Roll
  <2>2. hash' \in Hash
    <3>1. CASE srcptr + hashbytes < src.size
      <4>1. srcptr \in 0 .. src.size - 1 /\ srcptr + hashbytes \in 0 .. src.size - 1
        BY <1>3, <3>1, FileBytes, HashAssumption DEF Inv, TypeOK, HunkListTypeOK
      <4>2. src.memory[srcptr] \in Nat /\ src.memory[srcptr + hashbytes] \in Nat
        BY <4>1, FileBytes DEF Inv, TypeOK, HunkListTypeOK
      <4>3. hash \in Hash /\ popvalue \in Nat
        BY DEF Inv, TypeOK
      <4>4. srcptr + hashbytes \in Nat /\ hashbytes \in Nat
        BY <1>3, HashAssumption
      <4>5. rabinkarp_roll(hash, src.memory[srcptr + hashbytes], src.memory[srcptr],
                           srcptr + hashbytes, hashbytes, popvalue) \in Hash
        BY <4>2, <4>3, <4>4, RollType
      <4> QED
        BY <1>4, <3>1, <4>5 DEF Roll
    <3>2. CASE ~(srcptr + hashbytes < src.size)
      BY <1>4, <3>2 DEF Roll, Inv, TypeOK
    <3> QED
      BY <3>1, <3>2
  <2>3. TypeOK'
    BY <1>1, <1>2, <1>3, <2>1, <2>2 DEF Inv, TypeOK, HunkListInv, PC
  <2>4. LastHunkInv' /\ RollInv'
    BY <1>1, <1>3, <2>1 DEF Inv, LastHunkInv, BeforeBacktrack, RollInv, NotHeld,
                            Held, SrcAhead, DstAhead
  <2> QED
    BY <1>2, <2>3, <2>4 DEF Inv
<1>5. CASE RollDone
  <2>1. /\ pc' = "loop" /\ srcptr' = srcptr /\ srcptr = srcptr_new
        /\ dstptr' = dstptr_new /\ hash' = hash
    BY <1>3, <1>5 DEF RollDone
  <2>2. TypeOK'
    BY <1>1, <1>2, <1>3, <2>1 DEF Inv, TypeOK, HunkListInv, PC
  <2>3. LastHunkInv' /\ RollInv'
    BY <1>1, <1>3, <2>1 DEF Inv, LastHunkInv, BeforeBacktrack, RollInv, NotHeld,
                            Held, SrcAhead, DstAhead
  <2> QED
    BY <1>2, <2>2, <2>3 DEF Inv
<1> QED
  BY <1>4, <1>5

-----------------------------------------------------------------------------
\* The end of either file.
LEMMA EofKeepsInv ==
  ASSUME Inv, EofSync \/ EofUnsynced
  PROVE  Inv'
<1>1. /\ pc = "loop" /\ pc' = "backtrack" /\ list' = 1
      /\ UNCHANGED <<src, dst, otherhunk, hunks, cursor>>
  BY DEF EofSync, EofUnsynced, AtEOF, ToBacktrack
<1> USE TurnTypes, <1>1
<1>2. src.size \in Nat /\ dst.size \in Nat /\ "DIFF" \in HunkType
  BY FileBytes DEF HunkType
<1>3. working_hunks' \in Seq(Hunk)
  <2>1. CASE EofSync
    <3> DEFINE same == ClampedHunk(working_hunk.type,
                                   working_hunk.src_start, srcptr - 1,
                                   working_hunk.dst_start, dstptr - 1)
               rest == ClampedHunk("DIFF", srcptr, src.size, dstptr, dst.size)
    <3>1. same \in Hunk /\ rest \in Hunk
      BY <1>2, ClampedHunkType
    <3>2. working_hunks' = working_hunks \o <<same, rest>> \/ working_hunks' = Append(working_hunks, same)
      BY <2>1 DEF EofSync
    <3> HIDE DEF same, rest
    <3>3. <<same, rest>> \in Seq(Hunk)
      BY <3>1
    <3>4. working_hunks \o <<same, rest>> \in Seq(Hunk)
      BY <3>3, ConcatProperties
    <3>5. Append(working_hunks, same) \in Seq(Hunk)
      BY <3>1, AppendProperties
    <3> QED
      BY <3>2, <3>4, <3>5
  <2>2. CASE EofUnsynced
    <3>1. CASE last_hunk = 0
      BY <1>2, <2>2, <3>1, InsertedType DEF EofUnsynced
    <3>2. CASE last_hunk # 0
      <4>1. last_hunk \in 1 .. Len(working_hunks)
        BY <2>2, <3>2 DEF Inv, LastHunkInv, BeforeBacktrack, EofUnsynced, NotHeld, Held
      <4>2. working_hunks[last_hunk] \in Hunk
        BY <4>1, ElementOfSeq
      <4> DEFINE edited == [working_hunks[last_hunk] EXCEPT !.src_end = src.size,
                                                           !.dst_end = dst.size]
      <4>3. edited \in Hunk
        BY <1>2, <4>2 DEF Hunk
      <4>4. working_hunks' = [working_hunks EXCEPT ![last_hunk] = edited]
        BY <2>2, <3>2, <4>1, <4>2 DEF EofUnsynced, Hunk
      <4> QED
        BY <4>1, <4>3, <4>4, ExceptSeq
    <3> QED
      BY <3>1, <3>2
  <2> QED
    BY <2>1, <2>2
<1>4. HunkListInv'
  <2>1. otherhunk' = 0 /\ hunks' = << >> /\ src' = src /\ dst' = dst
    BY DEF Inv, HunkListInv
  <2>2. Len(working_hunks') \in Nat
    BY <1>3, LenProperties
  <2> QED
    BY <1>3, <2>1, <2>2, EmptySeq DEF Inv, HunkListInv, HunkListTypeOK
<1>5. TypeOK'
  BY <1>4 DEF Inv, TypeOK, HunkListInv, PC, cursor
<1> QED
  BY <1>4, <1>5 DEF Inv, LastHunkInv, BeforeBacktrack, RollInv

\* From backtrack_hunks on only the list and the tree change.
LEMMA BacktrackStepKeepsInv ==
  ASSUME Inv, backtrack_hunks, UNCHANGED cursor
  PROVE  Inv'
<1>1. HunkListInv'
  BY BacktrackKeepsInv DEF Inv
<1>2. pc' \in {"backtrack", "tree", "done", "fault"} /\ dst' = dst
  BY DEF backtrack_hunks, BacktrackHunk, BacktrackFault, BacktrackSkip,
         BacktrackDone, TreeCoalesce, TreeInsert, TreeDone, AtIndexed, AtTree
<1>3. TypeOK'
  BY <1>1, <1>2 DEF Inv, TypeOK, HunkListInv, PC, cursor
<1> QED
  BY <1>1, <1>2, <1>3 DEF Inv, LastHunkInv, BeforeBacktrack, RollInv

\* A read of an unmapped page ends the program.
LEMMA FaultKeepsInv ==
  ASSUME Inv, NearFault
  PROVE  Inv'
<1>1. /\ pc = "loop" /\ pc' = "fault"
      /\ UNCHANGED <<src, dst, working_hunks, tail, cursor>>
  BY DEF NearFault, InLoop
<1>2. HunkListInv'
  BY <1>1, WalkKeepsList DEF Inv, BeforeBacktrack, HunkListInv, HunkListTypeOK
<1>3. TypeOK'
  BY <1>1, <1>2 DEF Inv, TypeOK, HunkListInv, PC, cursor
<1> QED
  BY <1>1, <1>2, <1>3 DEF Inv, LastHunkInv, BeforeBacktrack, RollInv

\* The diff is given up for want of memory.
LEMMA NoDiffKeepsInv ==
  ASSUME Inv, NoDiff
  PROVE  Inv'
<1>1. /\ BeforeBacktrack /\ pc' = "failed"
      /\ UNCHANGED <<src, dst, working_hunks, tail, cursor>>
  BY DEF NoDiff, InFar, InLoop, BeforeBacktrack
<1>2. HunkListInv'
  BY <1>1, WalkKeepsList DEF Inv, HunkListInv, HunkListTypeOK
<1>3. TypeOK'
  BY <1>1, <1>2 DEF Inv, TypeOK, HunkListInv, PC, cursor
<1> QED
  BY <1>1, <1>2, <1>3 DEF Inv, LastHunkInv, BeforeBacktrack, RollInv

\* Nothing happens.
LEMMA StutterKeepsInv ==
  ASSUME Inv, UNCHANGED vars
  PROVE  Inv'
BY DEF vars, tail, cursor, Inv, TypeOK, HunkListInv, HunkListTypeOK, LastHunkInv,
       RollInv, BeforeBacktrack, NotHeld, Held, SrcAhead, DstAhead

\* Every step keeps the invariant, one case per action.
LEMMA NextKeepsInv == Inv /\ [Next]_vars => Inv'
<1> SUFFICES ASSUME Inv, [Next]_vars PROVE Inv'
  OBVIOUS
<1>1. CASE Popvalue \/ Prelude
  BY <1>1, PreludeKeepsInv
<1>2. CASE SyncMatch \/ SyncLost
  BY <1>2, SyncKeepsInv
<1>3. CASE NearFound \/ NearMissed
  BY <1>3, NearKeepsInv
<1>4. CASE NearFault
  BY <1>4, FaultKeepsInv
<1>5. CASE FarGivenUp \/ FarTooClose \/ FarMissed
  BY <1>5, FarWalkKeepsInv
<1>6. CASE hi_hash_generate
  BY <1>6, GenerateKeepsInv
<1>7. CASE FarMatch
  BY <1>7, FarMatchKeepsInv
<1>8. CASE Roll \/ RollDone
  BY <1>8, RollKeepsInv
<1>9. CASE EofSync \/ EofUnsynced
  BY <1>9, EofKeepsInv
<1>10. CASE backtrack_hunks /\ UNCHANGED cursor
  BY <1>10, BacktrackStepKeepsInv
<1>11. CASE Terminated \/ UNCHANGED vars
  BY <1>11, StutterKeepsInv DEF Terminated
<1>12. CASE NoDiff
  BY <1>12, NoDiffKeepsInv
<1> QED
  BY <1>1, <1>2, <1>3, <1>4, <1>5, <1>6, <1>7, <1>8, <1>9, <1>10, <1>11, <1>12
  DEF Next, Loop

\* The inductive invariant holds of every behaviour.
LEMMA SpecInv == Spec => []Inv
<1>1. Init => Inv
  BY InitInv
<1>2. Inv /\ [Next]_vars => Inv'
  BY NextKeepsInv
<1> QED
  BY <1>1, <1>2, PTL DEF Spec

\* hi_diff_calculate_rabinkarp keeps its pointers, its hash and its hunks in
\* range on all files: no end of a hunk is ever the -1 of srcptr - 1.
THEOREM TypeCorrect == Spec => []TypeOK
<1>1. Inv => TypeOK
  BY DEF Inv
<1> QED
  BY <1>1, SpecInv, PTL

\* last_hunk is the newest hunk whenever it may be edited, and is held exactly
\* while no byte has matched since the last hash match.
THEOREM LastHunkCorrect == Spec => []LastHunkIsNewest
<1>1. Inv => LastHunkIsNewest
  BY DEF Inv, TypeOK, Mode, LastHunkIsNewest, LastHunkInv, BeforeBacktrack, Walking,
         NotHeld, Held
<1> QED
  BY <1>1, SpecInv, PTL

\* Neither pointer of the walk ever goes back.
THEOREM PointersGoForward == Spec => ForwardOnly
<1>1. Inv /\ [Next]_vars => [srcptr' >= srcptr /\ dstptr' >= dstptr]_vars
  <2> SUFFICES ASSUME Inv, [Next]_vars
               PROVE  srcptr' >= srcptr /\ dstptr' >= dstptr
    OBVIOUS
  <2>1. srcptr \in Nat /\ dstptr \in Nat
    BY DEF Inv, TypeOK
  <2>2. CASE Roll
    BY <2>1, <2>2 DEF Roll
  <2>3. CASE RollDone
    BY <2>1, <2>3 DEF RollDone, Inv, RollInv
  <2>4. CASE UNCHANGED <<srcptr, dstptr>>
    BY <2>1, <2>4
  <2>5. Roll \/ RollDone \/ UNCHANGED <<srcptr, dstptr>>
    <3>1. Popvalue \/ Prelude => UNCHANGED <<srcptr, dstptr>>
      BY DEF Popvalue, Prelude
    <3>2. SyncMatch \/ SyncLost \/ NearFound \/ NearMissed => UNCHANGED <<srcptr, dstptr>>
      BY DEF SyncMatch, SyncLost, NearFound, NearMissed, Unmoved
    <3>3. FarGivenUp \/ FarTooClose \/ FarMatch \/ FarMissed => UNCHANGED <<srcptr, dstptr>>
      BY DEF FarGivenUp, FarTooClose, FarMatch, FarMissed, Unmoved
    <3>4. hi_hash_generate => UNCHANGED <<srcptr, dstptr>>
      BY DEF hi_hash_generate
    <3>5. NearFault \/ NoDiff \/ EofSync \/ EofUnsynced => UNCHANGED cursor
      BY DEF NearFault, NoDiff, EofSync, EofUnsynced, ToBacktrack
    <3>6. Terminated \/ UNCHANGED vars => UNCHANGED cursor
      BY DEF Terminated, vars
    <3>7. UNCHANGED cursor => UNCHANGED <<srcptr, dstptr>>
      BY DEF cursor
    <3> QED
      BY <3>1, <3>2, <3>3, <3>4, <3>5, <3>6, <3>7 DEF Next, Loop
  <2> QED
    BY <2>2, <2>3, <2>4, <2>5
<1> QED
  BY <1>1, SpecInv, PTL DEF Spec, ForwardOnly

-----------------------------------------------------------------------------
(***************************************************************************)
(* What is listed.  Neither property of the list is inductive by itself: a *)
(* hunk that is listed as the same is the same only because SYNC has       *)
(* stayed on the diagonal of the working hunk, byte for byte, since that   *)
(* hunk was opened, and the hunks go on from one another only because the  *)
(* working hunk is never opened ahead of the pointers.                     *)
(***************************************************************************)

\* The working hunk is not ahead of the pointers, and in SYNC they are on its
\* diagonal, past equal bytes only.
OnDiagonal ==
  /\ working_hunk.src_start <= SrcAhead
  /\ working_hunk.dst_start <= DstAhead
  /\ mode = "SYNC" =>
       /\ SrcAhead - working_hunk.src_start = DstAhead - working_hunk.dst_start
       /\ SameRun(working_hunk.src_start, working_hunk.dst_start,
                  SrcAhead - working_hunk.src_start)

\* The working hunk is opened as the same or, inside src, as indexed, and once
\* SYNC is lost it starts inside both files.
Opened ==
  /\ working_hunk.type \in {"SAME", "SAME_INDEXED"}
  /\ working_hunk.type = "SAME_INDEXED" => working_hunk.src_start < src.size
  /\ mode # "SYNC" => /\ working_hunk.src_start < src.size
                      /\ working_hunk.dst_start < dst.size

\* A hunk is listed with at least a byte on both sides and, unless it is
\* different, as long in src as in dst and the same.
WellListed(hunk) ==
  LET len == hunk.src_end + 1 - hunk.src_start
  IN  /\ hunk.src_start <= hunk.src_end
      /\ hunk.dst_start <= hunk.dst_end
      /\ hunk.type # "DIFF" =>
           /\ len = hunk.dst_end + 1 - hunk.dst_start
           /\ SameRun(hunk.src_start, hunk.dst_start, len)

ListedSame == \A i \in 1 .. Len(working_hunks) : WellListed(working_hunks[i])

\* What follows the hunk i of the list.
After(i) == IF i = Len(working_hunks) THEN working_hunk ELSE working_hunks[i + 1]

\* The hunks and the working hunk go on from one another, and the first of
\* them is not indexed.
Chained ==
  /\ After(0).src_start = 0 /\ After(0).dst_start = 0
  /\ After(0).type # "SAME_INDEXED"
  /\ \A i \in 1 .. Len(working_hunks) :
       /\ GoesOn(working_hunks[i].src_start, working_hunks[i].src_end,
                 After(i).src_start)
       /\ GoesOn(working_hunks[i].dst_start, working_hunks[i].dst_end,
                 After(i).dst_start)

WalkInv == BeforeBacktrack => OnDiagonal /\ Opened /\ ListedSame /\ Chained

-----------------------------------------------------------------------------
\* A list that has grown by one hunk.
LEMMA AppendedHunk ==
  ASSUME working_hunks \in Seq(Hunk), NEW hunk \in Hunk,
         working_hunks' = Append(working_hunks, hunk)
  PROVE  /\ Len(working_hunks) \in Nat
         /\ Len(working_hunks') = Len(working_hunks) + 1
         /\ \A i \in 1 .. Len(working_hunks) : working_hunks'[i] = working_hunks[i]
         /\ working_hunks'[Len(working_hunks) + 1] = hunk
BY AppendProperties, LenProperties

\* The working hunk is inserted up to, and opened anew at, s and d, which are
\* not before it; if it is listed as the same, it is.
LEMMA InsertKeepsList ==
  ASSUME Inv, BeforeBacktrack, WalkInv, UNCHANGED <<src, dst>>,
         NEW type \in {"DIFF", working_hunk.type}, NEW s \in Nat, NEW d \in Nat,
         working_hunk.src_start <= s, working_hunk.dst_start <= d,
         working_hunks' = Inserted(type, s - 1, d - 1),
         working_hunk'.src_start = s, working_hunk'.dst_start = d,
         type # "DIFF" =>
           /\ working_hunk.src_start < s
           /\ s - working_hunk.src_start = d - working_hunk.dst_start
           /\ SameRun(working_hunk.src_start, working_hunk.dst_start,
                      s - working_hunk.src_start)
  PROVE  ListedSame' /\ Chained'
<1> DEFINE hunk == ClampedHunk(type, working_hunk.src_start, s - 1,
                               working_hunk.dst_start, d - 1)
           n == Len(working_hunks)
<1>1. /\ working_hunks \in Seq(Hunk)
      /\ working_hunk.src_start \in Nat /\ working_hunk.dst_start \in Nat
      /\ type \in HunkType
  BY DEF Inv, TypeOK, HunkListTypeOK, HunkType
<1>2. hunk \in Hunk
  BY <1>1, ClampedHunkType
<1>3. /\ n \in Nat
      /\ Len(working_hunks') = n + 1
      /\ \A i \in 1 .. n : working_hunks'[i] = working_hunks[i]
      /\ working_hunks'[n + 1] = hunk
  BY <1>1, <1>2, AppendedHunk DEF Inserted, insert_hunk
<1>4. /\ hunk.type = type
      /\ hunk.src_start = working_hunk.src_start
      /\ hunk.dst_start = working_hunk.dst_start
      /\ hunk.src_end = IF s - 1 < working_hunk.src_start
                        THEN working_hunk.src_start ELSE s - 1
      /\ hunk.dst_end = IF d - 1 < working_hunk.dst_start
                        THEN working_hunk.dst_start ELSE d - 1
  BY DEF ClampedHunk
<1>5. ListedSame /\ Chained
  BY DEF WalkInv
<1>6. ASSUME NEW i \in 1 .. n
      PROVE  /\ GoesOn(working_hunks[i].src_start, working_hunks[i].src_end,
                       After(i).src_start)
             /\ GoesOn(working_hunks[i].dst_start, working_hunks[i].dst_end,
                       After(i).dst_start)
  BY <1>5 DEF Chained
<1> HIDE DEF hunk, n
<1>7. ListedSame'
  <2>1. ASSUME NEW i \in 1 .. n PROVE WellListed(working_hunks'[i])
    BY <1>3, <1>5 DEF ListedSame, n
  <2>2. WellListed(hunk)
    <3>1. CASE type = "DIFF"
      BY <1>1, <1>4, <3>1 DEF WellListed
    <3>2. CASE type # "DIFF"
      <4>1. hunk.src_end + 1 - hunk.src_start = s - working_hunk.src_start
        BY <1>1, <1>4, <3>2
      <4>2. hunk.dst_end + 1 - hunk.dst_start = s - working_hunk.src_start
        BY <1>1, <1>4, <3>2
      <4> QED
        BY <1>1, <1>4, <3>2, <4>1, <4>2 DEF WellListed
    <3> QED
      BY <3>1, <3>2
  <2>3. ASSUME NEW i \in 1 .. n + 1 PROVE WellListed(working_hunks'[i])
    <3>1. CASE i \in 1 .. n
      BY <2>1, <3>1
    <3>2. CASE i = n + 1
      BY <1>3, <2>2, <3>2
    <3> QED
      BY <1>3, <3>1, <3>2
  <2> QED
    BY <1>3, <2>3 DEF ListedSame, WellListed, SameRun
<1>8. Chained'
  <2>1. /\ After(0)'.src_start = 0 /\ After(0)'.dst_start = 0
        /\ After(0)'.type # "SAME_INDEXED"
    <3>1. CASE n = 0
      BY <1>3, <1>4, <1>5, <3>1 DEF Chained, After, n
    <3>2. CASE n # 0
      BY <1>3, <1>5, <3>2 DEF Chained, After, n
    <3> QED
      BY <3>1, <3>2
  <2>2. ASSUME NEW i \in 1 .. n + 1
        PROVE  /\ GoesOn(working_hunks'[i].src_start, working_hunks'[i].src_end,
                         After(i)'.src_start)
               /\ GoesOn(working_hunks'[i].dst_start, working_hunks'[i].dst_end,
                         After(i)'.dst_start)
    <3>1. CASE i \in 1 .. n - 1
      <4>1. i \in 1 .. n /\ i + 1 \in 1 .. n /\ i # n /\ i # n + 1
        BY <1>3, <3>1
      <4>2. After(i)' = After(i) /\ working_hunks'[i] = working_hunks[i]
        BY <1>3, <4>1 DEF After, n
      <4>3. /\ GoesOn(working_hunks[i].src_start, working_hunks[i].src_end,
                      After(i).src_start)
            /\ GoesOn(working_hunks[i].dst_start, working_hunks[i].dst_end,
                      After(i).dst_start)
        BY <1>6, <4>1
      <4> QED
        BY <4>2, <4>3
    <3>2. CASE i = n
      <4>1. /\ After(i)'.src_start = After(i).src_start
            /\ After(i)'.dst_start = After(i).dst_start
            /\ working_hunks'[i] = working_hunks[i]
        BY <1>3, <1>4, <3>2 DEF After, n
      <4> QED
        BY <1>3, <1>6, <3>2, <4>1
    <3>3. CASE i = n + 1
      <4>1. After(i)' = working_hunk' /\ working_hunks'[i] = hunk
        BY <1>3, <3>3 DEF After
      <4> QED
        BY <1>1, <1>4, <4>1, SMTT(30) DEF GoesOn
    <3> QED
      BY <1>3, <3>1, <3>2, <3>3
  <2> QED
    BY <1>3, <2>1, <2>2 DEF Chained
<1> QED
  BY <1>7, <1>8

\* A turn that lists nothing and leaves the working hunk keeps the list.
LEMMA ListKept ==
  ASSUME WalkInv, BeforeBacktrack,
         UNCHANGED <<src, dst, working_hunks, working_hunk>>
  PROVE  /\ ListedSame' /\ Chained'
         /\ (mode' = mode \/ mode # "SYNC") => Opened'
BY DEF WalkInv, ListedSame, WellListed, SameRun, Chained, After, Opened

\* Outside SYNC a step that does not move the pointers back stays past the
\* start of the working hunk.
LEMMA StaysPast ==
  ASSUME Inv, WalkInv, BeforeBacktrack, mode' # "SYNC",
         working_hunk' = working_hunk,
         SrcAhead' \in Nat, DstAhead' \in Nat,
         SrcAhead <= SrcAhead', DstAhead <= DstAhead'
  PROVE  OnDiagonal'
<1>1. /\ SrcAhead \in Nat /\ DstAhead \in Nat
      /\ working_hunk.src_start \in Nat /\ working_hunk.dst_start \in Nat
  BY DEF Inv, TypeOK, SrcAhead, DstAhead
<1> QED
  BY <1>1 DEF WalkInv, OnDiagonal

\* A hunk opened where the pointers go is on their diagonal.
LEMMA OpensOnDiagonal ==
  ASSUME NEW s \in Nat, NEW d \in Nat,
         SrcAhead' = s, DstAhead' = d,
         working_hunk'.src_start = s, working_hunk'.dst_start = d
  PROVE  OnDiagonal'
BY DEF OnDiagonal, SameRun

\* A turn of SYNC goes on along the diagonal, or lists what it has passed.
LEMMA SyncKeepsWalk ==
  ASSUME Inv, WalkInv, SyncMatch \/ SyncLost
  PROVE  WalkInv'
<1>1. pc = "loop" /\ InLoop("SYNC") /\ BeforeBacktrack /\ mode = "SYNC"
  BY DEF SyncMatch, SyncLost, InLoop, BeforeBacktrack
<1>2. /\ srcptr \in Nat /\ dstptr \in Nat
      /\ working_hunk.src_start \in Nat /\ working_hunk.dst_start \in Nat
      /\ working_hunk.type \in HunkType
      /\ SrcAhead = srcptr /\ DstAhead = dstptr
  BY <1>1, TurnTypes DEF SrcAhead, DstAhead
<1>3. /\ OnDiagonal /\ Opened
      /\ working_hunk.src_start <= srcptr /\ working_hunk.dst_start <= dstptr
      /\ srcptr - working_hunk.src_start = dstptr - working_hunk.dst_start
      /\ SameRun(working_hunk.src_start, working_hunk.dst_start,
                 srcptr - working_hunk.src_start)
  BY <1>1, <1>2 DEF WalkInv, OnDiagonal
<1>4. CASE SyncMatch
  <2>1. /\ pc' = "roll" /\ UNCHANGED <<src, dst, working_hunks, working_hunk>>
        /\ mode' = "SYNC" /\ SrcAhead' = srcptr + 1 /\ DstAhead' = dstptr + 1
    BY <1>1, <1>4 DEF SyncMatch, MoveTo, Unmoved, SrcAhead, DstAhead
  <2>2. Peek(src, srcptr) = Peek(dst, dstptr)
    BY <1>1, <1>4, PeekInside DEF SyncMatch
  <2>3. SameRun(working_hunk.src_start, working_hunk.dst_start,
                srcptr + 1 - working_hunk.src_start)
    <3> DEFINE len == srcptr - working_hunk.src_start
    <3>1. working_hunk.src_start + len = srcptr /\ working_hunk.dst_start + len = dstptr
      BY <1>2, <1>3
    <3>2. srcptr + 1 - working_hunk.src_start = len + 1 /\ len \in Nat
      BY <1>2, <1>3
    <3> HIDE DEF len
    <3>3. ASSUME NEW k \in 0 .. len
          PROVE  Peek(src, working_hunk.src_start + k)
                   = Peek(dst, working_hunk.dst_start + k)
      <4>1. CASE k = len
        BY <2>2, <3>1, <4>1
      <4>2. CASE k \in 0 .. len - 1
        BY <1>3, <4>2 DEF SameRun, len
      <4> QED
        BY <3>2, <4>1, <4>2
    <3> QED
      BY <3>2, <3>3 DEF SameRun
  <2>4. OnDiagonal'
    BY <1>2, <1>3, <2>1, <2>3 DEF OnDiagonal, SameRun
  <2> QED
    BY <1>1, <2>1, <2>4, ListKept DEF WalkInv
<1>5. CASE SyncLost
  <2>1. /\ pc' = "roll" /\ UNCHANGED <<src, dst>>
        /\ mode' = "NEAR" /\ SrcAhead' = srcptr /\ DstAhead' = dstptr
    BY <1>1, <1>5 DEF SyncLost, MoveTo, Unmoved, SrcAhead, DstAhead
  <2>0. /\ srcptr < src.size /\ dstptr < dst.size
        /\ src.size \in Nat /\ dst.size \in Nat
    BY <1>1, TurnTypes, FileBytes DEF InLoop
  <2>2. CASE srcptr # working_hunk.src_start /\ dstptr # working_hunk.dst_start
    <3>1. /\ working_hunks' = Inserted(working_hunk.type, srcptr - 1, dstptr - 1)
          /\ working_hunk' = Start(working_hunk.type, srcptr, dstptr)
      BY <1>5, <2>2 DEF SyncLost
    <3>2. /\ working_hunk'.src_start = srcptr /\ working_hunk'.dst_start = dstptr
          /\ working_hunk'.type = working_hunk.type
      BY <3>1 DEF Start
    <3>3. working_hunk.src_start < srcptr
      BY <1>2, <1>3, <2>2
    <3>4. ListedSame' /\ Chained'
      BY <1>1, <1>2, <1>3, <2>1, <3>1, <3>2, <3>3, InsertKeepsList
    <3>5. OnDiagonal'
      BY <1>2, <2>1, <3>2, OpensOnDiagonal
    <3>6. Opened'
      BY <1>3, <2>0, <2>1, <3>2 DEF Opened
    <3> QED
      BY <3>4, <3>5, <3>6 DEF WalkInv
  <2>3. CASE ~(srcptr # working_hunk.src_start /\ dstptr # working_hunk.dst_start)
    <3>1. UNCHANGED <<working_hunks, working_hunk>>
      BY <1>5, <2>3 DEF SyncLost
    <3>2. OnDiagonal'
      BY <1>1, <1>2, <2>1, <3>1, StaysPast
    <3>3. Opened'
      BY <1>2, <1>3, <2>0, <2>1, <3>1 DEF Opened
    <3> QED
      BY <1>1, <2>1, <3>1, <3>2, <3>3, ListKept DEF WalkInv
  <2> QED
    BY <2>2, <2>3
<1> QED
  BY <1>4, <1>5

\* The near search lists a hunk up to its match and opens one there.
LEMMA NearKeepsWalk ==
  ASSUME Inv, WalkInv, NearFound
  PROVE  WalkInv'
<1>1. pc = "loop" /\ BeforeBacktrack
  BY DEF NearFound, InLoop, BeforeBacktrack
<1>2. PICK size \in 0 .. hashbytes - 1 : \E s \in 0 .. size :
        /\ NearMatch(s, size - s)
        /\ working_hunks' = Inserted("DIFF", srcptr + s - 1, dstptr + (size - s) - 1)
        /\ working_hunk' = Start("SAME", srcptr + s, dstptr + (size - s))
        /\ MoveTo(srcptr + s, dstptr + (size - s))
  BY <1>1, TurnTypes DEF NearFound
<1>3. PICK s \in 0 .. size :
        /\ working_hunks' = Inserted("DIFF", srcptr + s - 1, dstptr + (size - s) - 1)
        /\ working_hunk' = Start("SAME", srcptr + s, dstptr + (size - s))
        /\ MoveTo(srcptr + s, dstptr + (size - s))
  BY <1>2
<1>4. /\ srcptr \in Nat /\ dstptr \in Nat
      /\ working_hunk.src_start \in Nat /\ working_hunk.dst_start \in Nat
      /\ working_hunk.src_start <= srcptr /\ working_hunk.dst_start <= dstptr
  BY <1>1, TurnTypes DEF WalkInv, OnDiagonal, SrcAhead, DstAhead
<1>5. PICK s_new \in Nat, d_new \in Nat :
        /\ s_new = srcptr + s /\ d_new = dstptr + (size - s)
        /\ working_hunk.src_start <= s_new /\ working_hunk.dst_start <= d_new
  BY <1>4, HashAssumption
<1>6. /\ working_hunks' = Inserted("DIFF", s_new - 1, d_new - 1)
      /\ working_hunk' = Start("SAME", s_new, d_new)
      /\ srcptr_new' = s_new /\ dstptr_new' = d_new
  BY <1>3, <1>4, <1>5, HashAssumption DEF MoveTo
<1>7. /\ working_hunk'.src_start = s_new /\ working_hunk'.dst_start = d_new
      /\ working_hunk'.type = "SAME"
  BY <1>6 DEF Start
<1>8. /\ UNCHANGED <<src, dst>> /\ SrcAhead' = s_new /\ DstAhead' = d_new
      /\ mode' = "SYNC"
  BY <1>3, <1>6 DEF NearFound, Unmoved, MoveTo, SrcAhead, DstAhead
<1>9. ListedSame' /\ Chained'
  BY <1>1, <1>5, <1>6, <1>7, <1>8, InsertKeepsList DEF HunkType
<1>10. OnDiagonal'
  BY <1>5, <1>7, <1>8, OpensOnDiagonal
<1> QED
  BY <1>7, <1>8, <1>9, <1>10 DEF WalkInv, Opened

\* A hash match lists a hunk up to the match and opens an indexed one there,
\* of which no byte has been compared.
LEMMA FarMatchKeepsWalk ==
  ASSUME Inv, WalkInv, FarMatch
  PROVE  WalkInv'
<1>1. pc = "loop" /\ BeforeBacktrack
  BY DEF FarMatch, InFar, InLoop, BeforeBacktrack
<1>2. PICK place \in Within :
        /\ MoveTo(srcptr, place)
        /\ working_hunks' = Inserted("DIFF", srcptr - 1, place - 1)
        /\ working_hunk' = Start("SAME_INDEXED", srcptr, place)
  BY FarMatchInserts DEF FarMatch
<1>3. /\ srcptr \in Nat /\ dstptr \in Nat /\ dst.size \in Nat
      /\ working_hunk.src_start \in Nat /\ working_hunk.dst_start \in Nat
      /\ working_hunk.src_start <= srcptr /\ working_hunk.dst_start <= dstptr
  BY <1>1, TurnTypes, FileBytes DEF WalkInv, OnDiagonal, SrcAhead, DstAhead
<1>4. place \in Nat /\ dstptr <= place
  <2>1. bytes_jump \in Int
    BY <1>3, OptionAssumption, HashAssumption DEF bytes_jump
  <2> QED
    BY <1>3, <2>1 DEF Within
<1>5. /\ working_hunk'.src_start = srcptr /\ working_hunk'.dst_start = place
      /\ working_hunk'.type = "SAME_INDEXED"
  BY <1>2 DEF Start
<1>6. /\ UNCHANGED <<src, dst>> /\ SrcAhead' = srcptr /\ DstAhead' = place
      /\ mode' = "SYNC"
  BY <1>2 DEF FarMatch, Unmoved, MoveTo, SrcAhead, DstAhead
<1>7. working_hunk.dst_start <= place
  BY <1>3, <1>4
<1>8. ListedSame' /\ Chained'
  BY <1>1, <1>2, <1>3, <1>4, <1>5, <1>6, <1>7, InsertKeepsList DEF HunkType
<1>9. OnDiagonal'
  BY <1>3, <1>4, <1>5, <1>6, OpensOnDiagonal
<1>10. srcptr < src.size
  BY <1>1, TurnTypes DEF FarMatch, InFar, InLoop
<1> QED
  BY <1>5, <1>6, <1>8, <1>9, <1>10 DEF WalkInv, Opened

\* The other steps of the walk leave the list and the working hunk.
LEMMA OtherStepKeepsWalk ==
  ASSUME Inv, Inv', WalkInv,
         \/ Popvalue \/ Prelude
         \/ NearMissed \/ FarGivenUp \/ FarTooClose \/ FarMissed
         \/ hi_hash_generate \/ Roll \/ RollDone
  PROVE  WalkInv'
<1>1. /\ UNCHANGED <<src, dst, working_hunks, working_hunk>>
      /\ BeforeBacktrack /\ BeforeBacktrack'
  BY DEF Popvalue, Prelude, NearMissed, FarGivenUp, FarTooClose, FarMissed, Unmoved,
         hi_hash_generate, Roll, RollDone, BeforeBacktrack, InLoop, InFar, MoveTo
<1>2. Opened' /\ ListedSame' /\ Chained'
  <2>1. mode' = mode \/ mode # "SYNC"
    BY DEF Popvalue, Prelude, NearMissed, FarGivenUp, FarTooClose, FarMissed,
           hi_hash_generate, Roll, RollDone, InLoop, InFar
  <2> QED
    BY <1>1, <2>1, ListKept
<1>3. OnDiagonal
  BY <1>1 DEF WalkInv
<1>4. /\ srcptr \in Nat /\ dstptr \in Nat /\ srcptr_new \in Nat /\ dstptr_new \in Nat
      /\ srcptr' \in Nat /\ dstptr' \in Nat /\ srcptr_new' \in Nat /\ dstptr_new' \in Nat
  BY DEF Inv, TypeOK
<1>5. CASE NearMissed \/ FarGivenUp \/ FarTooClose \/ FarMissed
  <2>1. /\ mode' # "SYNC" /\ pc = "loop" /\ pc' = "roll"
        /\ srcptr_new' \in {srcptr, srcptr + 1} /\ dstptr_new' = dstptr
    BY <1>5 DEF NearMissed, FarGivenUp, FarTooClose, FarMissed, MoveTo, InLoop, InFar
  <2>2. /\ SrcAhead' \in Nat /\ DstAhead' \in Nat
        /\ SrcAhead <= SrcAhead' /\ DstAhead <= DstAhead'
    BY <1>4, <2>1 DEF SrcAhead, DstAhead
  <2>3. OnDiagonal'
    BY <1>1, <2>1, <2>2, StaysPast
  <2> QED
    BY <1>2, <2>3 DEF WalkInv
<1>6. CASE Popvalue \/ Prelude \/ hi_hash_generate \/ Roll \/ RollDone
  <2>1. mode' = mode /\ SrcAhead' = SrcAhead /\ DstAhead' = DstAhead
    <3>1. CASE Popvalue \/ Prelude
      BY <3>1 DEF Popvalue, Prelude, SrcAhead, DstAhead
    <3>2. CASE hi_hash_generate
      BY <3>2 DEF hi_hash_generate, SrcAhead, DstAhead
    <3>3. CASE Roll
      BY <3>3 DEF Roll, SrcAhead, DstAhead
    <3>4. CASE RollDone
      <4>1. srcptr = srcptr_new
        BY <1>4, <3>4 DEF RollDone, Inv, RollInv
      <4> QED
        BY <3>4, <4>1 DEF RollDone, SrcAhead, DstAhead
    <3> QED
      BY <1>6, <3>1, <3>2, <3>3, <3>4
  <2>2. OnDiagonal'
    BY <1>1, <1>3, <2>1 DEF OnDiagonal, SameRun
  <2> QED
    BY <1>2, <2>2 DEF WalkInv
<1> QED
  BY <1>5, <1>6

\* At the start nothing is listed and the working hunk is at the first bytes.
LEMMA InitWalk == Init => WalkInv
<1> SUFFICES ASSUME Init PROVE WalkInv
  OBVIOUS
<1>1. Len(working_hunks) = 0
  BY EmptySeq DEF Init
<1> QED
  BY <1>1 DEF Init, WalkInv, OnDiagonal, SameRun, Opened, ListedSame, Chained, After,
              Start, SrcAhead, DstAhead

\* Every step keeps the walk's invariant.
LEMMA NextKeepsWalk == Inv /\ Inv' /\ WalkInv /\ [Next]_vars => WalkInv'
<1> SUFFICES ASSUME Inv, Inv', WalkInv, [Next]_vars PROVE WalkInv'
  OBVIOUS
<1>1. CASE SyncMatch \/ SyncLost
  BY <1>1, SyncKeepsWalk
<1>2. CASE NearFound
  BY <1>2, NearKeepsWalk
<1>3. CASE FarMatch
  BY <1>3, FarMatchKeepsWalk
<1>4. CASE \/ Popvalue \/ Prelude
           \/ NearMissed \/ FarGivenUp \/ FarTooClose \/ FarMissed
           \/ hi_hash_generate \/ Roll \/ RollDone
  BY <1>4, OtherStepKeepsWalk
<1>5. CASE NearFault \/ NoDiff \/ EofSync \/ EofUnsynced
  BY <1>5 DEF NearFault, NoDiff, EofSync, EofUnsynced, ToBacktrack, WalkInv, BeforeBacktrack
<1>6. CASE backtrack_hunks /\ UNCHANGED cursor
  BY <1>6 DEF backtrack_hunks, BacktrackHunk, BacktrackFault, BacktrackSkip,
              BacktrackDone, TreeCoalesce, TreeInsert, TreeDone, AtIndexed, AtTree,
              WalkInv, BeforeBacktrack
<1>7. CASE Terminated \/ UNCHANGED vars
  BY <1>7 DEF Terminated, vars, cursor, WalkInv, BeforeBacktrack, OnDiagonal, SameRun,
              Opened, ListedSame, WellListed, Chained, After, SrcAhead, DstAhead
<1> QED
  BY <1>1, <1>2, <1>3, <1>4, <1>5, <1>6, <1>7 DEF Next, Loop

\* The walk's invariant holds of every behaviour.
LEMMA SpecWalk == Spec => [](Inv /\ WalkInv)
<1>1. Init => Inv /\ WalkInv
  BY InitInv, InitWalk
<1>2. Inv /\ WalkInv /\ [Next]_vars => Inv' /\ WalkInv'
  BY NextKeepsInv, NextKeepsWalk
<1> QED
  BY <1>1, <1>2, PTL DEF Spec

\* In SYNC the pointers are on the diagonal of the working hunk, past equal
\* bytes only, in every file and also where a hash match has put them.
THEOREM SyncStaysOnDiagonal == Spec => []SyncedBytesMatch
<1>1. WalkInv => SyncedBytesMatch
  BY DEF WalkInv, OnDiagonal, SyncedBytesMatch, BeforeBacktrack, SrcAhead, DstAhead
<1> QED
  BY <1>1, SpecWalk, PTL

\* No hunk the walk lists as the same, or as indexed, holds a byte that
\* differs, although the hash that may have opened it is never verified.
THEOREM SameHunksMatch == Spec => []ListedSameMatches
<1>1. Inv /\ WalkInv => ListedSameMatches
  <2> SUFFICES ASSUME Inv, WalkInv, Walking PROVE ListedSameMatches
    BY DEF ListedSameMatches
  <2>1. DOMAIN working_hunks = 1 .. Len(working_hunks)
    BY LenProperties DEF Inv, TypeOK, HunkListTypeOK
  <2> QED
    BY <2>1 DEF WalkInv, ListedSame, WellListed, ListedSameMatches, Walking, BeforeBacktrack
<1> QED
  BY <1>1, SpecWalk, PTL

\* The walk skips no byte: its hunks begin at the first bytes and each begins
\* where the one before it ends, in both files.
THEOREM HunksGoOn == Spec => []HunksFollow
<1>1. Inv /\ WalkInv => HunksFollow
  <2> SUFFICES ASSUME Inv, WalkInv, Walking PROVE HunksFollow
    BY DEF HunksFollow
  <2> DEFINE S == Hunk \cup {working_hunk}
             starts == Append(working_hunks, working_hunk)
             n == Len(working_hunks)
  <2>1. working_hunks \in Seq(Hunk)
    BY DEF Inv, TypeOK, HunkListTypeOK
  <2>2. working_hunks \in Seq(S)
    BY <2>1, ElementOfSeq, LenProperties
  <2>3. n \in Nat
    BY <2>1, LenProperties
  <2>4. DOMAIN working_hunks = 1 .. n
    BY <2>1, LenProperties
  <2>5. /\ \A i \in 1 .. n : starts[i] = working_hunks[i]
        /\ starts[n + 1] = working_hunk
    BY <2>2, AppendProperties, LenProperties
  <2>6. Chained
    BY DEF WalkInv, Walking, BeforeBacktrack
  <2> HIDE DEF S, starts
  <2>7. ASSUME NEW i \in 0 .. n PROVE starts[i + 1] = After(i)
    <3>1. CASE i = n
      BY <2>5, <3>1 DEF After
    <3>2. CASE i # n
      <4>1. i + 1 \in 1 .. n
        BY <2>3, <3>2
      <4> QED
        BY <2>5, <3>2, <4>1 DEF After
    <3> QED
      BY <3>1, <3>2
  <2>8. starts[1] = After(0)
    BY <2>3, <2>7
  <2>9. ASSUME NEW i \in 1 .. n PROVE starts[i + 1] = After(i)
    BY <2>3, <2>7
  <2> QED
    BY <2>4, <2>6, <2>8, <2>9 DEF HunksFollow, Chained, starts
<1> QED
  BY <1>1, SpecWalk, PTL

-----------------------------------------------------------------------------
(***************************************************************************)
(* What backtracking makes of the list.  That it stays in order and still  *)
(* reaches every byte rests on the first hunk, which is never moved: some  *)
(* predecessor of a hunk that moves back is always kept.                   *)
(***************************************************************************)

NotInverted(hunk) ==
  /\ hunk.src_start <= hunk.src_end + 1
  /\ hunk.dst_start <= hunk.dst_end + 1

\* next begins at most one past the end of hunk, in both files.
Joins(hunk, next) ==
  /\ next.src_start <= hunk.src_end + 1
  /\ next.dst_start <= hunk.dst_end + 1

InOrder(hunk, next) ==
  \/ StartsBefore(hunk, next)
  \/ hunk.type = "SAME_BACKTRACKED" /\ hunk.dst_start > dst.size

\* A hunk that is still to move back has a byte in both files, and its first
\* bytes agree unless it starts past the end of dst.
Movable(hunk) ==
  hunk.type = "SAME_INDEXED" =>
    /\ hunk.src_start <= hunk.src_end
    /\ hunk.dst_start <= hunk.dst_end
    /\ \/ hunk.dst_start >= dst.size
       \/ Peek(src, hunk.src_start) = Peek(dst, hunk.dst_start)

\* The list begins at the first bytes, leaves no gap and reaches the last bytes.
Covers ==
  LET len == Len(working_hunks)
  IN  /\ len > 0
      /\ working_hunks[1].src_start = 0 /\ working_hunks[1].dst_start = 0
      /\ \A i \in 1 .. len : NotInverted(working_hunks[i])
      /\ \A i \in 1 .. len - 1 : Joins(working_hunks[i], working_hunks[i + 1])
      /\ working_hunks[len].src_end >= src.size - 1
      /\ working_hunks[len].dst_end >= dst.size - 1

ListInOrder ==
  \A i \in 1 .. Len(working_hunks) - 1 : InOrder(working_hunks[i], working_hunks[i + 1])

\* The hunks that list has passed are not indexed any more, nor is the first.
Passed ==
  /\ working_hunks[1].type # "SAME_INDEXED"
  /\ \A i \in 1 .. Len(working_hunks) :
       /\ Movable(working_hunks[i])
       /\ i < list => working_hunks[i].type # "SAME_INDEXED"

BackInv ==
  /\ ~BeforeBacktrack => ListInOrder
  /\ pc \in {"backtrack", "tree"} => Covers
  /\ pc = "backtrack" => Passed

\* A list all of whose hunks may move back, in order and without a gap.
Ready(L) ==
  /\ \A i \in 1 .. Len(L) : NotInverted(L[i]) /\ Movable(L[i])
  /\ \A i \in 1 .. Len(L) - 1 : Joins(L[i], L[i + 1]) /\ StartsBefore(L[i], L[i + 1])
  /\ Len(L) > 0 =>
       L[1].src_start = 0 /\ L[1].dst_start = 0 /\ L[1].type # "SAME_INDEXED"

\* hunk may come at the end of the list L.
Follows(L, hunk) ==
  IF Len(L) = 0
  THEN hunk.src_start = 0 /\ hunk.dst_start = 0 /\ hunk.type # "SAME_INDEXED"
  ELSE Joins(L[Len(L)], hunk) /\ StartsBefore(L[Len(L)], hunk)

\* The list stays ready when a hunk that follows it is put at its end.
LEMMA ReadyAppended ==
  ASSUME NEW L \in Seq(Hunk), NEW hunk \in Hunk, Ready(L), Follows(L, hunk),
         NotInverted(hunk), Movable(hunk)
  PROVE  /\ Append(L, hunk) \in Seq(Hunk)
         /\ Ready(Append(L, hunk))
         /\ Len(Append(L, hunk)) = Len(L) + 1
         /\ Append(L, hunk)[Len(L) + 1] = hunk
<1> DEFINE M == Append(L, hunk)
           n == Len(L)
<1>1. /\ n \in Nat /\ M \in Seq(Hunk) /\ Len(M) = n + 1
      /\ \A i \in 1 .. n : M[i] = L[i]
      /\ M[n + 1] = hunk
  BY AppendProperties, LenProperties
<1>2. /\ \A i \in 1 .. n : NotInverted(L[i]) /\ Movable(L[i])
      /\ \A i \in 1 .. n - 1 : Joins(L[i], L[i + 1]) /\ StartsBefore(L[i], L[i + 1])
      /\ n > 0 => L[1].src_start = 0 /\ L[1].dst_start = 0 /\ L[1].type # "SAME_INDEXED"
  BY DEF Ready
<1>3. IF n = 0
      THEN hunk.src_start = 0 /\ hunk.dst_start = 0 /\ hunk.type # "SAME_INDEXED"
      ELSE Joins(L[n], hunk) /\ StartsBefore(L[n], hunk)
  BY DEF Follows
<1> HIDE DEF M, n
<1>4. ASSUME NEW i \in 1 .. n + 1 PROVE NotInverted(M[i]) /\ Movable(M[i])
  <2>1. CASE i = n + 1
    BY <1>1, <2>1
  <2>2. CASE i # n + 1
    <3>1. i \in 1 .. n
      BY <1>1, <2>2
    <3> QED
      BY <1>1, <1>2, <3>1
  <2> QED
    BY <2>1, <2>2
<1>5. ASSUME NEW i \in 1 .. n PROVE Joins(M[i], M[i + 1]) /\ StartsBefore(M[i], M[i + 1])
  <2>1. CASE i = n
    <3>1. M[i] = L[n] /\ M[i + 1] = hunk /\ n # 0
      BY <1>1, <2>1
    <3> QED
      BY <1>3, <3>1
  <2>2. CASE i # n
    <3>1. i \in 1 .. n - 1 /\ i + 1 \in 1 .. n
      BY <1>1, <2>2
    <3>2. M[i] = L[i] /\ M[i + 1] = L[i + 1]
      BY <1>1, <3>1
    <3> QED
      BY <1>2, <3>1, <3>2
  <2> QED
    BY <2>1, <2>2
<1>6. M[1].src_start = 0 /\ M[1].dst_start = 0 /\ M[1].type # "SAME_INDEXED"
  <2>1. CASE n = 0
    BY <1>1, <1>3, <2>1
  <2>2. CASE n # 0
    BY <1>1, <1>2, <2>2
  <2> QED
    BY <2>1, <2>2
<1>7. \A i \in 1 .. Len(M) - 1 : Joins(M[i], M[i + 1]) /\ StartsBefore(M[i], M[i + 1])
  <2>1. Len(M) - 1 = n
    BY <1>1
  <2> QED
    BY <1>5, <2>1
<1>8. Ready(M)
  BY <1>1, <1>4, <1>6, <1>7 DEF Ready
<1> QED
  BY <1>1, <1>8 DEF M, n

\* The list stays ready when the ends of its last hunk go beyond its starts.
LEMMA ReadyEdited ==
  ASSUME NEW L \in Seq(Hunk), Ready(L), Len(L) > 0,
         NEW src_end \in Nat, L[Len(L)].src_start <= src_end,
         NEW dst_end \in Nat, L[Len(L)].dst_start <= dst_end
  PROVE  Ready([L EXCEPT ![Len(L)].src_end = src_end, ![Len(L)].dst_end = dst_end])
<1> DEFINE n == Len(L)
           hunk == [L[n] EXCEPT !.src_end = src_end, !.dst_end = dst_end]
           M == [L EXCEPT ![n] = hunk]
<1>1. n \in Nat /\ n \in 1 .. n
  BY LenProperties
<1>2. L[n] \in Hunk
  BY <1>1, ElementOfSeq
<1>3. /\ hunk \in Hunk
      /\ hunk.type = L[n].type
      /\ hunk.src_start = L[n].src_start /\ hunk.dst_start = L[n].dst_start
      /\ hunk.src_end = src_end /\ hunk.dst_end = dst_end
  BY <1>2 DEF Hunk
<1>4. [L EXCEPT ![Len(L)].src_end = src_end, ![Len(L)].dst_end = dst_end] = M
  BY <1>1, <1>2 DEF Hunk
<1>5. /\ Len(M) = n /\ M[n] = hunk
      /\ \A i \in 1 .. n - 1 : M[i] = L[i]
  <2> HIDE DEF hunk
  <2>1. M \in Seq(Hunk) /\ Len(M) = n
    BY <1>1, <1>3, ExceptSeq
  <2>2. M[n] = hunk
    BY <1>1, LenProperties
  <2>3. ASSUME NEW i \in 1 .. n - 1 PROVE M[i] = L[i]
    <3>1. i \in DOMAIN L /\ i # n
      BY <1>1, LenProperties
    <3> QED
      BY <3>1
  <2> QED
    BY <2>1, <2>2, <2>3
<1>6. /\ \A i \in 1 .. n : NotInverted(L[i]) /\ Movable(L[i])
      /\ \A i \in 1 .. n - 1 : Joins(L[i], L[i + 1]) /\ StartsBefore(L[i], L[i + 1])
      /\ L[1].src_start = 0 /\ L[1].dst_start = 0 /\ L[1].type # "SAME_INDEXED"
  BY DEF Ready
<1>7. NotInverted(hunk)
  BY <1>2, <1>3, SMTT(30) DEF NotInverted, Hunk
<1>8. Movable(hunk)
  BY <1>1, <1>3, <1>6 DEF Movable
<1> HIDE DEF n, hunk, M
<1>9. ASSUME NEW i \in 1 .. n PROVE NotInverted(M[i]) /\ Movable(M[i])
  <2>1. CASE i = n
    BY <1>5, <1>7, <1>8, <2>1
  <2>2. CASE i # n
    <3>1. i \in 1 .. n - 1
      BY <1>1, <2>2
    <3> QED
      BY <1>5, <1>6, <3>1
  <2> QED
    BY <2>1, <2>2
<1>10. ASSUME NEW i \in 1 .. n - 1 PROVE Joins(M[i], M[i + 1]) /\ StartsBefore(M[i], M[i + 1])
  <2>1. M[i] = L[i] /\ Joins(L[i], L[i + 1]) /\ StartsBefore(L[i], L[i + 1])
    BY <1>5, <1>6
  <2>2. /\ M[i + 1].src_start = L[i + 1].src_start
        /\ M[i + 1].dst_start = L[i + 1].dst_start
    <3>1. CASE i + 1 = n
      BY <1>3, <1>5, <3>1
    <3>2. CASE i + 1 # n
      <4>1. i + 1 \in 1 .. n - 1
        BY <1>1, <3>2
      <4> QED
        BY <1>5, <4>1
    <3> QED
      BY <3>1, <3>2
  <2> QED
    BY <2>1, <2>2 DEF Joins, StartsBefore
<1>11. M[1].src_start = 0 /\ M[1].dst_start = 0 /\ M[1].type # "SAME_INDEXED"
  <2>1. CASE n = 1
    BY <1>3, <1>5, <1>6, <2>1
  <2>2. CASE n # 1
    <3>1. 1 \in 1 .. n - 1
      BY <1>1, <2>2
    <3> QED
      BY <1>5, <1>6, <3>1
  <2> QED
    BY <2>1, <2>2
<1> QED
  BY <1>4, <1>5, <1>9, <1>10, <1>11 DEF Ready, n

\* What the walk has listed is ready to move back.
LEMMA WalkReady ==
  ASSUME Inv, WalkInv, BeforeBacktrack
  PROVE  Ready(working_hunks)
<1> DEFINE n == Len(working_hunks)
<1>1. n \in Nat /\ working_hunks \in Seq(Hunk)
  BY LenProperties DEF Inv, TypeOK, HunkListTypeOK
<1>2. ASSUME NEW i \in 1 .. n
      PROVE  NotInverted(working_hunks[i]) /\ Movable(working_hunks[i])
  <2>1. working_hunks[i] \in Hunk /\ WellListed(working_hunks[i])
    BY <1>1, ElementOfSeq DEF WalkInv, ListedSame
  <2> DEFINE hunk == working_hunks[i]
             len == hunk.src_end + 1 - hunk.src_start
  <2> HIDE DEF hunk
  <2>2. /\ hunk.src_start \in Nat /\ hunk.src_end \in Nat
        /\ hunk.dst_start \in Nat /\ hunk.dst_end \in Nat
    BY <2>1 DEF hunk, Hunk
  <2>3. WellListed(hunk)
    BY <2>1 DEF hunk
  <2>4. NotInverted(hunk)
    BY <2>2, <2>3 DEF WellListed, NotInverted
  <2>5. ASSUME hunk.type = "SAME_INDEXED"
        PROVE  Peek(src, hunk.src_start) = Peek(dst, hunk.dst_start)
    <3>1. SameRun(hunk.src_start, hunk.dst_start, len)
      BY <2>3, <2>5 DEF WellListed
    <3>2. 0 \in 0 .. len - 1
      BY <2>2, <2>3 DEF WellListed
    <3>3. Peek(src, hunk.src_start + 0) = Peek(dst, hunk.dst_start + 0)
      BY <3>1, <3>2 DEF SameRun
    <3> QED
      BY <2>2, <3>3
  <2>6. Movable(hunk)
    BY <2>3, <2>5 DEF Movable, WellListed
  <2> QED
    BY <2>4, <2>6 DEF hunk
<1>3. ASSUME NEW i \in 1 .. n - 1
      PROVE  /\ Joins(working_hunks[i], working_hunks[i + 1])
             /\ StartsBefore(working_hunks[i], working_hunks[i + 1])
  <2>1. i \in 1 .. n /\ i # n /\ i + 1 \in 1 .. n
    BY <1>1
  <2>2. After(i) = working_hunks[i + 1]
    BY <2>1 DEF After
  <2>3. /\ GoesOn(working_hunks[i].src_start, working_hunks[i].src_end,
                  After(i).src_start)
        /\ GoesOn(working_hunks[i].dst_start, working_hunks[i].dst_end,
                  After(i).dst_start)
        /\ WellListed(working_hunks[i])
    BY <2>1 DEF WalkInv, Chained, ListedSame
  <2>4. working_hunks[i] \in Hunk
    BY <1>1, <2>1, ElementOfSeq
  <2> QED
    BY <2>2, <2>3, <2>4 DEF GoesOn, WellListed, StartsBefore, Joins, Hunk
<1>4. n > 0 => /\ working_hunks[1].src_start = 0 /\ working_hunks[1].dst_start = 0
               /\ working_hunks[1].type # "SAME_INDEXED"
  BY <1>1 DEF WalkInv, Chained, After
<1> QED
  BY <1>2, <1>3, <1>4 DEF Ready

\* The walk lists its hunks in order.
LEMMA WalkInOrder ==
  ASSUME Inv, WalkInv, BeforeBacktrack
  PROVE  ListInOrder
BY WalkReady DEF Ready, ListInOrder, InOrder

\* A hunk made from the working hunk follows what the walk has listed.
LEMMA WorkingHunkFollows ==
  ASSUME Inv, WalkInv, BeforeBacktrack, NEW hunk,
         hunk.src_start = working_hunk.src_start,
         hunk.dst_start = working_hunk.dst_start,
         hunk.type # "SAME_INDEXED" \/ hunk.type = working_hunk.type
  PROVE  Follows(working_hunks, hunk)
<1> DEFINE n == Len(working_hunks)
<1>1. n \in Nat /\ working_hunks \in Seq(Hunk)
  BY LenProperties DEF Inv, TypeOK, HunkListTypeOK
<1>2. CASE n = 0
  BY <1>2 DEF WalkInv, Chained, After, Follows
<1>3. CASE n # 0
  <2>1. n \in 1 .. n
    BY <1>1, <1>3
  <2>2. After(n) = working_hunk
    BY DEF After
  <2>3. /\ GoesOn(working_hunks[n].src_start, working_hunks[n].src_end,
                  working_hunk.src_start)
        /\ GoesOn(working_hunks[n].dst_start, working_hunks[n].dst_end,
                  working_hunk.dst_start)
        /\ WellListed(working_hunks[n])
    BY <2>1, <2>2 DEF WalkInv, Chained, ListedSame
  <2>4. working_hunks[n] \in Hunk
    BY <1>1, <2>1, ElementOfSeq
  <2>5. Joins(working_hunks[n], hunk) /\ StartsBefore(working_hunks[n], hunk)
    BY <2>3, <2>4 DEF GoesOn, WellListed, StartsBefore, Joins, Hunk
  <2> QED
    BY <1>3, <2>5 DEF Follows
<1> QED
  BY <1>2, <1>3

\* A list that is ready and reaches the last bytes is what backtracking starts from.
LEMMA ReadyStarts ==
  ASSUME UNCHANGED <<src, dst>>, list' = 1, pc' = "backtrack",
         working_hunks' \in Seq(Hunk), Ready(working_hunks'), Len(working_hunks') > 0,
         working_hunks'[Len(working_hunks')].src_end >= src.size - 1,
         working_hunks'[Len(working_hunks')].dst_end >= dst.size - 1
  PROVE  BackInv'
<1>1. Len(working_hunks') \in Nat
  BY LenProperties
<1>2. Covers'
  BY DEF Covers, Ready, NotInverted, Joins
<1>3. ListInOrder'
  BY DEF ListInOrder, InOrder, Ready, StartsBefore
<1>4. Passed'
  BY <1>1 DEF Passed, Ready, Movable, Peek
<1> QED
  BY <1>2, <1>3, <1>4 DEF BackInv

\* The walk that ends in SYNC lists the working hunk and what is left.
LEMMA EofSyncStarts ==
  ASSUME Inv, WalkInv, EofSync
  PROVE  BackInv'
<1>1. /\ pc = "loop" /\ BeforeBacktrack
      /\ srcptr >= src.size \/ dstptr >= dst.size
      /\ list' = 1 /\ pc' = "backtrack" /\ UNCHANGED <<src, dst>>
      /\ mode = "SYNC"
  BY DEF EofSync, AtEOF, ToBacktrack, BeforeBacktrack
<1>2. /\ srcptr \in Nat /\ dstptr \in Nat
      /\ src.size \in Nat /\ dst.size \in Nat
      /\ working_hunk.src_start \in Nat /\ working_hunk.dst_start \in Nat
      /\ working_hunk.type \in HunkType
      /\ working_hunks \in Seq(Hunk)
  BY <1>1, TurnTypes, FileBytes
<1>3. /\ working_hunk.src_start <= srcptr /\ working_hunk.dst_start <= dstptr
      /\ srcptr - working_hunk.src_start = dstptr - working_hunk.dst_start
      /\ SameRun(working_hunk.src_start, working_hunk.dst_start,
                 srcptr - working_hunk.src_start)
      /\ working_hunk.type = "SAME_INDEXED" => working_hunk.src_start < src.size
  BY <1>1, <1>2 DEF WalkInv, OnDiagonal, Opened, SrcAhead, DstAhead
<1> DEFINE same == ClampedHunk(working_hunk.type,
                               working_hunk.src_start, srcptr - 1,
                               working_hunk.dst_start, dstptr - 1)
           rest == ClampedHunk("DIFF", srcptr, src.size, dstptr, dst.size)
           some == Append(working_hunks, same)
<1>4. same \in Hunk /\ rest \in Hunk
  BY <1>2, ClampedHunkType, SMTT(30) DEF HunkType
<1>5. /\ same.type = working_hunk.type
      /\ same.src_start = working_hunk.src_start
      /\ same.dst_start = working_hunk.dst_start
      /\ same.src_end = IF srcptr - 1 < working_hunk.src_start
                        THEN working_hunk.src_start ELSE srcptr - 1
      /\ same.dst_end = IF dstptr - 1 < working_hunk.dst_start
                        THEN working_hunk.dst_start ELSE dstptr - 1
  BY DEF ClampedHunk
<1>6. /\ rest.type = "DIFF"
      /\ rest.src_start = srcptr /\ rest.dst_start = dstptr
      /\ rest.src_end = IF src.size < srcptr THEN srcptr ELSE src.size
      /\ rest.dst_end = IF dst.size < dstptr THEN dstptr ELSE dst.size
  BY DEF ClampedHunk
<1>7. \/ working_hunks' = working_hunks \o <<same, rest>>
      \/ srcptr = src.size /\ dstptr = dst.size /\ working_hunks' = some
  BY DEF EofSync
<1> HIDE DEF same, rest
<1>8. NotInverted(same) /\ NotInverted(rest)
  BY <1>2, <1>3, <1>5, <1>6 DEF NotInverted
<1>9. Movable(same)
  <2> SUFFICES ASSUME same.type = "SAME_INDEXED" PROVE Movable(same)
    BY DEF Movable
  <2>1. same.src_start <= same.src_end /\ same.dst_start <= same.dst_end
    BY <1>2, <1>5
  <2>2. CASE srcptr = working_hunk.src_start
    <3>1. same.dst_start >= dst.size
      BY <1>1, <1>2, <1>3, <1>5, <2>2
    <3> QED
      BY <2>1, <3>1 DEF Movable
  <2>3. CASE srcptr # working_hunk.src_start
    <3>1. 0 \in 0 .. srcptr - working_hunk.src_start - 1
      BY <1>2, <1>3, <2>3
    <3>2. Peek(src, working_hunk.src_start + 0) = Peek(dst, working_hunk.dst_start + 0)
      BY <1>3, <3>1 DEF SameRun
    <3>3. Peek(src, same.src_start) = Peek(dst, same.dst_start)
      BY <1>2, <1>5, <3>2
    <3> QED
      BY <2>1, <3>3 DEF Movable
  <2> QED
    BY <2>2, <2>3
<1>10. Ready(working_hunks) /\ Follows(working_hunks, same)
  BY <1>1, <1>5, WalkReady, WorkingHunkFollows
<1>11. /\ some \in Seq(Hunk) /\ Ready(some)
       /\ Len(some) = Len(working_hunks) + 1
       /\ some[Len(working_hunks) + 1] = same
  BY <1>2, <1>4, <1>8, <1>9, <1>10, ReadyAppended
<1>12. Len(working_hunks) \in Nat
  BY <1>2, LenProperties
<1>13. CASE srcptr = src.size /\ dstptr = dst.size /\ working_hunks' = some
  <2>1. same.src_end >= src.size - 1 /\ same.dst_end >= dst.size - 1
    BY <1>2, <1>5, <1>13
  <2> HIDE DEF some
  <2>2. /\ Len(working_hunks') > 0
        /\ working_hunks'[Len(working_hunks')] = same
    BY <1>11, <1>12, <1>13
  <2> QED
    BY <1>1, <1>11, <1>13, <2>1, <2>2, ReadyStarts
<1>14. CASE working_hunks' = working_hunks \o <<same, rest>>
  <2> DEFINE all == Append(some, rest)
  <2>1. working_hunks' = all
    <3>1. <<same, rest>> = Append(<<same>>, rest)
      OBVIOUS
    <3>2. <<same>> \in Seq(Hunk) /\ <<rest>> \in Seq(Hunk)
      BY <1>4
    <3>3. Append(<<same>>, rest) = <<same>> \o <<rest>>
      BY <1>4, <3>2, AppendIsConcat
    <3>4. working_hunks \o (<<same>> \o <<rest>>) = (working_hunks \o <<same>>) \o <<rest>>
      BY <1>2, <3>2, ConcatAssociative
    <3>5. working_hunks \o <<same>> = some
      BY <1>2, <1>4, AppendIsConcat
    <3>6. some \o <<rest>> = all
      BY <1>4, <1>11, AppendIsConcat
    <3> QED
      BY <1>14, <3>1, <3>3, <3>4, <3>5, <3>6
  <2> HIDE DEF some
  <2>2. Follows(some, rest)
    <3>1. Joins(same, rest) /\ StartsBefore(same, rest)
      BY <1>2, <1>3, <1>5, <1>6 DEF Joins, StartsBefore
    <3> QED
      BY <1>11, <1>12, <3>1 DEF Follows
  <2>3. Movable(rest)
    BY <1>6 DEF Movable
  <2>4. /\ all \in Seq(Hunk) /\ Ready(all)
        /\ Len(all) = Len(some) + 1 /\ all[Len(some) + 1] = rest
    BY <1>4, <1>8, <1>11, <2>2, <2>3, ReadyAppended
  <2> HIDE DEF all
  <2>5. /\ Len(working_hunks') > 0
        /\ working_hunks'[Len(working_hunks')] = rest
    BY <1>11, <1>12, <2>1, <2>4
  <2>6. rest.src_end >= src.size - 1 /\ rest.dst_end >= dst.size - 1
    BY <1>2, <1>6
  <2> QED
    BY <1>1, <2>1, <2>4, <2>5, <2>6, ReadyStarts
<1> QED
  BY <1>7, <1>13, <1>14

\* The walk that ends outside SYNC lists one more hunk to the ends of the
\* files, or has the newest one reach them.
LEMMA EofUnsyncedStarts ==
  ASSUME Inv, WalkInv, EofUnsynced
  PROVE  BackInv'
<1>1. /\ pc = "loop" /\ BeforeBacktrack
      /\ list' = 1 /\ pc' = "backtrack" /\ UNCHANGED <<src, dst>>
      /\ mode # "SYNC"
  BY DEF EofUnsynced, AtEOF, ToBacktrack, BeforeBacktrack
<1>2. /\ src.size \in Nat /\ dst.size \in Nat
      /\ working_hunk.src_start \in Nat /\ working_hunk.dst_start \in Nat
      /\ working_hunks \in Seq(Hunk) /\ Len(working_hunks) \in Nat
      /\ Ready(working_hunks)
  BY <1>1, TurnTypes, FileBytes, WalkReady
<1>3. working_hunk.src_start < src.size /\ working_hunk.dst_start < dst.size
  BY <1>1 DEF WalkInv, Opened
<1>4. CASE last_hunk = 0
  <2> DEFINE hunk == ClampedHunk("DIFF", working_hunk.src_start, src.size,
                                 working_hunk.dst_start, dst.size)
  <2>1. hunk \in Hunk
    BY <1>2, ClampedHunkType DEF HunkType
  <2>2. /\ hunk.type = "DIFF"
        /\ hunk.src_start = working_hunk.src_start
        /\ hunk.dst_start = working_hunk.dst_start
        /\ hunk.src_end = src.size /\ hunk.dst_end = dst.size
    BY <1>2, <1>3 DEF ClampedHunk
  <2>3. working_hunks' = Append(working_hunks, hunk)
    BY <1>4 DEF EofUnsynced, Inserted, insert_hunk
  <2> HIDE DEF hunk
  <2>4. NotInverted(hunk) /\ Movable(hunk)
    BY <1>2, <1>3, <2>2 DEF NotInverted, Movable
  <2>5. Follows(working_hunks, hunk)
    BY <1>1, <2>2, WorkingHunkFollows
  <2>6. /\ working_hunks' \in Seq(Hunk) /\ Ready(working_hunks')
        /\ Len(working_hunks') = Len(working_hunks) + 1
        /\ working_hunks'[Len(working_hunks) + 1] = hunk
    BY <1>2, <2>1, <2>3, <2>4, <2>5, ReadyAppended
  <2>7. /\ Len(working_hunks') > 0
        /\ working_hunks'[Len(working_hunks')].src_end >= src.size - 1
        /\ working_hunks'[Len(working_hunks')].dst_end >= dst.size - 1
    BY <1>2, <2>2, <2>6
  <2> QED
    BY <1>1, <2>6, <2>7, ReadyStarts
<1>5. CASE last_hunk # 0
  <2> DEFINE n == Len(working_hunks)
  <2>1. last_hunk = n /\ n > 0 /\ n \in 1 .. n
    BY <1>1, <1>2, <1>5 DEF Inv, LastHunkInv, NotHeld, Held
  <2>2. working_hunks[n] \in Hunk /\ WellListed(working_hunks[n])
    BY <1>1, <1>2, <2>1, ElementOfSeq DEF WalkInv, ListedSame
  <2>3. /\ working_hunks[n].src_start <= src.size
        /\ working_hunks[n].dst_start <= dst.size
    <3>1. After(n) = working_hunk
      BY DEF After
    <3>2. /\ GoesOn(working_hunks[n].src_start, working_hunks[n].src_end,
                    working_hunk.src_start)
          /\ GoesOn(working_hunks[n].dst_start, working_hunks[n].dst_end,
                    working_hunk.dst_start)
      BY <1>1, <2>1, <3>1 DEF WalkInv, Chained
    <3> QED
      BY <1>2, <1>3, <2>2, <3>2 DEF GoesOn, WellListed, Hunk
  <2>4. working_hunks' = [working_hunks EXCEPT ![n].src_end = src.size,
                                               ![n].dst_end = dst.size]
    BY <1>5, <2>1 DEF EofUnsynced
  <2>5. Ready(working_hunks')
    BY <1>2, <2>1, <2>3, <2>4, ReadyEdited
  <2> DEFINE edited == [working_hunks[n] EXCEPT !.src_end = src.size,
                                                !.dst_end = dst.size]
  <2>6. /\ edited \in Hunk
        /\ edited.src_end = src.size /\ edited.dst_end = dst.size
    BY <1>2, <2>2 DEF Hunk
  <2>7. working_hunks' = [working_hunks EXCEPT ![n] = edited]
    BY <2>1, <2>2, <2>4 DEF Hunk
  <2> HIDE DEF edited
  <2>8. working_hunks' \in Seq(Hunk) /\ Len(working_hunks') = n
    BY <1>2, <2>1, <2>6, <2>7, ExceptSeq
  <2>9. working_hunks'[n] = edited
    BY <1>2, <2>1, <2>7, LenProperties
  <2>10. /\ Len(working_hunks') > 0
         /\ working_hunks'[Len(working_hunks')].src_end >= src.size - 1
         /\ working_hunks'[Len(working_hunks')].dst_end >= dst.size - 1
    BY <1>2, <2>1, <2>6, <2>8, <2>9
  <2> QED
    BY <1>1, <2>5, <2>8, <2>10, ReadyStarts
<1> QED
  BY <1>4, <1>5

\* A hunk that moves back: what the list holds then, in terms of the hunk it
\* becomes and of what its nearest predecessor is cut to.
LEMMA BacktrackElements ==
  ASSUME Inv, BackInv, BacktrackHunk
  PROVE  LET n == Len(working_hunks)
             m == Len(working_hunks')
             old == working_hunks[list]
         IN  /\ working_hunks \in Seq(Hunk) /\ n \in Nat /\ m \in Nat
             /\ list \in 2 .. n /\ old \in Hunk /\ old.type = "SAME_INDEXED"
             /\ old.src_start <= old.src_end /\ old.dst_start <= old.dst_end
             /\ \E back \in Nat, kept \in 1 .. list - 1, hunk \in Hunk, cut \in Hunk :
                  /\ list' = kept + 2
                  /\ hunk.type = "SAME_BACKTRACKED"
                  /\ hunk.src_start = old.src_start + 1 - back
                  /\ hunk.dst_start = old.dst_start + 1 - back
                  /\ hunk.src_end = old.src_end /\ hunk.dst_end = old.dst_end
                  /\ back = 0 => old.dst_start >= dst.size
                  /\ StartsBefore(working_hunks[kept], hunk)
                  /\ cut.type = working_hunks[kept].type
                  /\ cut.src_start = working_hunks[kept].src_start
                  /\ cut.dst_start = working_hunks[kept].dst_start
                  /\ cut.src_end = IF hunk.src_start = 0 THEN 0 ELSE hunk.src_start - 1
                  /\ cut.dst_end = IF hunk.dst_start = 0 THEN 0 ELSE hunk.dst_start - 1
                  /\ kept + 1 <= m
                  /\ \A i \in 1 .. kept - 1 : working_hunks'[i] = working_hunks[i]
                  /\ working_hunks'[kept] = cut
                  /\ working_hunks'[kept + 1] = hunk
                  /\ m = kept + 1 + n - list
                  /\ \A i \in kept + 2 .. m :
                       /\ i + list - kept - 1 \in list + 1 .. n
                       /\ i + list - kept - 1 \in 1 .. n
                       /\ working_hunks'[i] = working_hunks[i + list - kept - 1]
<1> DEFINE n == Len(working_hunks)
           m == Len(working_hunks')
           old == working_hunks[list]
<1>1. /\ pc = "backtrack" /\ pc' = "backtrack" /\ UNCHANGED <<src, dst>>
      /\ old.type = "SAME_INDEXED"
      /\ ListInOrder /\ Covers /\ Passed
  BY DEF BacktrackHunk, AtIndexed, BackInv, BeforeBacktrack
<1>2. /\ working_hunks \in Seq(Hunk) /\ n \in Nat
      /\ list \in 2 .. n
      /\ src.size \in Nat /\ dst.size \in Nat
  <2>1. working_hunks \in Seq(Hunk) /\ n \in Nat /\ list \in Nat /\ list > 0 /\ list <= n
    BY <1>1, LenProperties DEF Inv, HunkListInv, HunkListTypeOK, BacktrackHunk, AtIndexed
  <2>2. list # 1
    BY <1>1 DEF Passed
  <2>3. src.size \in Nat /\ dst.size \in Nat
    BY FileBytes DEF Inv, TypeOK, HunkListTypeOK
  <2> QED
    BY <2>1, <2>2, <2>3
<1>3. ASSUME NEW i \in 1 .. n PROVE working_hunks[i] \in Hunk
  BY <1>2, ElementOfSeq
<1>4. PICK back \in 0 .. MaxSize + 1, kept \in 0 .. list - 1 :
        /\ MatchesBack(old, back)
        /\ IsKept(kept, MovedBack(old, back))
        /\ working_hunks' = AfterBacktrack(kept, MovedBack(old, back))
        /\ list' = kept + 2
  BY DEF BacktrackHunk
<1>5. back \in Nat /\ old \in Hunk
  BY <1>2, <1>3, FileAssumption
<1> DEFINE hunk == MovedBack(old, back)
           cut == TrimmedTo(working_hunks[kept], hunk)
<1>6. hunk \in Hunk
  BY <1>4, <1>5, MovedBackType
<1>7. /\ hunk.type = "SAME_BACKTRACKED"
      /\ hunk.src_start = old.src_start + 1 - back
      /\ hunk.dst_start = old.dst_start + 1 - back
      /\ hunk.src_end = old.src_end /\ hunk.dst_end = old.dst_end
  BY <1>5 DEF MovedBack, Hunk
<1>8. /\ old.src_start <= old.src_end /\ old.dst_start <= old.dst_end
      /\ back = 0 => old.dst_start >= dst.size
  <2>1. Movable(old)
    BY <1>1, <1>2 DEF Passed
  <2>2. ASSUME back = 0 PROVE Peek(src, old.src_start) # Peek(dst, old.dst_start)
    <3>1. 0 <= old.src_start /\ 0 <= old.dst_start
      BY <1>5 DEF Hunk
    <3>2. Peek(src, old.src_start - 0) # Peek(dst, old.dst_start - 0)
      BY <1>4, <2>2, <3>1 DEF MatchesBack
    <3> QED
      BY <1>5, <3>2 DEF Hunk
  <2> QED
    BY <1>1, <2>1, <2>2 DEF Movable
<1> HIDE DEF old, hunk
<1>9. kept \in 1 .. list - 1 /\ StartsBefore(working_hunks[kept], hunk)
  <2>1. StartsBefore(working_hunks[1], hunk)
    BY <1>1, <1>6 DEF Covers, StartsBefore, Hunk
  <2>2. 1 \in 1 .. list - 1
    BY <1>2
  <2>3. kept # 0
    BY <1>4, <2>1, <2>2 DEF IsKept, hunk
  <2> QED
    BY <1>2, <1>4, <2>3 DEF IsKept, hunk
<1>10. working_hunks[kept] \in Hunk
  BY <1>2, <1>3, <1>9
<1>11. /\ cut \in Hunk
       /\ cut.type = working_hunks[kept].type
       /\ cut.src_start = working_hunks[kept].src_start
       /\ cut.dst_start = working_hunks[kept].dst_start
       /\ cut.src_end = IF hunk.src_start = 0 THEN 0 ELSE hunk.src_start - 1
       /\ cut.dst_end = IF hunk.dst_start = 0 THEN 0 ELSE hunk.dst_start - 1
  BY <1>6, <1>10, TrimmedType DEF TrimmedTo, Hunk
<1>12. /\ m = kept + 1 + n - list
       /\ \A i \in 1 .. kept - 1 : working_hunks'[i] = working_hunks[i]
       /\ working_hunks'[kept] = cut
       /\ working_hunks'[kept + 1] = hunk
       /\ \A i \in kept + 2 .. kept + 1 + n - list :
            working_hunks'[i] = working_hunks[i + list - kept - 1]
  <2>1. list \in 1 .. n
    BY <1>2
  <2>2. working_hunks' = AfterBacktrack(kept, hunk)
    BY <1>4 DEF hunk
  <2> QED
    BY <1>2, <1>6, <1>9, <2>1, <2>2, AfterBacktrackElements
<1> HIDE DEF m, n, cut
<1>13. /\ kept \in Nat /\ list \in Nat /\ m \in Nat
       /\ kept >= 1 /\ list > kept /\ list <= n /\ kept + 1 <= m
       /\ list' = kept + 2
  BY <1>2, <1>4, <1>9, <1>12
<1>14. ASSUME NEW i \in kept + 2 .. m
       PROVE  /\ i + list - kept - 1 \in list + 1 .. n
              /\ i + list - kept - 1 \in 1 .. n
              /\ working_hunks'[i] = working_hunks[i + list - kept - 1]
  <2>1. i \in kept + 2 .. kept + 1 + n - list
    BY <1>12
  <2>2. working_hunks'[i] = working_hunks[i + list - kept - 1]
    BY <1>12, <2>1
  <2>3. i \in Int /\ kept + 2 <= i /\ i <= kept + 1 + n - list
    BY <1>2, <1>13, <2>1
  <2>4. i + list - kept - 1 \in list + 1 .. n
    BY <1>2, <1>13, <2>3
  <2>5. i + list - kept - 1 \in 1 .. n
    BY <1>2, <1>13, <2>4
  <2> QED
    BY <2>2, <2>4, <2>5
<1> QED
  BY <1>1, <1>2, <1>4, <1>5, <1>6, <1>7, <1>8, <1>9, <1>11, <1>12, <1>13, <1>14 DEF n, m, old

\* A hunk that moves back keeps the list in order and without a gap: some
\* predecessor is kept, and ends where the hunk now starts.
LEMMA BacktrackKeepsBack ==
  ASSUME Inv, BackInv, BacktrackHunk
  PROVE  BackInv'
<1> DEFINE n == Len(working_hunks)
           m == Len(working_hunks')
           old == working_hunks[list]
<1>1. /\ pc = "backtrack" /\ pc' = "backtrack" /\ UNCHANGED <<src, dst>>
      /\ ListInOrder /\ Covers /\ Passed
  BY DEF BacktrackHunk, AtIndexed, BackInv, BeforeBacktrack
<1>2. /\ working_hunks \in Seq(Hunk) /\ n \in Nat /\ m \in Nat
      /\ list \in 2 .. n
      /\ src.size \in Nat /\ dst.size \in Nat
  BY BacktrackElements, FileBytes DEF Inv, TypeOK, HunkListTypeOK
<1>3. ASSUME NEW i \in 1 .. n PROVE working_hunks[i] \in Hunk
  BY <1>2, ElementOfSeq
<1>4. PICK back \in Nat, kept \in 1 .. list - 1, hunk \in Hunk, cut \in Hunk :
        /\ list' = kept + 2
        /\ hunk.type = "SAME_BACKTRACKED"
        /\ hunk.src_start = old.src_start + 1 - back
        /\ hunk.dst_start = old.dst_start + 1 - back
        /\ hunk.src_end = old.src_end /\ hunk.dst_end = old.dst_end
        /\ back = 0 => old.dst_start >= dst.size
        /\ StartsBefore(working_hunks[kept], hunk)
        /\ cut.type = working_hunks[kept].type
        /\ cut.src_start = working_hunks[kept].src_start
        /\ cut.dst_start = working_hunks[kept].dst_start
        /\ cut.src_end = IF hunk.src_start = 0 THEN 0 ELSE hunk.src_start - 1
        /\ cut.dst_end = IF hunk.dst_start = 0 THEN 0 ELSE hunk.dst_start - 1
        /\ kept + 1 <= m
        /\ \A i \in 1 .. kept - 1 : working_hunks'[i] = working_hunks[i]
        /\ working_hunks'[kept] = cut
        /\ working_hunks'[kept + 1] = hunk
        /\ m = kept + 1 + n - list
        /\ \A i \in kept + 2 .. m :
             /\ i + list - kept - 1 \in list + 1 .. n
             /\ i + list - kept - 1 \in 1 .. n
             /\ working_hunks'[i] = working_hunks[i + list - kept - 1]
  BY BacktrackElements
<1> HIDE DEF m, n, old
<1>5. /\ kept \in Nat /\ list \in Nat /\ kept >= 1 /\ list > kept /\ list <= n
      /\ m = kept + 1 + n - list /\ kept + 1 <= m /\ list' = kept + 2
      /\ n \in Nat /\ m \in Nat
  BY <1>2, <1>4
<1>6. /\ back \in Nat /\ old \in Hunk /\ old.type = "SAME_INDEXED"
      /\ old.src_start <= old.src_end /\ old.dst_start <= old.dst_end
      /\ hunk \in Hunk /\ hunk.type = "SAME_BACKTRACKED"
      /\ hunk.src_start = old.src_start + 1 - back
      /\ hunk.dst_start = old.dst_start + 1 - back
      /\ hunk.src_end = old.src_end /\ hunk.dst_end = old.dst_end
      /\ back = 0 => old.dst_start >= dst.size
      /\ StartsBefore(working_hunks[kept], hunk)
  BY <1>4, BacktrackElements DEF old
<1>7. /\ cut \in Hunk /\ working_hunks[kept] \in Hunk
      /\ cut.type = working_hunks[kept].type
      /\ cut.src_start = working_hunks[kept].src_start
      /\ cut.dst_start = working_hunks[kept].dst_start
      /\ cut.src_end = IF hunk.src_start = 0 THEN 0 ELSE hunk.src_start - 1
      /\ cut.dst_end = IF hunk.dst_start = 0 THEN 0 ELSE hunk.dst_start - 1
  BY <1>2, <1>3, <1>4
<1>8. /\ m = kept + 1 + n - list
      /\ \A i \in 1 .. kept - 1 : working_hunks'[i] = working_hunks[i]
      /\ working_hunks'[kept] = cut
      /\ working_hunks'[kept + 1] = hunk
  BY <1>4
<1>9. ASSUME NEW i \in kept + 2 .. m
      PROVE  /\ i + list - kept - 1 \in list + 1 .. n
             /\ i + list - kept - 1 \in 1 .. n
             /\ working_hunks'[i] = working_hunks[i + list - kept - 1]
  BY <1>4
<1>10. /\ NotInverted(cut) /\ NotInverted(hunk)
       /\ Joins(cut, hunk) /\ StartsBefore(cut, hunk)
  <2>1. /\ working_hunks[kept].src_start <= hunk.src_start
        /\ working_hunks[kept].dst_start <= hunk.dst_start
    BY <1>6 DEF StartsBefore
  <2>2. NotInverted(cut)
    BY <1>6, <1>7, <2>1 DEF NotInverted, Hunk
  <2>3. NotInverted(hunk)
    BY <1>6 DEF NotInverted, Hunk
  <2>4. Joins(cut, hunk)
    BY <1>6, <1>7 DEF Joins, Hunk
  <2>5. StartsBefore(cut, hunk)
    BY <1>7, <2>1 DEF StartsBefore
  <2> QED
    BY <2>2, <2>3, <2>4, <2>5
<1>11. ASSUME NEW i \in 1 .. n, i # list
       PROVE  NotInverted(working_hunks[i]) /\ Movable(working_hunks[i])
  BY <1>1 DEF Covers, Passed, n
<1>12. ASSUME NEW i \in 1 .. n - 1
       PROVE  /\ Joins(working_hunks[i], working_hunks[i + 1])
              /\ InOrder(working_hunks[i], working_hunks[i + 1])
  BY <1>1 DEF Covers, ListInOrder, n
<1>13. ASSUME NEW i \in 1 .. m
       PROVE  /\ NotInverted(working_hunks'[i]) /\ Movable(working_hunks'[i])
              /\ i < list' => working_hunks'[i].type # "SAME_INDEXED"
  <2>1. ASSUME NEW k \in 1 .. kept PROVE working_hunks[k].type # "SAME_INDEXED"
    <3>1. k \in 1 .. n /\ k < list
      BY <1>2, <1>5
    <3> QED
      BY <1>1, <3>1 DEF Passed, n
  <2>2. CASE i \in 1 .. kept - 1
    <3>1. i \in 1 .. n /\ i # list /\ i \in 1 .. kept
      BY <1>2, <1>5, <2>2
    <3>2. working_hunks'[i] = working_hunks[i]
      BY <1>8, <2>2
    <3> QED
      BY <1>11, <2>1, <3>1, <3>2
  <2>3. CASE i = kept
    <3>1. kept \in 1 .. kept
      BY <1>5
    <3>2. cut.type # "SAME_INDEXED"
      BY <1>7, <2>1, <3>1
    <3> QED
      BY <1>8, <1>10, <2>3, <3>2 DEF Movable
  <2>4. CASE i = kept + 1
    BY <1>6, <1>8, <1>10, <2>4 DEF Movable
  <2>5. CASE i \in kept + 2 .. m
    <3>1. ~(i < list')
      BY <1>5, <2>5
    <3>2. i + list - kept - 1 # list
      BY <1>5, <2>5
    <3> QED
      BY <1>9, <1>11, <2>5, <3>1, <3>2
  <2>6. i \in 1 .. kept - 1 \/ i = kept \/ i = kept + 1 \/ i \in kept + 2 .. m
    BY <1>5
  <2> QED
    BY <2>2, <2>3, <2>4, <2>5, <2>6
<1>14. ASSUME NEW i \in 1 .. m - 1
       PROVE  /\ Joins(working_hunks'[i], working_hunks'[i + 1])
              /\ InOrder(working_hunks'[i], working_hunks'[i + 1])
  <2>1. CASE i + 1 \in 1 .. kept
    <3>1. i \in 1 .. n - 1 /\ i \in 1 .. kept - 1
      BY <1>5, <2>1
    <3>2. working_hunks'[i] = working_hunks[i]
      BY <1>8, <3>1
    <3>3. /\ working_hunks'[i + 1].src_start = working_hunks[i + 1].src_start
          /\ working_hunks'[i + 1].dst_start = working_hunks[i + 1].dst_start
      <4>1. CASE i + 1 = kept
        BY <1>7, <1>8, <4>1
      <4>2. CASE i + 1 # kept
        <5>1. i + 1 \in 1 .. kept - 1
          BY <1>5, <2>1, <4>2
        <5> QED
          BY <1>8, <5>1
      <4> QED
        BY <4>1, <4>2
    <3>4. /\ Joins(working_hunks[i], working_hunks[i + 1])
          /\ InOrder(working_hunks[i], working_hunks[i + 1])
      BY <1>12, <3>1
    <3> QED
      BY <3>2, <3>3, <3>4 DEF Joins, InOrder, StartsBefore
  <2>2. CASE i = kept
    BY <1>8, <1>10, <2>2 DEF InOrder
  <2>3. CASE i = kept + 1
    <3>1. i + 1 \in kept + 2 .. m /\ (i + 1) + list - kept - 1 = list + 1
      BY <1>5, <2>3
    <3>2. working_hunks'[i + 1] = working_hunks[list + 1]
      BY <1>9, <3>1
    <3>3. list \in 1 .. n - 1
      BY <1>2, <1>9, <3>1
    <3>4. Joins(old, working_hunks[list + 1]) /\ InOrder(old, working_hunks[list + 1])
      BY <1>12, <3>3 DEF old
    <3>5. Joins(hunk, working_hunks[list + 1])
      BY <1>6, <3>4 DEF Joins
    <3>6. StartsBefore(old, working_hunks[list + 1])
      BY <1>6, <3>4 DEF InOrder
    <3>7. InOrder(hunk, working_hunks[list + 1])
      <4>1. CASE back = 0
        <5>1. old.dst_start \in Nat /\ dst.size \in Nat
          BY <1>2, <1>6 DEF Hunk
        <5>2. hunk.dst_start = old.dst_start + 1 /\ old.dst_start >= dst.size
          BY <1>6, <4>1, <5>1
        <5>3. hunk.dst_start > dst.size
          BY <5>1, <5>2
        <5> QED
          BY <1>6, <5>3 DEF InOrder
      <4>2. CASE back # 0
        <5>1. working_hunks[list + 1] \in Hunk
          BY <1>2, <1>3, <3>3
        <5> QED
          BY <1>6, <3>6, <4>2, <5>1 DEF InOrder, StartsBefore, Hunk
      <4> QED
        BY <4>1, <4>2
    <3> QED
      BY <1>8, <2>3, <3>2, <3>5, <3>7
  <2>4. CASE i \in kept + 2 .. m
    <3> DEFINE j == i + list - kept - 1
    <3>1. i + 1 \in kept + 2 .. m /\ (i + 1) + list - kept - 1 = j + 1
      BY <1>5, <2>4
    <3>2. working_hunks'[i] = working_hunks[j] /\ working_hunks'[i + 1] = working_hunks[j + 1]
      BY <1>9, <2>4, <3>1
    <3>3. j \in 1 .. n /\ j + 1 \in 1 .. n
      BY <1>9, <2>4, <3>1
    <3>4. j \in 1 .. n - 1
      BY <1>2, <3>3
    <3> HIDE DEF j
    <3> QED
      BY <1>12, <3>2, <3>4
  <2>5. i + 1 \in 1 .. kept \/ i = kept \/ i = kept + 1 \/ i \in kept + 2 .. m
    BY <1>5
  <2> QED
    BY <2>1, <2>2, <2>3, <2>4, <2>5
<1>15. /\ working_hunks'[1].src_start = 0 /\ working_hunks'[1].dst_start = 0
       /\ working_hunks'[1].type # "SAME_INDEXED"
  <2>1. /\ working_hunks[1].src_start = 0 /\ working_hunks[1].dst_start = 0
        /\ working_hunks[1].type # "SAME_INDEXED"
    BY <1>1 DEF Covers, Passed
  <2>2. CASE kept = 1
    BY <1>7, <1>8, <2>1, <2>2
  <2>3. CASE kept # 1
    <3>1. 1 \in 1 .. kept - 1
      BY <1>5, <2>3
    <3> QED
      BY <1>8, <2>1, <3>1
  <2> QED
    BY <2>2, <2>3
<1>16. /\ working_hunks'[m].src_end >= src.size - 1
       /\ working_hunks'[m].dst_end >= dst.size - 1
  <2>1. /\ working_hunks[n].src_end >= src.size - 1
        /\ working_hunks[n].dst_end >= dst.size - 1
    BY <1>1 DEF Covers, n
  <2>2. CASE list = n
    <3>1. m = kept + 1
      BY <1>2, <1>8, <1>5, <2>2
    <3> QED
      BY <1>6, <1>8, <2>1, <2>2, <3>1 DEF old
  <2>3. CASE list # n
    <3>1. m \in kept + 2 .. m /\ m + list - kept - 1 = n
      BY <1>2, <1>8, <1>5, <2>3
    <3>2. working_hunks'[m] = working_hunks[n]
      BY <1>9, <3>1
    <3> QED
      BY <2>1, <3>2
  <2> QED
    BY <2>2, <2>3
<1>17. Covers'
  BY <1>1, <1>5, <1>13, <1>14, <1>15, <1>16 DEF Covers, NotInverted, Joins, m
<1>18. ListInOrder'
  BY <1>1, <1>14 DEF ListInOrder, InOrder, StartsBefore, m
<1>19. Passed'
  BY <1>1, <1>13, <1>15 DEF Passed, Movable, Peek, m
<1> QED
  BY <1>1, <1>17, <1>18, <1>19 DEF BackInv

\* A hunk that is extended in the tree keeps its start and reaches no less far.
LEMMA CoalesceElements ==
  ASSUME Inv, BackInv, TreeCoalesce
  PROVE  LET n == Len(working_hunks)
             hunk == working_hunks[list]
             other == working_hunks[otherhunk]
         IN  /\ n \in Nat /\ list \in 1 .. n /\ otherhunk \in 1 .. n
             /\ src.size \in Nat /\ dst.size \in Nat
             /\ Len(working_hunks') = n
             /\ hunk.type = other.type /\ hunk.src_start = other.src_end + 1
             /\ \A i \in 1 .. n :
                  /\ working_hunks'[i].type = working_hunks[i].type
                  /\ working_hunks'[i].src_start = working_hunks[i].src_start
                  /\ working_hunks'[i].dst_start = working_hunks[i].dst_start
                  /\ working_hunks[i].src_end <= working_hunks'[i].src_end
                  /\ working_hunks[i].dst_end <= working_hunks'[i].dst_end
                  /\ working_hunks[i] \in Hunk /\ working_hunks'[i] \in Hunk
                  /\ i # otherhunk => working_hunks'[i] = working_hunks[i]
             /\ working_hunks'[otherhunk].src_end = hunk.src_end
<1> DEFINE n == Len(working_hunks)
           hunk == working_hunks[list]
           other == working_hunks[otherhunk]
           extended == [other EXCEPT !.src_end = hunk.src_end, !.dst_end = hunk.dst_end]
<1>1. /\ pc = "tree" /\ pc' = "tree" /\ UNCHANGED <<src, dst>>
      /\ ListInOrder /\ Covers
  BY DEF TreeCoalesce, AtTree, BackInv, BeforeBacktrack
<1>2. /\ working_hunks \in Seq(Hunk) /\ n \in Nat
      /\ list \in 1 .. n /\ otherhunk \in 1 .. n
      /\ src.size \in Nat /\ dst.size \in Nat
  <2>1. /\ working_hunks \in Seq(Hunk) /\ src \in Files /\ dst \in Files
        /\ list \in Nat /\ list > 0 /\ list <= n /\ otherhunk \in 0 .. n /\ otherhunk # 0
    BY <1>1 DEF Inv, HunkListInv, HunkListTypeOK, TreeCoalesce, AtTree, Coalesces
  <2>2. n \in Nat
    BY <2>1, LenProperties
  <2>3. list \in 1 .. n /\ otherhunk \in 1 .. n
    BY <2>1, <2>2
  <2>4. src.size \in Nat /\ dst.size \in Nat
    BY <2>1, FileBytes
  <2> QED
    BY <2>1, <2>2, <2>3, <2>4
<1>3. ASSUME NEW i \in 1 .. n PROVE working_hunks[i] \in Hunk
  BY <1>2, ElementOfSeq
<1>4. hunk \in Hunk /\ other \in Hunk
  BY <1>2, <1>3
<1>5. /\ extended \in Hunk /\ extended.type = other.type
      /\ extended.src_start = other.src_start /\ extended.dst_start = other.dst_start
      /\ extended.src_end = hunk.src_end /\ extended.dst_end = hunk.dst_end
  BY <1>4 DEF Hunk
<1>6. working_hunks' = [working_hunks EXCEPT ![otherhunk] = extended]
  BY <1>2, <1>4 DEF TreeCoalesce, Hunk
<1>7. hunk.type = other.type /\ hunk.src_start = other.src_end + 1 /\ hunk.dst_start = other.dst_end + 1
  BY DEF TreeCoalesce, Coalesces, Continues
<1>8. NotInverted(hunk) /\ NotInverted(other)
  BY <1>1, <1>2 DEF Covers
<1>9. other.src_end <= hunk.src_end /\ other.dst_end <= hunk.dst_end
  BY <1>4, <1>7, <1>8 DEF NotInverted, Hunk
<1> HIDE DEF extended
<1>10. /\ Len(working_hunks') = n
       /\ working_hunks'[otherhunk] = extended
  BY <1>2, <1>5, <1>6, ExceptSeq, LenProperties
<1>11. ASSUME NEW i \in 1 .. n, i # otherhunk PROVE working_hunks'[i] = working_hunks[i]
  BY <1>2, <1>6, <1>11, LenProperties
<1> HIDE DEF n, hunk, other
<1>12. ASSUME NEW i \in 1 .. n
       PROVE  /\ working_hunks'[i].type = working_hunks[i].type
              /\ working_hunks'[i].src_start = working_hunks[i].src_start
              /\ working_hunks'[i].dst_start = working_hunks[i].dst_start
              /\ working_hunks[i].src_end <= working_hunks'[i].src_end
              /\ working_hunks[i].dst_end <= working_hunks'[i].dst_end
              /\ working_hunks[i] \in Hunk /\ working_hunks'[i] \in Hunk
  <2>1. CASE i = otherhunk
    BY <1>3, <1>5, <1>9, <1>10, <2>1 DEF other
  <2>2. CASE i # otherhunk
    BY <1>3, <1>11, <2>2 DEF Hunk
  <2> QED
    BY <2>1, <2>2
<1> QED
  BY <1>2, <1>5, <1>7, <1>10, <1>11, <1>12 DEF n, hunk, other

\* So the list stays in order and without a gap.
LEMMA CoalesceKeepsBack ==
  ASSUME Inv, BackInv, TreeCoalesce
  PROVE  BackInv'
<1> DEFINE n == Len(working_hunks)
<1>1. /\ pc = "tree" /\ pc' = "tree" /\ UNCHANGED <<src, dst>>
      /\ ListInOrder /\ Covers
  BY DEF TreeCoalesce, AtTree, BackInv, BeforeBacktrack
<1>2. /\ n \in Nat /\ list \in 1 .. n /\ src.size \in Nat /\ dst.size \in Nat
      /\ Len(working_hunks') = n
  BY CoalesceElements
<1> HIDE DEF n
<1>3. ASSUME NEW i \in 1 .. n
       PROVE  /\ working_hunks'[i].type = working_hunks[i].type
              /\ working_hunks'[i].src_start = working_hunks[i].src_start
              /\ working_hunks'[i].dst_start = working_hunks[i].dst_start
              /\ working_hunks[i].src_end <= working_hunks'[i].src_end
              /\ working_hunks[i].dst_end <= working_hunks'[i].dst_end
              /\ working_hunks[i] \in Hunk /\ working_hunks'[i] \in Hunk
  BY CoalesceElements DEF n
<1>4. ASSUME NEW i \in 1 .. n PROVE NotInverted(working_hunks'[i])
  <2>1. NotInverted(working_hunks[i])
    BY <1>1 DEF Covers, n
  <2> QED
    BY <1>3, <2>1 DEF NotInverted, Hunk
<1>5. ASSUME NEW i \in 1 .. n - 1
       PROVE  /\ Joins(working_hunks'[i], working_hunks'[i + 1])
              /\ InOrder(working_hunks'[i], working_hunks'[i + 1])
  <2>1. i \in 1 .. n /\ i + 1 \in 1 .. n
    BY <1>2
  <2>2. /\ Joins(working_hunks[i], working_hunks[i + 1])
        /\ InOrder(working_hunks[i], working_hunks[i + 1])
    BY <1>1 DEF Covers, ListInOrder, n
  <2> DEFINE a == working_hunks[i]
             b == working_hunks[i + 1]
             a1 == working_hunks'[i]
             b1 == working_hunks'[i + 1]
  <2>3. /\ a1.type = a.type /\ a1.src_start = a.src_start /\ a1.dst_start = a.dst_start
        /\ a.src_end <= a1.src_end /\ a.dst_end <= a1.dst_end
        /\ a \in Hunk /\ a1 \in Hunk
    BY <1>3, <2>1
  <2>4. /\ b1.src_start = b.src_start /\ b1.dst_start = b.dst_start
        /\ b \in Hunk
    BY <1>3, <2>1
  <2>5. Joins(a, b) /\ InOrder(a, b)
    BY <2>2
  <2> HIDE DEF a, b, a1, b1
  <2>6. Joins(a1, b1) /\ InOrder(a1, b1)
    BY <2>3, <2>4, <2>5 DEF Joins, InOrder, StartsBefore, Hunk
  <2> QED
    BY <2>6 DEF a1, b1
<1>6. Covers'
  <2>1. n > 0 /\ 1 \in 1 .. n /\ n \in 1 .. n
    BY <1>2
  <2>2. working_hunks'[1].src_start = 0 /\ working_hunks'[1].dst_start = 0
    BY <1>1, <1>3, <2>1 DEF Covers
  <2>3. /\ working_hunks'[n].src_end >= src.size - 1
        /\ working_hunks'[n].dst_end >= dst.size - 1
    <3>1. /\ working_hunks[n].src_end >= src.size - 1
          /\ working_hunks[n].dst_end >= dst.size - 1
      BY <1>1 DEF Covers, n
    <3>2. /\ working_hunks[n].src_end <= working_hunks'[n].src_end
          /\ working_hunks[n].dst_end <= working_hunks'[n].dst_end
          /\ working_hunks[n] \in Hunk /\ working_hunks'[n] \in Hunk
      BY <1>3, <2>1
    <3>3. /\ working_hunks[n].src_end \in Nat /\ working_hunks'[n].src_end \in Nat
          /\ working_hunks[n].dst_end \in Nat /\ working_hunks'[n].dst_end \in Nat
      BY <3>2 DEF Hunk
    <3> QED
      BY <1>2, <3>1, <3>2, <3>3, SMTT(30)
  <2> QED
    BY <1>1, <1>2, <1>4, <1>5, <2>1, <2>2, <2>3 DEF Covers, NotInverted, Joins
<1>7. ListInOrder'
  BY <1>1, <1>2, <1>5 DEF ListInOrder, InOrder, StartsBefore
<1> QED
  BY <1>1, <1>6, <1>7 DEF BackInv

\* The other steps of backtrack_hunks leave the list as it is.
LEMMA OtherStepKeepsBack ==
  ASSUME Inv, BackInv,
         \/ BacktrackFault \/ BacktrackSkip \/ BacktrackDone
         \/ TreeInsert \/ TreeDone
  PROVE  BackInv'
<1>1. UNCHANGED <<src, dst, working_hunks>>
  BY DEF BacktrackFault, BacktrackSkip, BacktrackDone, TreeInsert, TreeDone
<1>2. pc \in {"backtrack", "tree"} /\ ListInOrder /\ Covers
  BY DEF BacktrackFault, BacktrackSkip, BacktrackDone, TreeInsert, TreeDone, AtIndexed,
         AtTree, BackInv, BeforeBacktrack
<1>3. ListInOrder' /\ Covers'
  BY <1>1, <1>2 DEF ListInOrder, InOrder, StartsBefore, Covers, NotInverted, Joins
<1>4. pc' = "backtrack" => Passed'
  <2> SUFFICES ASSUME pc' = "backtrack" PROVE Passed'
    OBVIOUS
  <2>1. BacktrackSkip /\ pc = "backtrack" /\ Passed
    BY DEF BacktrackFault, BacktrackSkip, BacktrackDone, TreeInsert, TreeDone, AtTree, BackInv
  <2>2. list \in Nat /\ list' = list + 1 /\ working_hunks[list].type # "SAME_INDEXED"
    BY <2>1 DEF BacktrackSkip, Inv, HunkListInv, HunkListTypeOK
  <2>3. ASSUME NEW i \in 1 .. Len(working_hunks), i < list + 1
        PROVE  working_hunks[i].type # "SAME_INDEXED"
    <3>1. CASE i = list
      BY <2>2, <3>1
    <3>2. CASE i # list
      <4>1. i < list
        BY <2>2, <2>3, <3>2
      <4> QED
        BY <2>1, <4>1 DEF Passed
    <3> QED
      BY <3>1, <3>2
  <2> QED
    BY <1>1, <2>1, <2>2, <2>3 DEF Passed, Movable, Peek
<1> QED
  BY <1>3, <1>4 DEF BackInv

\* Every step keeps what backtracking makes of the list.
LEMMA NextKeepsBack == Inv /\ WalkInv /\ BackInv /\ [Next]_vars => BackInv'
<1> SUFFICES ASSUME Inv, WalkInv, BackInv, [Next]_vars PROVE BackInv'
  OBVIOUS
<1>1. CASE \/ Popvalue \/ Prelude \/ SyncMatch \/ SyncLost \/ NearFound \/ NearMissed
           \/ FarGivenUp \/ FarTooClose \/ hi_hash_generate \/ FarMatch \/ FarMissed
           \/ Roll \/ RollDone
  <2>1. BeforeBacktrack'
    BY <1>1 DEF Popvalue, Prelude, SyncMatch, SyncLost, NearFound, NearMissed, FarGivenUp,
                FarTooClose, hi_hash_generate, FarMatch, FarMissed, Roll, RollDone,
                BeforeBacktrack, InLoop, InFar, MoveTo
  <2> QED
    BY <2>1 DEF BackInv, BeforeBacktrack
<1>2. CASE NearFault \/ NoDiff
  <2>1. ListInOrder
    BY <1>2, WalkInOrder DEF NearFault, NoDiff, InFar, InLoop, BeforeBacktrack
  <2> QED
    BY <1>2, <2>1 DEF NearFault, NoDiff, BackInv, ListInOrder, InOrder, StartsBefore
<1>3. CASE EofSync
  BY <1>3, EofSyncStarts
<1>4. CASE EofUnsynced
  BY <1>4, EofUnsyncedStarts
<1>5. CASE BacktrackHunk
  BY <1>5, BacktrackKeepsBack
<1>6. CASE TreeCoalesce
  BY <1>6, CoalesceKeepsBack
<1>7. CASE BacktrackFault \/ BacktrackSkip \/ BacktrackDone \/ TreeInsert \/ TreeDone
  BY <1>7, OtherStepKeepsBack
<1>8. CASE Terminated \/ UNCHANGED vars
  BY <1>8 DEF Terminated, vars, tail, BackInv, BeforeBacktrack, ListInOrder, InOrder,
              StartsBefore, Covers, NotInverted, Joins, Passed, Movable, Peek
<1> QED
  BY <1>1, <1>2, <1>3, <1>4, <1>5, <1>6, <1>7, <1>8 DEF Next, Loop, backtrack_hunks

\* What backtracking makes of the list holds of every behaviour.
LEMMA SpecBack == Spec => [](Inv /\ WalkInv /\ BackInv)
<1>1. Init => BackInv
  BY DEF Init, BackInv, BeforeBacktrack
<1>2. Init => Inv /\ WalkInv
  BY InitInv, InitWalk
<1>3. Inv /\ WalkInv /\ BackInv /\ [Next]_vars => Inv' /\ WalkInv' /\ BackInv'
  BY NextKeepsInv, NextKeepsWalk, NextKeepsBack
<1> QED
  BY <1>1, <1>2, <1>3, PTL DEF Spec

\* The list stays in order in both files while hunks are moved back, cut and
\* removed, but for a hunk that a hash match has put past the end of dst.
THEOREM HunksInOrder == Spec => []StartsInOrder
<1>1. Inv /\ WalkInv /\ BackInv => StartsInOrder
  <2> SUFFICES ASSUME Inv, WalkInv, BackInv PROVE StartsInOrder
    OBVIOUS
  <2>1. ListInOrder
    BY WalkInOrder DEF BackInv
  <2>2. /\ Len(working_hunks) \in Nat
        /\ DOMAIN working_hunks = 1 .. Len(working_hunks)
    BY LenProperties DEF Inv, TypeOK, HunkListTypeOK
  <2>3. ASSUME NEW i \in DOMAIN working_hunks, i > 1
        PROVE  InOrder(working_hunks[i - 1], working_hunks[i])
    <3>1. i - 1 \in 1 .. Len(working_hunks) - 1 /\ (i - 1) + 1 = i
      BY <2>2, <2>3
    <3> QED
      BY <2>1, <3>1 DEF ListInOrder
  <2> QED
    BY <2>3 DEF StartsInOrder, InOrder
<1> QED
  BY <1>1, SpecBack, PTL

\* However much backtracking cuts and removes, no byte of either file falls
\* out of the list, on all files and with every table of hashes.
THEOREM NoByteLost == Spec => []EveryByteListed
<1>1. Inv /\ BackInv => EveryByteListed
  <2> SUFFICES ASSUME Inv, BackInv, pc \in {"backtrack", "tree"} PROVE EveryByteListed
    BY DEF EveryByteListed
  <2> DEFINE n == Len(working_hunks)
  <2>1. /\ working_hunks \in Seq(Hunk) /\ n \in Nat
        /\ DOMAIN working_hunks = 1 .. n
        /\ src.size \in Nat /\ dst.size \in Nat
        /\ Covers
    BY LenProperties, FileBytes DEF Inv, TypeOK, HunkListTypeOK, BackInv
  <2>2. n \in Nat \ {0}
    BY <2>1 DEF Covers
  <2>3. ASSUME NEW k \in 1 .. n PROVE working_hunks[k] \in Hunk
    BY <2>1, ElementOfSeq
  <2>4. ASSUME NEW k \in 1 .. n - 1 PROVE Joins(working_hunks[k], working_hunks[k + 1])
    BY <2>1 DEF Covers
  <2>5. ASSUME NEW i \in 0 .. src.size - 1
        PROVE  \E k \in DOMAIN working_hunks : InSrc(working_hunks[k], i)
    <3> DEFINE start == [k \in 1 .. n |-> working_hunks[k].src_start]
               end == [k \in 1 .. n |-> working_hunks[k].src_end]
    <3>1. start \in [1 .. n -> Int] /\ end \in [1 .. n -> Int]
      BY <2>3 DEF Hunk
    <3>2. ASSUME NEW k \in 1 .. n - 1 PROVE start[k + 1] <= end[k] + 1
      <4>1. k \in 1 .. n /\ k + 1 \in 1 .. n
        BY <2>1
      <4> QED
        BY <2>4, <4>1 DEF Joins
    <3>3. start[1] <= i /\ i <= end[n]
      <4>1. 1 \in 1 .. n /\ n \in 1 .. n
        BY <2>2
      <4>2. working_hunks[1].src_start = 0 /\ working_hunks[n].src_end >= src.size - 1
        BY <2>1 DEF Covers
      <4>3. working_hunks[n].src_end \in Nat
        BY <2>3, <4>1 DEF Hunk
      <4> QED
        BY <2>1, <4>1, <4>2, <4>3
    <3> HIDE DEF start, end, n
    <3>4. i \in Int
      OBVIOUS
    <3>5. \E k \in 1 .. n : start[k] <= i /\ i <= end[k]
      BY <2>2, <3>1, <3>2, <3>3, <3>4, ChainCovers
    <3>6. PICK k \in 1 .. n : start[k] <= i /\ i <= end[k]
      BY <3>5
    <3> QED
      BY <2>1, <3>6 DEF InSrc, start, end
  <2>6. ASSUME NEW i \in 0 .. dst.size - 1
        PROVE  \E k \in DOMAIN working_hunks : InDst(working_hunks[k], i)
    <3> DEFINE start == [k \in 1 .. n |-> working_hunks[k].dst_start]
               end == [k \in 1 .. n |-> working_hunks[k].dst_end]
    <3>1. start \in [1 .. n -> Int] /\ end \in [1 .. n -> Int]
      BY <2>3 DEF Hunk
    <3>2. ASSUME NEW k \in 1 .. n - 1 PROVE start[k + 1] <= end[k] + 1
      <4>1. k \in 1 .. n /\ k + 1 \in 1 .. n
        BY <2>1
      <4> QED
        BY <2>4, <4>1 DEF Joins
    <3>3. start[1] <= i /\ i <= end[n]
      <4>1. 1 \in 1 .. n /\ n \in 1 .. n
        BY <2>2
      <4>2. working_hunks[1].dst_start = 0 /\ working_hunks[n].dst_end >= dst.size - 1
        BY <2>1 DEF Covers
      <4>3. working_hunks[n].dst_end \in Nat
        BY <2>3, <4>1 DEF Hunk
      <4> QED
        BY <2>1, <4>1, <4>2, <4>3
    <3> HIDE DEF start, end, n
    <3>4. i \in Int
      OBVIOUS
    <3>5. \E k \in 1 .. n : start[k] <= i /\ i <= end[k]
      BY <2>2, <3>1, <3>2, <3>3, <3>4, ChainCovers
    <3>6. PICK k \in 1 .. n : start[k] <= i /\ i <= end[k]
      BY <3>5
    <3> QED
      BY <2>1, <3>6 DEF InDst, start, end
  <2> QED
    BY <2>5, <2>6 DEF EveryByteListed
<1> QED
  BY <1>1, SpecBack, PTL

-----------------------------------------------------------------------------
(***************************************************************************)
(* What the tree holds.  Its keys point to hunks that are extended in      *)
(* place, so that it stays a search tree needs that only the last node's   *)
(* key is ever extended; and a hunk that replaces its equal takes bytes    *)
(* out of the tree, so that it holds every byte of src needs that these    *)
(* are still to come.  Both rest on how each hunk meets the next in src.   *)
(***************************************************************************)

\* Where hunk ends in src and next starts: a hunk that has moved back has cut
\* its predecessor, the others start at the last byte of it or just after.
Meets(hunk, next) ==
  IF next.type = "SAME_BACKTRACKED"
  THEN hunk.src_end = (IF next.src_start = 0 THEN 0 ELSE next.src_start - 1)
  ELSE /\ next.src_start \in {hunk.src_end, hunk.src_end + 1}
       /\ hunk.type # "SAME_BACKTRACKED" => hunk.src_start <= hunk.src_end

\* From first on each hunk meets the next, and all but the last start in order
\* in src: the last may start before one that has moved forward.
MeetFrom(first) ==
  \A i \in first .. Len(working_hunks) - 1 :
    /\ Meets(working_hunks[i], working_hunks[i + 1])
    /\ i + 1 < Len(working_hunks) =>
         working_hunks[i].src_start <= working_hunks[i + 1].src_start

\* What the walk lists has not moved back, and is indexed inside dst only.
Unmoving(hunk) ==
  /\ hunk.type # "SAME_BACKTRACKED"
  /\ hunk.type = "SAME_INDEXED" => hunk.dst_start < dst.size

\* So has nothing from list on, and only the last two, which the end of the
\* files adds, can be indexed past the end of dst.
ToMove ==
  \A i \in 1 .. Len(working_hunks) :
    /\ i >= list => working_hunks[i].type # "SAME_BACKTRACKED"
    /\ i < Len(working_hunks) - 1 /\ working_hunks[i].type = "SAME_INDEXED" =>
         working_hunks[i].dst_start < dst.size

MoveInv ==
  /\ BeforeBacktrack => \A i \in 1 .. Len(working_hunks) : Unmoving(working_hunks[i])
  /\ pc = "backtrack" => MeetFrom(1) /\ ToMove

KeyHunk(n) == working_hunks[hunks[n].key]
ValueHunk(n) == working_hunks[hunks[n].value]

\* A node's value starts where its key does and reaches no less far.
Nodes ==
  \A n \in 1 .. Len(hunks) :
    /\ hunks[n].key < list /\ hunks[n].value < list
    /\ hunks[n].key = otherhunk => hunks[n].value = otherhunk
    /\ ValueHunk(n).src_start = KeyHunk(n).src_start
    /\ ValueHunk(n).src_end >= KeyHunk(n).src_end

\* The tree holds the bytes of src up to end.
Reached(end) ==
  \A i \in 0 .. end : \E n \in 1 .. Len(hunks) : InSrc(ValueHunk(n), i)

\* No key is after the newest hunk of the tree, which meets the next.  If the
\* newest hunk is a key itself and has moved back, it is the last.
Newest ==
  LET other == working_hunks[otherhunk]
  IN  /\ Meets(other, working_hunks[list])
      /\ list < Len(working_hunks) => other.src_start <= working_hunks[list].src_start
      /\ \A n \in 1 .. Len(hunks) :
           /\ KeyHunk(n).src_start <= other.src_start
           /\ hunks[n].key # otherhunk /\ KeyHunk(n).src_start = other.src_start =>
                KeyHunk(n).src_end <= other.src_start
           /\ hunks[n].key = otherhunk /\ other.type = "SAME_BACKTRACKED" => n = Len(hunks)

TreeInv ==
  pc \in {"tree", "done"} =>
    /\ MeetFrom(list)
    /\ TreeInOrder
    /\ Nodes
    /\ IF otherhunk = 0
       THEN list = 1 /\ hunks = << >>
       ELSE /\ otherhunk < list
            /\ \E n \in 1 .. Len(hunks) : hunks[n].value = otherhunk
            /\ Reached(working_hunks[otherhunk].src_end)
            /\ IF list <= Len(working_hunks)
               THEN Newest
               ELSE working_hunks[otherhunk].src_end >= src.size - 1
    /\ pc = "done" => otherhunk # 0 /\ list > Len(working_hunks)

\* What the walk lists has not moved back.
LEMMA WalkKeepsMove ==
  ASSUME Inv, WalkInv, MoveInv, BeforeBacktrack,
         UNCHANGED <<src, dst>>, pc' # "backtrack",
         \/ UNCHANGED working_hunks
         \/ \E type \in HunkType, s \in Int, d \in Int :
              /\ Unmoving(Start(type, working_hunk.src_start, working_hunk.dst_start))
              /\ working_hunks' = Inserted(type, s, d)
  PROVE  MoveInv'
<1> DEFINE n == Len(working_hunks)
<1>1. CASE UNCHANGED working_hunks
  BY <1>1 DEF MoveInv, Unmoving
<1>2. ASSUME NEW type \in HunkType, NEW s \in Int, NEW d \in Int,
             Unmoving(Start(type, working_hunk.src_start, working_hunk.dst_start)),
             working_hunks' = Inserted(type, s, d)
      PROVE  MoveInv'
  <2> DEFINE hunk == ClampedHunk(type, working_hunk.src_start, s,
                                 working_hunk.dst_start, d)
  <2>1. /\ working_hunks \in Seq(Hunk)
        /\ working_hunk.src_start \in Nat /\ working_hunk.dst_start \in Nat
    BY DEF Inv, TypeOK, HunkListTypeOK
  <2>2. hunk \in Hunk
    BY <2>1, ClampedHunkType
  <2>3. hunk.type = type /\ hunk.dst_start = working_hunk.dst_start
    BY DEF ClampedHunk
  <2>4. Unmoving(hunk)
    BY <1>2, <2>3 DEF Unmoving, Start
  <2>5. working_hunks' = Append(working_hunks, hunk)
    BY <1>2 DEF Inserted, insert_hunk
  <2> HIDE DEF hunk
  <2>6. /\ n \in Nat /\ Len(working_hunks') = n + 1
        /\ \A i \in 1 .. n : working_hunks'[i] = working_hunks[i]
        /\ working_hunks'[n + 1] = hunk
    BY <2>1, <2>2, <2>5, AppendedHunk
  <2>7. ASSUME NEW i \in 1 .. n + 1 PROVE Unmoving(working_hunks'[i])
    <3>1. CASE i = n + 1
      BY <2>4, <2>6, <3>1
    <3>2. CASE i # n + 1
      <4>1. i \in 1 .. n
        BY <2>6, <3>2
      <4> QED
        BY <2>6, <4>1 DEF MoveInv
    <3> QED
      BY <3>1, <3>2
  <2> QED
    BY <2>6, <2>7 DEF MoveInv, Unmoving
<1> QED
  BY <1>1, <1>2

\* The steps of the walk list nothing that has moved back.
LEMMA TurnKeepsMove ==
  ASSUME Inv, WalkInv, MoveInv,
         \/ Popvalue \/ Prelude \/ SyncMatch \/ SyncLost \/ NearFound \/ NearMissed
         \/ FarGivenUp \/ FarTooClose \/ hi_hash_generate \/ FarMatch \/ FarMissed
         \/ Roll \/ RollDone
  PROVE  MoveInv'
<1>1. CASE \/ Popvalue \/ Prelude \/ SyncMatch \/ NearMissed \/ FarGivenUp \/ FarTooClose
           \/ hi_hash_generate \/ FarMissed \/ Roll \/ RollDone
  <2>1. /\ UNCHANGED <<src, dst, working_hunks>>
        /\ BeforeBacktrack /\ pc' # "backtrack"
    BY <1>1 DEF Popvalue, Prelude, SyncMatch, NearMissed, FarGivenUp, FarTooClose, FarMissed,
           Unmoved, hi_hash_generate, Roll, RollDone, BeforeBacktrack, InLoop, InFar, MoveTo
  <2> QED
    BY <2>1, WalkKeepsMove
<1>2. CASE SyncLost
  <2>1. /\ UNCHANGED <<src, dst>> /\ pc = "loop" /\ pc' = "roll" /\ mode = "SYNC"
        /\ dstptr < dst.size /\ BeforeBacktrack
    BY <1>2 DEF SyncLost, Unmoved, MoveTo, InLoop, BeforeBacktrack
  <2>2. /\ srcptr \in Nat /\ dstptr \in Nat /\ dst.size \in Nat
        /\ working_hunk.dst_start \in Nat /\ working_hunk.type \in HunkType
        /\ working_hunk.dst_start <= dstptr
        /\ working_hunk.type \in {"SAME", "SAME_INDEXED"}
    BY <2>1, TurnTypes, FileBytes DEF WalkInv, OnDiagonal, Opened, DstAhead
  <2>3. Unmoving(Start(working_hunk.type, working_hunk.src_start, working_hunk.dst_start))
    BY <2>1, <2>2 DEF Unmoving, Start
  <2>4. \/ UNCHANGED working_hunks
        \/ working_hunks' = Inserted(working_hunk.type, srcptr - 1, dstptr - 1)
    BY <1>2 DEF SyncLost
  <2>5. srcptr - 1 \in Int /\ dstptr - 1 \in Int
    BY <2>2
  <2> QED
    BY <2>1, <2>2, <2>3, <2>4, <2>5, WalkKeepsMove
<1>3. Unmoving(Start("DIFF", working_hunk.src_start, working_hunk.dst_start))
      /\ "DIFF" \in HunkType
  BY DEF Unmoving, Start, HunkType
<1>4. CASE NearFound
  <2>1. /\ UNCHANGED <<src, dst>> /\ pc = "loop" /\ BeforeBacktrack
    BY <1>4 DEF NearFound, Unmoved, InLoop, BeforeBacktrack
  <2>2. PICK size \in 0 .. hashbytes - 1 : \E s \in 0 .. size :
          /\ MoveTo(srcptr + s, dstptr + (size - s))
          /\ working_hunks' = Inserted("DIFF", srcptr + s - 1, dstptr + (size - s) - 1)
    BY <1>4, <2>1, TurnTypes DEF NearFound
  <2>3. PICK s \in 0 .. size :
          /\ MoveTo(srcptr + s, dstptr + (size - s))
          /\ working_hunks' = Inserted("DIFF", srcptr + s - 1, dstptr + (size - s) - 1)
    BY <2>2
  <2>4. pc' = "roll" /\ srcptr \in Nat /\ dstptr \in Nat
    BY <2>1, <2>3, TurnTypes DEF MoveTo
  <2>5. srcptr + s - 1 \in Int /\ dstptr + (size - s) - 1 \in Int
    BY <2>4
  <2> QED
    BY <1>3, <2>1, <2>3, <2>4, <2>5, WalkKeepsMove
<1>5. CASE FarMatch
  <2>1. /\ UNCHANGED <<src, dst>> /\ pc = "loop" /\ BeforeBacktrack
    BY <1>5 DEF FarMatch, Unmoved, InFar, InLoop, BeforeBacktrack
  <2>2. PICK place \in Within :
          /\ MoveTo(srcptr, place)
          /\ working_hunks' = Inserted("DIFF", srcptr - 1, place - 1)
    BY <1>5, FarMatchInserts DEF FarMatch
  <2>3. pc' = "roll" /\ srcptr \in Nat /\ dstptr \in Nat
    BY <2>1, <2>2, TurnTypes DEF MoveTo
  <2>4. srcptr - 1 \in Int /\ place - 1 \in Int
    BY <2>3 DEF Within
  <2> QED
    BY <1>3, <2>1, <2>2, <2>3, <2>4, WalkKeepsMove
<1> QED
  BY <1>1, <1>2, <1>4, <1>5

\* The end of the walk lists at most two hunks more, which go on from what is
\* listed: then every hunk meets the next.
LEMMA EofMeets ==
  ASSUME Inv, WalkInv, MoveInv, Inv', BackInv',
         pc = "loop", pc' = "backtrack", list' = 1, UNCHANGED <<src, dst>>,
         Len(working_hunks') \in Len(working_hunks) .. Len(working_hunks) + 2,
         \A i \in 1 .. Len(working_hunks) :
           /\ i < Len(working_hunks') => working_hunks'[i] = working_hunks[i]
           /\ working_hunks'[i].type = working_hunks[i].type
           /\ working_hunks'[i].src_start = working_hunks[i].src_start,
         \A i \in Len(working_hunks) + 1 .. Len(working_hunks') :
           working_hunks'[i].type # "SAME_BACKTRACKED",
         Len(working_hunks') > Len(working_hunks) =>
           working_hunks'[Len(working_hunks) + 1].src_start = working_hunk.src_start,
         Len(working_hunks') = Len(working_hunks) + 2 =>
           LET hunk == working_hunks'[Len(working_hunks) + 1]
               next == working_hunks'[Len(working_hunks) + 2]
           IN  /\ hunk.src_start <= hunk.src_end
               /\ next.src_start \in {hunk.src_end, hunk.src_end + 1}
  PROVE  MoveInv'
<1> DEFINE n == Len(working_hunks)
           m == Len(working_hunks')
<1>1. /\ n \in Nat /\ m \in n .. n + 2
      /\ working_hunks \in Seq(Hunk)
      /\ ListedSame /\ Chained
      /\ ListInOrder'
  BY LenProperties DEF Inv, TypeOK, HunkListTypeOK, WalkInv, BackInv, BeforeBacktrack
<1>2. ASSUME NEW i \in 1 .. n PROVE Unmoving(working_hunks[i])
  BY DEF MoveInv, BeforeBacktrack
<1>3. ASSUME NEW i \in 1 .. m PROVE working_hunks'[i].type # "SAME_BACKTRACKED"
  <2>1. CASE i \in 1 .. n
    BY <1>2, <2>1 DEF Unmoving
  <2>2. CASE i \in n + 1 .. m
    BY <2>2
  <2> QED
    BY <1>1, <2>1, <2>2
<1>4. ASSUME NEW i \in 1 .. m - 1
      PROVE  /\ working_hunks'[i].src_start <= working_hunks'[i].src_end
             /\ working_hunks'[i + 1].src_start
                  \in {working_hunks'[i].src_end, working_hunks'[i].src_end + 1}
  <2>1. CASE i \in 1 .. n
    <3>1. i < m /\ i + 1 \in 1 .. m
      BY <1>1
    <3>2. working_hunks'[i] = working_hunks[i]
      BY <2>1, <3>1
    <3>3. working_hunks'[i + 1].src_start = After(i).src_start
      <4>1. CASE i = n
        BY <3>1, <4>1 DEF After
      <4>2. CASE i # n
        <5>1. i + 1 \in 1 .. n
          BY <1>1, <2>1, <4>2
        <5> QED
          BY <4>2, <5>1 DEF After
      <4> QED
        BY <4>1, <4>2
    <3>4. /\ WellListed(working_hunks[i])
          /\ GoesOn(working_hunks[i].src_start, working_hunks[i].src_end, After(i).src_start)
      BY <1>1, <2>1 DEF ListedSame, Chained
    <3>5. working_hunks[i] \in Hunk
      BY <1>1, <2>1, ElementOfSeq
    <3> QED
      BY <3>2, <3>3, <3>4, <3>5 DEF WellListed, GoesOn, Hunk
  <2>2. CASE i \notin 1 .. n
    <3>1. i = n + 1 /\ m = n + 2 /\ i + 1 = n + 2
      BY <1>1, <2>2
    <3> QED
      BY <3>1
  <2> QED
    BY <2>1, <2>2
<1>5. MeetFrom(1)'
  <2>1. ASSUME NEW i \in 1 .. m - 1
        PROVE  /\ Meets(working_hunks'[i], working_hunks'[i + 1])
               /\ working_hunks'[i].src_start <= working_hunks'[i + 1].src_start
    <3>1. i \in 1 .. m /\ i + 1 \in 1 .. m
      BY <1>1
    <3>2. Meets(working_hunks'[i], working_hunks'[i + 1])
      BY <1>3, <1>4, <3>1 DEF Meets
    <3>3. StartsBefore(working_hunks'[i], working_hunks'[i + 1])
      BY <1>1, <1>3, <3>1 DEF ListInOrder, InOrder, StartsBefore
    <3> QED
      BY <3>2, <3>3 DEF StartsBefore
  <2> QED
    BY <2>1 DEF MeetFrom, Meets
<1>6. ToMove'
  <2>1. ASSUME NEW i \in 1 .. m, i < m - 1, working_hunks'[i].type = "SAME_INDEXED"
        PROVE  working_hunks'[i].dst_start < dst.size
    <3>1. i \in 1 .. n /\ i < m
      BY <1>1, <2>1
    <3> QED
      BY <1>2, <2>1, <3>1 DEF Unmoving
  <2> QED
    BY <1>3, <2>1 DEF ToMove
<1> QED
  BY <1>5, <1>6 DEF MoveInv, BeforeBacktrack

\* The walk that ends in SYNC.
LEMMA EofSyncKeepsMove ==
  ASSUME Inv, WalkInv, MoveInv, Inv', BackInv', EofSync
  PROVE  MoveInv'
<1>1. /\ pc = "loop" /\ BeforeBacktrack
      /\ list' = 1 /\ pc' = "backtrack" /\ UNCHANGED <<src, dst>>
      /\ mode = "SYNC"
  BY DEF EofSync, AtEOF, ToBacktrack, BeforeBacktrack
<1>2. /\ srcptr \in Nat /\ dstptr \in Nat
      /\ src.size \in Nat /\ dst.size \in Nat
      /\ working_hunk.src_start \in Nat /\ working_hunk.dst_start \in Nat
      /\ working_hunk.type \in HunkType
      /\ working_hunks \in Seq(Hunk) /\ Len(working_hunks) \in Nat
      /\ working_hunk.src_start <= srcptr
      /\ working_hunk.type # "SAME_BACKTRACKED"
  BY <1>1, TurnTypes, FileBytes DEF WalkInv, OnDiagonal, Opened, SrcAhead
<1> DEFINE same == ClampedHunk(working_hunk.type,
                               working_hunk.src_start, srcptr - 1,
                               working_hunk.dst_start, dstptr - 1)
           rest == ClampedHunk("DIFF", srcptr, src.size, dstptr, dst.size)
           n == Len(working_hunks)
<1>3. same \in Hunk /\ rest \in Hunk
  <2>1. "DIFF" \in HunkType
    BY DEF HunkType
  <2>2. same \in Hunk
    BY <1>2, ClampedHunkType
  <2>3. rest \in Hunk
    BY <1>2, <2>1, ClampedHunkType
  <2> QED
    BY <2>2, <2>3
<1>4. /\ same.type = working_hunk.type
      /\ same.src_start = working_hunk.src_start
      /\ same.src_end = IF srcptr - 1 < working_hunk.src_start
                        THEN working_hunk.src_start ELSE srcptr - 1
      /\ rest.type = "DIFF" /\ rest.src_start = srcptr
  BY DEF ClampedHunk
<1>5. \/ working_hunks' = working_hunks \o <<same, rest>>
      \/ working_hunks' = Append(working_hunks, same)
  BY DEF EofSync
<1> HIDE DEF same, rest
<1>6. /\ same.src_start <= same.src_end
      /\ rest.src_start \in {same.src_end, same.src_end + 1}
  BY <1>2, <1>4
<1>7. CASE working_hunks' = Append(working_hunks, same)
  <2>1. /\ Len(working_hunks') = n + 1
        /\ \A i \in 1 .. n : working_hunks'[i] = working_hunks[i]
        /\ working_hunks'[n + 1] = same
    BY <1>2, <1>3, <1>7, AppendedHunk
  <2>2. Len(working_hunks') \in n .. n + 2 /\ Len(working_hunks') # n + 2
    BY <1>2, <2>1
  <2>3. ASSUME NEW i \in n + 1 .. Len(working_hunks')
        PROVE  working_hunks'[i].type # "SAME_BACKTRACKED"
    <3>1. i = n + 1
      BY <1>2, <2>1
    <3> QED
      BY <1>2, <1>4, <2>1, <3>1
  <2> QED
    BY <1>1, <1>4, <2>1, <2>2, <2>3, EofMeets
<1>8. CASE working_hunks' = working_hunks \o <<same, rest>>
  <2>1. /\ <<same, rest>> \in Seq(Hunk) /\ Len(<<same, rest>>) = 2
    BY <1>3
  <2>2. /\ Len(working_hunks') = n + 2
        /\ \A i \in 1 .. n + 2 : working_hunks'[i] =
             IF i <= n THEN working_hunks[i] ELSE <<same, rest>>[i - n]
    BY <1>2, <1>8, <2>1, ConcatProperties
  <2>3. \A i \in 1 .. n : working_hunks'[i] = working_hunks[i]
    BY <1>2, <2>2
  <2>4. working_hunks'[n + 1] = same /\ working_hunks'[n + 2] = rest
    <3>1. n + 1 \in 1 .. n + 2 /\ ~(n + 1 <= n) /\ (n + 1) - n = 1
      BY <1>2
    <3>2. n + 2 \in 1 .. n + 2 /\ ~(n + 2 <= n) /\ (n + 2) - n = 2
      BY <1>2
    <3>3. working_hunks'[n + 1] = <<same, rest>>[1]
      BY <2>2, <3>1
    <3>4. working_hunks'[n + 2] = <<same, rest>>[2]
      BY <2>2, <3>2
    <3> QED
      BY <3>3, <3>4
  <2>5. Len(working_hunks') \in n .. n + 2
    BY <1>2, <2>2
  <2>6. ASSUME NEW i \in n + 1 .. Len(working_hunks')
        PROVE  working_hunks'[i].type # "SAME_BACKTRACKED"
    <3>1. i = n + 1 \/ i = n + 2
      BY <1>2, <2>2
    <3> QED
      BY <1>2, <1>4, <2>4, <3>1
  <2> QED
    BY <1>1, <1>4, <1>6, <2>2, <2>3, <2>4, <2>5, <2>6, EofMeets
<1> QED
  BY <1>5, <1>7, <1>8

\* The walk that ends outside SYNC.
LEMMA EofUnsyncedKeepsMove ==
  ASSUME Inv, WalkInv, MoveInv, Inv', BackInv', EofUnsynced
  PROVE  MoveInv'
<1> DEFINE n == Len(working_hunks)
<1>1. /\ pc = "loop" /\ BeforeBacktrack
      /\ list' = 1 /\ pc' = "backtrack" /\ UNCHANGED <<src, dst>>
      /\ mode # "SYNC"
  BY DEF EofUnsynced, AtEOF, ToBacktrack, BeforeBacktrack
<1>2. /\ src.size \in Nat /\ dst.size \in Nat
      /\ working_hunk.src_start \in Nat /\ working_hunk.dst_start \in Nat
      /\ working_hunks \in Seq(Hunk) /\ n \in Nat
  BY <1>1, TurnTypes, FileBytes
<1>3. CASE last_hunk = 0
  <2> DEFINE hunk == ClampedHunk("DIFF", working_hunk.src_start, src.size,
                                 working_hunk.dst_start, dst.size)
  <2>1. hunk \in Hunk
    BY <1>2, ClampedHunkType DEF HunkType
  <2>2. hunk.type = "DIFF" /\ hunk.src_start = working_hunk.src_start
    BY DEF ClampedHunk
  <2>3. working_hunks' = Append(working_hunks, hunk)
    BY <1>3 DEF EofUnsynced, Inserted, insert_hunk
  <2> HIDE DEF hunk
  <2>4. /\ Len(working_hunks') = n + 1
        /\ \A i \in 1 .. n : working_hunks'[i] = working_hunks[i]
        /\ working_hunks'[n + 1] = hunk
    BY <1>2, <2>1, <2>3, AppendedHunk
  <2>5. Len(working_hunks') \in n .. n + 2 /\ Len(working_hunks') # n + 2
    BY <1>2, <2>4
  <2>6. ASSUME NEW i \in n + 1 .. Len(working_hunks')
        PROVE  working_hunks'[i].type # "SAME_BACKTRACKED"
    <3>1. i = n + 1
      BY <1>2, <2>4
    <3> QED
      BY <2>2, <2>4, <3>1
  <2> QED
    BY <1>1, <2>2, <2>4, <2>5, <2>6, EofMeets
<1>4. CASE last_hunk # 0
  <2>1. last_hunk = n /\ n > 0 /\ n \in 1 .. n
    BY <1>1, <1>2, <1>4 DEF Inv, LastHunkInv, NotHeld, Held
  <2>2. working_hunks[n] \in Hunk
    BY <1>2, <2>1, ElementOfSeq
  <2> DEFINE edited == [working_hunks[n] EXCEPT !.src_end = src.size,
                                                !.dst_end = dst.size]
  <2>3. /\ edited \in Hunk
        /\ edited.type = working_hunks[n].type
        /\ edited.src_start = working_hunks[n].src_start
    BY <1>2, <2>2 DEF Hunk
  <2>4. working_hunks' = [working_hunks EXCEPT ![n] = edited]
    BY <1>4, <2>1, <2>2 DEF EofUnsynced, Hunk
  <2> HIDE DEF edited
  <2>5. /\ Len(working_hunks') = n
        /\ \A i \in 1 .. n :
             working_hunks'[i] = IF i = n THEN edited ELSE working_hunks[i]
    BY <1>2, <2>1, <2>3, <2>4, ExceptSeq
  <2>6. /\ Len(working_hunks') \in n .. n + 2 /\ Len(working_hunks') # n + 2
        /\ ~(Len(working_hunks') > n)
        /\ n + 1 .. Len(working_hunks') = {}
    BY <1>2, <2>5
  <2>7. ASSUME NEW i \in 1 .. n
        PROVE  /\ i < Len(working_hunks') => working_hunks'[i] = working_hunks[i]
               /\ working_hunks'[i].type = working_hunks[i].type
               /\ working_hunks'[i].src_start = working_hunks[i].src_start
    BY <1>2, <2>3, <2>5
  <2> QED
    BY <1>1, <2>6, <2>7, EofMeets
<1> QED
  BY <1>3, <1>4

\* A hunk that moves back meets the one it cuts, and the next as it did.
LEMMA BacktrackKeepsMove ==
  ASSUME Inv, BackInv, MoveInv, BacktrackHunk
  PROVE  MoveInv'
<1> DEFINE n == Len(working_hunks)
           m == Len(working_hunks')
           old == working_hunks[list]
<1>1. /\ pc = "backtrack" /\ pc' = "backtrack" /\ UNCHANGED <<src, dst>>
      /\ MeetFrom(1) /\ ToMove
  BY DEF BacktrackHunk, AtIndexed, MoveInv
<1>2. /\ working_hunks \in Seq(Hunk) /\ n \in Nat /\ m \in Nat
      /\ list \in 2 .. n /\ old \in Hunk /\ old.type = "SAME_INDEXED"
  BY BacktrackElements
<1>3. PICK back \in Nat, kept \in 1 .. list - 1, hunk \in Hunk, cut \in Hunk :
        /\ list' = kept + 2
        /\ hunk.type = "SAME_BACKTRACKED"
        /\ hunk.src_start = old.src_start + 1 - back
        /\ hunk.dst_start = old.dst_start + 1 - back
        /\ hunk.src_end = old.src_end /\ hunk.dst_end = old.dst_end
        /\ back = 0 => old.dst_start >= dst.size
        /\ StartsBefore(working_hunks[kept], hunk)
        /\ cut.type = working_hunks[kept].type
        /\ cut.src_start = working_hunks[kept].src_start
        /\ cut.dst_start = working_hunks[kept].dst_start
        /\ cut.src_end = IF hunk.src_start = 0 THEN 0 ELSE hunk.src_start - 1
        /\ cut.dst_end = IF hunk.dst_start = 0 THEN 0 ELSE hunk.dst_start - 1
        /\ kept + 1 <= m
        /\ \A i \in 1 .. kept - 1 : working_hunks'[i] = working_hunks[i]
        /\ working_hunks'[kept] = cut
        /\ working_hunks'[kept + 1] = hunk
        /\ m = kept + 1 + n - list
        /\ \A i \in kept + 2 .. m :
             /\ i + list - kept - 1 \in list + 1 .. n
             /\ i + list - kept - 1 \in 1 .. n
             /\ working_hunks'[i] = working_hunks[i + list - kept - 1]
  BY BacktrackElements
<1>4. ASSUME NEW i \in 1 .. n PROVE working_hunks[i] \in Hunk
  BY <1>2, ElementOfSeq
<1>5. ASSUME NEW i \in 1 .. n - 1
      PROVE  /\ Meets(working_hunks[i], working_hunks[i + 1])
             /\ i + 1 < n => working_hunks[i].src_start <= working_hunks[i + 1].src_start
  BY <1>1 DEF MeetFrom
<1>6. ASSUME NEW i \in 1 .. n
      PROVE  /\ i >= list => working_hunks[i].type # "SAME_BACKTRACKED"
             /\ i < n - 1 /\ working_hunks[i].type = "SAME_INDEXED" =>
                  working_hunks[i].dst_start < dst.size
  BY <1>1 DEF ToMove
<1> HIDE DEF n, m, old
<1>0. /\ kept \in Nat /\ list \in Nat /\ n \in Nat /\ m \in Nat
      /\ kept >= 1 /\ list > kept /\ list <= n
      /\ m = kept + 1 + n - list /\ list' = kept + 2
  BY <1>2, <1>3
<1>7. ASSUME NEW i \in 1 .. m - 1
      PROVE  /\ Meets(working_hunks'[i], working_hunks'[i + 1])
             /\ i + 1 < m => working_hunks'[i].src_start <= working_hunks'[i + 1].src_start
  <2>1. CASE i + 1 \in 1 .. kept
    <3>1. i \in 1 .. n - 1 /\ i \in 1 .. kept - 1 /\ i + 1 < n
      BY <1>0, <2>1
    <3>2. working_hunks'[i] = working_hunks[i]
      BY <1>3, <3>1
    <3>3. /\ working_hunks'[i + 1].type = working_hunks[i + 1].type
          /\ working_hunks'[i + 1].src_start = working_hunks[i + 1].src_start
      <4>1. CASE i + 1 = kept
        BY <1>3, <4>1
      <4>2. CASE i + 1 # kept
        <5>1. i + 1 \in 1 .. kept - 1
          BY <2>1, <4>2
        <5> QED
          BY <1>3, <5>1
      <4> QED
        BY <4>1, <4>2
    <3> QED
      BY <1>5, <3>1, <3>2, <3>3 DEF Meets
  <2>2. CASE i = kept
    <3>1. Meets(cut, hunk)
      BY <1>3 DEF Meets
    <3>2. cut.src_start <= hunk.src_start
      BY <1>3 DEF StartsBefore
    <3> QED
      BY <1>3, <2>2, <3>1, <3>2
  <2>3. CASE i = kept + 1
    <3>1. i + 1 \in kept + 2 .. m /\ (i + 1) + list - kept - 1 = list + 1
      BY <1>0, <2>3
    <3>2. working_hunks'[i + 1] = working_hunks[list + 1]
      BY <1>3, <3>1
    <3>3. list \in 1 .. n - 1 /\ list + 1 \in 1 .. n /\ list + 1 >= list
      BY <1>0, <1>3, <2>3
    <3>4. /\ Meets(old, working_hunks[list + 1])
          /\ list + 1 < n => old.src_start <= working_hunks[list + 1].src_start
      BY <1>5, <3>3 DEF old
    <3>5. working_hunks[list + 1].type # "SAME_BACKTRACKED" /\ working_hunks[list + 1] \in Hunk
      BY <1>4, <1>6, <3>3
    <3>6. Meets(hunk, working_hunks[list + 1])
      BY <1>3, <3>4, <3>5 DEF Meets
    <3>7. ASSUME i + 1 < m PROVE hunk.src_start <= working_hunks[list + 1].src_start
      <4>1. list + 1 < n /\ list \in 1 .. n /\ list < n - 1
        BY <1>0, <2>3, <3>3, <3>7
      <4>2. old.dst_start < dst.size
        BY <1>2, <1>6, <4>1 DEF old
      <4>3. dst.size \in Nat /\ old.dst_start \in Nat
        BY <1>2, FileBytes DEF Inv, TypeOK, HunkListTypeOK, Hunk
      <4>4. back # 0
        BY <1>3, <4>2, <4>3
      <4>5. hunk.src_start <= old.src_start
        BY <1>2, <1>3, <4>4 DEF Hunk
      <4> QED
        <5>1. /\ hunk.src_start \in Nat /\ old.src_start \in Nat
              /\ working_hunks[list + 1].src_start \in Nat
          BY <1>2, <3>5 DEF Hunk
        <5> QED
          BY <3>4, <4>1, <4>5, <5>1
    <3> QED
      BY <1>3, <2>3, <3>2, <3>6, <3>7
  <2>4. CASE i \in kept + 2 .. m
    <3> DEFINE j == i + list - kept - 1
    <3>1. i + 1 \in kept + 2 .. m /\ (i + 1) + list - kept - 1 = j + 1
      BY <1>0, <2>4
    <3>2. working_hunks'[i] = working_hunks[j] /\ working_hunks'[i + 1] = working_hunks[j + 1]
      BY <1>3, <2>4, <3>1
    <3>3. j \in 1 .. n /\ j + 1 \in 1 .. n
      BY <1>3, <2>4, <3>1
    <3>4. j \in 1 .. n - 1 /\ (i + 1 < m => j + 1 < n)
      BY <1>0, <2>4, <3>3
    <3> HIDE DEF j
    <3> QED
      BY <1>5, <3>2, <3>4
  <2>5. i + 1 \in 1 .. kept \/ i = kept \/ i = kept + 1 \/ i \in kept + 2 .. m
    BY <1>2
  <2> QED
    BY <2>1, <2>2, <2>3, <2>4, <2>5
<1>8. ASSUME NEW i \in 1 .. m
      PROVE  /\ i >= list' => working_hunks'[i].type # "SAME_BACKTRACKED"
             /\ i < m - 1 /\ working_hunks'[i].type = "SAME_INDEXED" =>
                  working_hunks'[i].dst_start < dst.size
  <2>1. CASE i \in 1 .. kept
    <3>2. ~(i >= list')
      BY <1>0, <2>1
    <3>3. /\ working_hunks'[i].type = working_hunks[i].type
          /\ working_hunks'[i].dst_start = working_hunks[i].dst_start
      <4>1. CASE i = kept
        BY <1>3, <4>1
      <4>2. CASE i # kept
        <5>1. i \in 1 .. kept - 1
          BY <2>1, <4>2
        <5> QED
          BY <1>3, <5>1
      <4> QED
        BY <4>1, <4>2
    <3>4. i < m - 1 => i \in 1 .. n /\ i < n - 1
      BY <1>0, <2>1
    <3> QED
      BY <1>6, <3>2, <3>3, <3>4
  <2>2. CASE i = kept + 1
    BY <1>3, <2>2
  <2>3. CASE i \in kept + 2 .. m
    <3> DEFINE j == i + list - kept - 1
    <3>1. j \in 1 .. n /\ working_hunks'[i] = working_hunks[j] /\ j \in list + 1 .. n
      BY <1>3, <2>3
    <3>2. j >= list /\ (i < m - 1 => j < n - 1)
      BY <1>0, <2>3
    <3> HIDE DEF j
    <3> QED
      BY <1>6, <3>1, <3>2
  <2>4. i \in 1 .. kept \/ i = kept + 1 \/ i \in kept + 2 .. m
    BY <1>2
  <2> QED
    BY <2>1, <2>2, <2>3, <2>4
<1>9. MeetFrom(1)'
  BY <1>7 DEF MeetFrom, Meets, m
<1>10. ToMove'
  BY <1>1, <1>8 DEF ToMove, m
<1> QED
  BY <1>1, <1>9, <1>10 DEF MoveInv, BeforeBacktrack

-----------------------------------------------------------------------------
\* The tree is in order before it, and the new hunk goes in at its place.
LEMMA InsertKeepsOrder ==
  ASSUME HunkListInv, TreeInOrder, TreeInsert
  PROVE  TreeInOrder'
<1> DEFINE len == Len(hunks)
           Low(i, j) == compare_diff_hunks(working_hunks[i], working_hunks[j]) < 0
<1>1. /\ UNCHANGED working_hunks
      /\ working_hunks \in Seq(Hunk) /\ Len(working_hunks) \in Nat
      /\ list \in 1 .. Len(working_hunks)
      /\ len \in Nat /\ DOMAIN hunks = 1 .. len
      /\ Len(hunks') \in Nat /\ DOMAIN hunks' = 1 .. Len(hunks')
      /\ hunks \in Seq([key : 1 .. Len(working_hunks), value : 1 .. Len(working_hunks)])
  <2>1. HunkListInv'
    BY BacktrackKeepsInv DEF backtrack_hunks
  <2> QED
    BY <2>1, LenProperties DEF HunkListInv, HunkListTypeOK, TreeInsert, AtTree
<1>2. ASSUME NEW n \in 1 .. len
      PROVE  /\ Compare(n) > 0 => Low(hunks[n].key, list)
             /\ Compare(n) < 0 => Low(list, hunks[n].key)
  <2>1. hunks[n].key \in 1 .. Len(working_hunks)
    <3>1. hunks[n] \in [key : 1 .. Len(working_hunks), value : 1 .. Len(working_hunks)]
      BY <1>1, ElementOfSeq
    <3> QED
      BY <3>1
  <2>2. working_hunks[list] \in Hunk /\ working_hunks[hunks[n].key] \in Hunk
    BY <1>1, <2>1, ElementOfSeq
  <2> QED
    BY <2>2, CompareHunks DEF Compare
<1>3. ASSUME NEW n \in 2 .. len PROVE Low(hunks[n - 1].key, hunks[n].key)
  <2>1. n \in DOMAIN hunks /\ n > 1
    BY <1>1
  <2> QED
    BY <2>1 DEF TreeInOrder
<1> HIDE DEF len
<1>4. CASE Len(hunks') = len /\ \A m \in 1 .. len : hunks'[m].key = hunks[m].key
  <2>1. ASSUME NEW n \in 2 .. len PROVE Low(hunks'[n - 1].key, hunks'[n].key)
    <3>1. n - 1 \in 1 .. len /\ n \in 1 .. len
      BY <1>1
    <3>2. hunks'[n - 1].key = hunks[n - 1].key /\ hunks'[n].key = hunks[n].key
      BY <1>4, <3>1
    <3> QED
      BY <1>3, <3>2
  <2>2. ASSUME NEW n \in DOMAIN hunks', n > 1 PROVE n \in 2 .. len
    BY <1>1, <1>4, <2>2
  <2> QED
    BY <1>1, <2>1, <2>2 DEF TreeInOrder
<1>5. CASE \E n \in 0 .. len :
             /\ Len(hunks') = len + 1
             /\ \A m \in 1 .. n : Compare(m) > 0 /\ hunks'[m].key = hunks[m].key
             /\ hunks'[n + 1].key = list
             /\ \A m \in n + 1 .. len :
                  Compare(m) < 0 /\ hunks'[m + 1].key = hunks[m].key
  <2>1. PICK n \in 0 .. len :
          /\ Len(hunks') = len + 1
          /\ \A m \in 1 .. n : Compare(m) > 0 /\ hunks'[m].key = hunks[m].key
          /\ hunks'[n + 1].key = list
          /\ \A m \in n + 1 .. len :
               Compare(m) < 0 /\ hunks'[m + 1].key = hunks[m].key
    BY <1>5
  <2>2. ASSUME NEW k \in 2 .. len + 1 PROVE Low(hunks'[k - 1].key, hunks'[k].key)
    <3>1. CASE k \in 2 .. n
      <4>1. k - 1 \in 1 .. n /\ k \in 1 .. n /\ k \in 2 .. len
        BY <1>1, <3>1
      <4>2. hunks'[k - 1].key = hunks[k - 1].key /\ hunks'[k].key = hunks[k].key
        BY <2>1, <4>1
      <4> QED
        BY <1>3, <4>1, <4>2
    <3>2. CASE k = n + 1
      <4>1. k - 1 = n /\ n \in 1 .. n /\ n \in 1 .. len
        BY <1>1, <3>2
      <4>2. hunks'[k - 1].key = hunks[n].key /\ hunks'[k].key = list /\ Compare(n) > 0
        BY <2>1, <3>2, <4>1
      <4> QED
        BY <1>2, <4>1, <4>2
    <3>3. CASE k = n + 2
      <4>1. k - 1 = n + 1 /\ n + 1 \in n + 1 .. len /\ n + 1 \in 1 .. len /\ k = (n + 1) + 1
        BY <1>1, <3>3
      <4>2. /\ hunks'[k - 1].key = list /\ hunks'[k].key = hunks[n + 1].key
            /\ Compare(n + 1) < 0
        BY <2>1, <4>1
      <4> QED
        BY <1>2, <4>1, <4>2
    <3>4. CASE k \in n + 3 .. len + 1
      <4>1. /\ k - 1 \in n + 1 .. len /\ k - 2 \in n + 1 .. len
            /\ (k - 1) + 1 = k /\ (k - 2) + 1 = k - 1
            /\ k - 1 \in 2 .. len /\ (k - 1) - 1 = k - 2
        BY <1>1, <3>4
      <4>2. hunks'[k - 1].key = hunks[k - 2].key /\ hunks'[k].key = hunks[k - 1].key
        BY <2>1, <4>1
      <4>3. Low(hunks[(k - 1) - 1].key, hunks[k - 1].key)
        BY <1>3, <4>1
      <4> QED
        BY <4>1, <4>2, <4>3
    <3> QED
      BY <1>1, <3>1, <3>2, <3>3, <3>4
  <2>3. ASSUME NEW k \in DOMAIN hunks', k > 1 PROVE k \in 2 .. len + 1
    BY <1>1, <2>1, <2>3
  <2>4. ASSUME NEW k \in DOMAIN hunks', k > 1 PROVE Low(hunks'[k - 1].key, hunks'[k].key)
    BY <2>2, <2>3, <2>4
  <2> HIDE DEF Low
  <2>5. working_hunks' = working_hunks
    BY <1>1
  <2> QED
    BY <2>4, <2>5 DEF TreeInOrder, Low
<1> QED
  BY <1>4, <1>5, InsertNodes DEF len

\* g_tree_insert keeps the invariant of the tree: the new hunk is the newest,
\* and what it may replace it holds itself, up to its own end.
LEMMA InsertKeepsTree ==
  ASSUME Inv, BackInv, TreeInv, TreeInsert
  PROVE  TreeInv'
<1> DEFINE n == Len(working_hunks)
           hunk == working_hunks[list]
           other == working_hunks[otherhunk]
           len == Len(hunks)
<1>1. /\ pc = "tree" /\ pc' = "tree" /\ UNCHANGED <<src, dst, working_hunks>>
      /\ otherhunk' = list /\ list' = list + 1
      /\ HunkListInv /\ HunkListInv' /\ Covers
      /\ MeetFrom(list) /\ TreeInOrder /\ Nodes
  <2>1. backtrack_hunks
    BY DEF backtrack_hunks
  <2> QED
    BY <2>1, BacktrackKeepsInv DEF TreeInsert, AtTree, Inv, BackInv, TreeInv
<1>2. /\ n \in Nat /\ list \in 1 .. n /\ len \in Nat /\ Len(hunks') \in Nat
      /\ otherhunk \in 0 .. n /\ src.size \in Nat
      /\ \A i \in 1 .. n : working_hunks[i] \in Hunk
      /\ \A m \in 1 .. len : hunks[m].key \in 1 .. n /\ hunks[m].value \in 1 .. n
  <2>1. /\ working_hunks \in Seq(Hunk) /\ otherhunk \in 0 .. n /\ src \in Files
        /\ hunks \in Seq([key : 1 .. n, value : 1 .. n])
        /\ list \in Nat /\ list > 0 /\ list <= n
    BY <1>1 DEF HunkListInv, HunkListTypeOK, TreeInsert, AtTree
  <2>2. hunks' \in Seq([key : 1 .. n, value : 1 .. n])
    BY <1>1 DEF HunkListInv, HunkListTypeOK
  <2>3. n \in Nat /\ len \in Nat /\ Len(hunks') \in Nat
    BY <2>1, <2>2, LenProperties
  <2>4. src.size \in Nat
    BY <2>1, FileBytes
  <2>5. ASSUME NEW m \in 1 .. len PROVE hunks[m].key \in 1 .. n /\ hunks[m].value \in 1 .. n
    <3>1. hunks[m] \in [key : 1 .. n, value : 1 .. n]
      BY <2>1, ElementOfSeq
    <3> QED
      BY <3>1
  <2>6. ASSUME NEW i \in 1 .. n PROVE working_hunks[i] \in Hunk
    BY <2>1, ElementOfSeq
  <2> QED
    BY <2>1, <2>3, <2>4, <2>5, <2>6
<1>3. ASSUME NEW m \in 1 .. Len(hunks')
      PROVE  \/ hunks'[m].key = list /\ hunks'[m].value = list
             \/ \E k \in 1 .. len :
                  /\ hunks'[m].key = hunks[k].key
                  /\ \/ hunks'[m].value = hunks[k].value
                     \/ hunks'[m].value = list /\ Compare(k) = 0
  BY <1>1, InsertNodes
<1>4. ASSUME NEW k \in 1 .. len
      PROVE  \E m \in 1 .. Len(hunks') :
               /\ hunks'[m].key = hunks[k].key
               /\ \/ hunks'[m].value = hunks[k].value
                  \/ hunks'[m].value = list /\ Compare(k) = 0
  BY <1>1, InsertNodes
<1>5. \E m \in 1 .. Len(hunks') : hunks'[m].value = list
  BY <1>1, InsertNodes
<1>6. ASSUME NEW k \in 1 .. len, Compare(k) = 0
      PROVE  hunk.src_start = KeyHunk(k).src_start /\ hunk.src_end = KeyHunk(k).src_end
  BY <1>2, <1>6, CompareHunks DEF Compare, KeyHunk
<1>7. hunk \in Hunk /\ NotInverted(hunk)
  BY <1>1, <1>2 DEF Covers
<1>8. ASSUME NEW k \in 1 .. len
      PROVE  /\ hunks[k].key < list /\ hunks[k].value < list
             /\ hunks[k].key = otherhunk => hunks[k].value = otherhunk
             /\ ValueHunk(k).src_start = KeyHunk(k).src_start
             /\ ValueHunk(k).src_end >= KeyHunk(k).src_end
             /\ KeyHunk(k) \in Hunk /\ ValueHunk(k) \in Hunk
             /\ hunks[k].key \in 1 .. n /\ hunks[k].value \in 1 .. n
  BY <1>1, <1>2 DEF Nodes, KeyHunk, ValueHunk
<1>9. MeetFrom(list + 1)
  BY <1>1, <1>2 DEF MeetFrom
<1>10. TreeInOrder'
  BY <1>1, InsertKeepsOrder
<1>11. Nodes'
  <2>1. ASSUME NEW m \in 1 .. Len(hunks')
        PROVE  /\ hunks'[m].key < list + 1 /\ hunks'[m].value < list + 1
               /\ hunks'[m].key = list => hunks'[m].value = list
               /\ working_hunks[hunks'[m].value].src_start
                    = working_hunks[hunks'[m].key].src_start
               /\ working_hunks[hunks'[m].value].src_end
                    >= working_hunks[hunks'[m].key].src_end
    <3>1. CASE hunks'[m].key = list /\ hunks'[m].value = list
      BY <1>2, <1>7, <3>1 DEF Hunk
    <3>2. CASE \E k \in 1 .. len :
                 /\ hunks'[m].key = hunks[k].key
                 /\ \/ hunks'[m].value = hunks[k].value
                    \/ hunks'[m].value = list /\ Compare(k) = 0
      <4>1. PICK k \in 1 .. len :
              /\ hunks'[m].key = hunks[k].key
              /\ \/ hunks'[m].value = hunks[k].value
                 \/ hunks'[m].value = list /\ Compare(k) = 0
        BY <3>2
      <4>2. CASE hunks'[m].value = hunks[k].value
        BY <1>2, <1>8, <4>1, <4>2 DEF KeyHunk, ValueHunk
      <4>3. CASE hunks'[m].value = list /\ Compare(k) = 0
        <5>1. list \in Nat /\ hunks[k].key < list /\ hunks[k].key \in 1 .. n
          BY <1>2, <1>8
        <5>2. hunk.src_start = KeyHunk(k).src_start /\ hunk.src_end = KeyHunk(k).src_end
          BY <1>6, <4>3
        <5>3. hunk.src_end \in Nat
          BY <1>7 DEF Hunk
        <5>4. KeyHunk(k) = working_hunks[hunks'[m].key]
          BY <4>1 DEF KeyHunk
        <5> QED
          BY <4>1, <4>3, <5>1, <5>2, <5>3, <5>4
      <4> QED
        BY <4>1, <4>2, <4>3
    <3> QED
      BY <1>3, <3>1, <3>2
  <2> QED
    BY <1>1, <2>1 DEF Nodes, KeyHunk, ValueHunk
<1>12. ASSUME otherhunk # 0
       PROVE  /\ otherhunk \in 1 .. n /\ otherhunk < list /\ other \in Hunk
              /\ \E k \in 1 .. len : hunks[k].value = otherhunk
              /\ Reached(other.src_end) /\ Newest
              /\ NotInverted(other)
              /\ Meets(other, hunk)
  <2>1. /\ otherhunk < list /\ Reached(other.src_end)
        /\ \E k \in 1 .. len : hunks[k].value = otherhunk
        /\ list <= n => Newest
    BY <1>1, <1>12 DEF TreeInv
  <2>2. otherhunk \in 1 .. n
    BY <1>2, <1>12
  <2>3. other \in Hunk
    BY <1>2, <2>2
  <2>4. Newest
    BY <1>2, <2>1
  <2>5. NotInverted(other)
    BY <1>1, <2>2 DEF Covers
  <2>6. Meets(other, hunk)
    BY <2>4 DEF Newest
  <2> QED
    BY <2>1, <2>2, <2>3, <2>4, <2>5, <2>6
<1>13. ASSUME otherhunk = 0 PROVE list = 1 /\ len = 0
  BY <1>1, <1>13, EmptySeq DEF TreeInv
<1>14. ASSUME NEW i \in 0 .. hunk.src_end
       PROVE  \E m \in 1 .. Len(hunks') : InSrc(working_hunks[hunks'[m].value], i)
  <2>1. CASE hunk.src_start <= i
    BY <1>5, <1>7, <2>1 DEF InSrc, Hunk
  <2>2. CASE i < hunk.src_start
    <3>1. otherhunk # 0
      <4>1. hunk.src_start = 0 \/ list # 1
        BY <1>1 DEF Covers
      <4> QED
        BY <1>7, <1>13, <2>2, <4>1 DEF Hunk
    <3>2. i \in 0 .. other.src_end
      <4>1. hunk.src_start \in Nat /\ other.src_end \in Nat /\ i \in Nat
        BY <1>7, <1>12, <3>1 DEF Hunk
      <4>2. hunk.src_start <= other.src_end + 1
        BY <1>12, <3>1, <4>1, SMTT(30) DEF Meets
      <4> QED
        BY <2>2, <4>1, <4>2
    <3>3. PICK k \in 1 .. len : InSrc(ValueHunk(k), i)
      BY <1>12, <3>1, <3>2 DEF Reached
    <3>4. PICK m \in 1 .. Len(hunks') :
            \/ hunks'[m].value = hunks[k].value
            \/ hunks'[m].value = list /\ Compare(k) = 0
      BY <1>4
    <3>5. CASE hunks'[m].value = hunks[k].value
      BY <3>3, <3>5 DEF ValueHunk
    <3>6. CASE hunks'[m].value = list /\ Compare(k) = 0
      <4>1. hunk.src_start = ValueHunk(k).src_start
        BY <1>6, <1>8, <3>6
      <4> QED
        BY <1>7, <1>8, <2>2, <3>3, <4>1 DEF InSrc, Hunk
    <3> QED
      BY <3>4, <3>5, <3>6
  <2> QED
    BY <1>7, <2>1, <2>2 DEF Hunk
<1>15. ASSUME list + 1 <= n
       PROVE  Newest'
  <2>1. list \in list .. n - 1 /\ list < n
    BY <1>2, <1>15
  <2>2. /\ Meets(hunk, working_hunks[list + 1])
        /\ list + 1 < n => hunk.src_start <= working_hunks[list + 1].src_start
    BY <1>1, <2>1 DEF MeetFrom
  <2>3. ASSUME otherhunk # 0 PROVE other.src_start <= hunk.src_start
    BY <1>12, <2>1, <2>3 DEF Newest
  <2>4. ASSUME NEW k \in 1 .. len
        PROVE  /\ otherhunk # 0
               /\ KeyHunk(k).src_start <= other.src_start
               /\ hunks[k].key # otherhunk /\ KeyHunk(k).src_start = other.src_start =>
                    KeyHunk(k).src_end <= other.src_start
    <3>1. otherhunk # 0
      BY <1>2, <1>13
    <3> QED
      BY <1>12, <3>1 DEF Newest
  <2>5. ASSUME NEW k \in 1 .. len
        PROVE  /\ KeyHunk(k).src_start <= hunk.src_start
               /\ KeyHunk(k).src_start = hunk.src_start =>
                    KeyHunk(k).src_end <= hunk.src_start
    <3>1. /\ otherhunk # 0 /\ other.src_start <= hunk.src_start
          /\ KeyHunk(k).src_start <= other.src_start
      BY <2>3, <2>4
    <3>2. /\ KeyHunk(k).src_start \in Nat /\ KeyHunk(k).src_end \in Nat
          /\ other.src_start \in Nat /\ other.src_end \in Nat
          /\ hunk.src_start \in Nat
      BY <1>7, <1>8, <1>12, <3>1 DEF Hunk
    <3>3. ASSUME KeyHunk(k).src_start = hunk.src_start
          PROVE  KeyHunk(k).src_end <= hunk.src_start
      <4>1. KeyHunk(k).src_start = other.src_start /\ other.src_start = hunk.src_start
        BY <3>1, <3>2, <3>3
      <4>2. CASE hunks[k].key = otherhunk
        <5>1. Meets(other, hunk) /\ KeyHunk(k) = other
          BY <1>12, <3>1, <4>2 DEF KeyHunk
        <5>2. other.src_end <= hunk.src_start
          BY <3>2, <5>1 DEF Meets
        <5> QED
          BY <5>1, <5>2
      <4>3. CASE hunks[k].key # otherhunk
        BY <2>4, <4>1, <4>3
      <4> QED
        BY <4>2, <4>3
    <3> QED
      BY <3>1, <3>2, <3>3
  <2>6. ASSUME NEW m \in 1 .. Len(hunks')
        PROVE  /\ working_hunks[hunks'[m].key].src_start <= hunk.src_start
               /\ /\ hunks'[m].key # list
                  /\ working_hunks[hunks'[m].key].src_start = hunk.src_start
                  => working_hunks[hunks'[m].key].src_end <= hunk.src_start
    <3>1. CASE hunks'[m].key = list
      BY <1>7, <3>1 DEF Hunk
    <3>2. CASE \E k \in 1 .. len : hunks'[m].key = hunks[k].key
      BY <2>5, <3>2 DEF KeyHunk
    <3> QED
      BY <1>3, <3>1, <3>2
  <2>7. ASSUME NEW m \in 1 .. Len(hunks'), hunks'[m].key = list,
               hunk.type = "SAME_BACKTRACKED"
        PROVE  m = Len(hunks')
    <3>1. CASE Len(hunks') = len /\ \A k \in 1 .. len : hunks'[k].key = hunks[k].key
      <4>1. hunks[m].key < list /\ hunks[m].key = list
        BY <1>8, <2>7, <3>1
      <4> QED
        BY <1>2, <4>1
    <3>2. CASE \E k \in 0 .. len :
                 /\ Len(hunks') = len + 1
                 /\ \A j \in 1 .. k : Compare(j) > 0 /\ hunks'[j].key = hunks[j].key
                 /\ hunks'[k + 1].key = list
                 /\ \A j \in k + 1 .. len :
                      Compare(j) < 0 /\ hunks'[j + 1].key = hunks[j].key
      <4>1. PICK k \in 0 .. len :
              /\ Len(hunks') = len + 1
              /\ \A j \in 1 .. k : Compare(j) > 0 /\ hunks'[j].key = hunks[j].key
              /\ hunks'[k + 1].key = list
              /\ \A j \in k + 1 .. len :
                   Compare(j) < 0 /\ hunks'[j + 1].key = hunks[j].key
        BY <3>2
      <4>2. SUFFICES ASSUME m # len + 1 PROVE FALSE
        BY <4>1
      <4>3. m = k + 1
        <5>1. CASE m \in 1 .. k
          <6>1. m \in 1 .. len /\ hunks[m].key = list
            BY <1>2, <2>7, <4>1, <5>1
          <6> QED
            BY <1>2, <1>8, <6>1, SMTT(30)
        <5>2. CASE m \in k + 2 .. len + 1
          <6>1. m - 1 \in k + 1 .. len /\ (m - 1) + 1 = m /\ m - 1 \in 1 .. len
            BY <1>2, <5>2
          <6>2. hunks[m - 1].key = list
            BY <2>7, <4>1, <6>1
          <6>3. hunks[m - 1].key < list
            BY <1>8, <6>1
          <6> QED
            BY <1>2, <6>2, <6>3
        <5> QED
          BY <1>2, <4>1, <5>1, <5>2
      <4>4. k + 1 \in 1 .. len /\ k + 1 \in k + 1 .. len /\ Compare(k + 1) < 0
        BY <1>2, <4>1, <4>2, <4>3
      <4>5. \/ hunk.src_start < KeyHunk(k + 1).src_start
            \/ /\ hunk.src_start = KeyHunk(k + 1).src_start
               /\ hunk.src_end < KeyHunk(k + 1).src_end
        BY <1>7, <1>8, <4>4, CompareHunks DEF Compare, KeyHunk
      <4>6. /\ KeyHunk(k + 1).src_start = hunk.src_start
            /\ hunk.src_end < hunk.src_start
        BY <1>7, <1>8, <2>5, <4>4, <4>5, SMTT(30) DEF Hunk
      \* The hunk that the new one has cut is its equal, and so is its key.
      <4>7. /\ otherhunk # 0 /\ other.src_start = hunk.src_start
            /\ other.src_end = hunk.src_end
        <5>1. /\ otherhunk # 0 /\ other.src_start <= hunk.src_start
              /\ KeyHunk(k + 1).src_start <= other.src_start
          BY <2>3, <2>4, <4>4
        <5>2. /\ other.src_start \in Nat /\ other.src_end \in Nat
              /\ hunk.src_start \in Nat /\ hunk.src_end \in Nat
          BY <1>7, <1>12, <5>1 DEF Hunk
        <5>3. other.src_end = hunk.src_start - 1
          BY <1>12, <2>7, <4>6, <5>1, <5>2 DEF Meets
        <5>4. hunk.src_end = hunk.src_start - 1
          BY <1>7, <4>6, <5>2, SMTT(30) DEF NotInverted
        <5> QED
          BY <4>6, <5>1, <5>2, <5>3, <5>4
      <4>8. PICK j \in 1 .. len : hunks[j].value = otherhunk
        BY <1>12, <4>7
      <4>9. KeyHunk(j).src_start = hunk.src_start /\ KeyHunk(j).src_end = hunk.src_end
        <5>1. /\ KeyHunk(j).src_start = other.src_start
              /\ KeyHunk(j).src_end <= other.src_end
              /\ KeyHunk(j) \in Hunk /\ NotInverted(KeyHunk(j))
          BY <1>1, <1>8, <4>8 DEF ValueHunk, KeyHunk, Covers, Hunk
        <5>2. /\ KeyHunk(j).src_start \in Nat /\ KeyHunk(j).src_end \in Nat
              /\ hunk.src_start \in Nat /\ hunk.src_end \in Nat
              /\ KeyHunk(j).src_start <= KeyHunk(j).src_end + 1
          BY <1>7, <5>1 DEF NotInverted, Hunk
        <5> HIDE DEF hunk, other
        <5> QED
          BY <4>6, <4>7, <5>1, <5>2
      <4>10. Compare(j) = 0
        BY <1>7, <1>8, <4>9, CompareHunks DEF Compare, KeyHunk
      <4>11. j \in 1 .. k \/ j \in k + 1 .. len
        BY <1>2
      <4> QED
        BY <4>1, <4>10, <4>11
    <3> QED
      BY <1>1, <3>1, <3>2, InsertNodes
  <2> QED
    BY <1>1, <1>2, <2>2, <2>6, <2>7 DEF Newest, Meets, KeyHunk
<1>16. ASSUME ~(list + 1 <= n)
       PROVE  hunk.src_end >= src.size - 1
  <2>1. list = n
    BY <1>2, <1>16
  <2> QED
    BY <1>1, <2>1 DEF Covers
<1>17. /\ list # 0 /\ list < list + 1
       /\ Reached(other.src_end)'
  <2>1. list # 0 /\ list < list + 1
    BY <1>2
  <2> QED
    BY <1>1, <1>14, <2>1 DEF Reached, ValueHunk, InSrc
<1>18. MeetFrom(list)'
  BY <1>1, <1>9 DEF MeetFrom, Meets
<1> QED
  BY <1>1, <1>5, <1>10, <1>11, <1>15, <1>16, <1>17, <1>18 DEF TreeInv

\* Only the last key of the tree is ever extended in place.
LEMMA OnlyLastKeyExtended ==
  ASSUME Inv, BackInv, TreeInv, TreeCoalesce,
         NEW m \in 1 .. Len(hunks), hunks[m].key = otherhunk
  PROVE  m = Len(hunks)
<1> DEFINE n == Len(working_hunks)
           hunk == working_hunks[list]
           other == working_hunks[otherhunk]
           len == Len(hunks)
<1>1. /\ TreeInOrder /\ Newest
      /\ hunk.type = other.type
      /\ n \in Nat /\ otherhunk \in 1 .. n
      /\ len \in Nat /\ DOMAIN hunks = 1 .. len
      /\ hunks \in Seq([key : 1 .. n, value : 1 .. n])
      /\ \A i \in 1 .. n : working_hunks[i] \in Hunk
  <2>1. TreeInOrder /\ Newest
    BY DEF TreeInv, TreeCoalesce, AtTree, Coalesces
  <2>2. /\ hunk.type = other.type /\ n \in Nat /\ otherhunk \in 1 .. n
        /\ \A i \in 1 .. n : working_hunks[i] \in Hunk
    BY CoalesceElements
  <2> QED
    BY <2>1, <2>2, LenProperties DEF Inv, HunkListInv, HunkListTypeOK
<1>2. CASE other.type = "SAME_BACKTRACKED"
  BY <1>1, <1>2 DEF Newest
<1>3. CASE other.type # "SAME_BACKTRACKED"
  <2> SUFFICES ASSUME m # len PROVE FALSE
    OBVIOUS
  <2> DEFINE next == working_hunks[hunks[m + 1].key]
  <2>0. m \in 1 .. len /\ m # len
    OBVIOUS
  <2>1. m + 1 \in 1 .. len /\ m + 1 \in DOMAIN hunks /\ m + 1 > 1 /\ (m + 1) - 1 = m
    <3>1. m + 1 \in 1 .. len /\ m + 1 > 1 /\ (m + 1) - 1 = m
      <4> HIDE DEF len
      <4> QED
        BY <1>1, <2>0
    <3> QED
      BY <1>1, <3>1
  <2>2. hunks[m + 1].key \in 1 .. n
    <3>1. hunks[m + 1] \in [key : 1 .. n, value : 1 .. n]
      BY <1>1, <2>1, ElementOfSeq
    <3> QED
      BY <3>1
  <2>3. next \in Hunk /\ other \in Hunk
    BY <1>1, <2>2
  <2>4. compare_diff_hunks(other, next) < 0
    BY <1>1, <2>1 DEF TreeInOrder
  <2>5. /\ next.src_start <= other.src_start
        /\ hunks[m + 1].key # otherhunk /\ next.src_start = other.src_start =>
             next.src_end <= other.src_start
    BY <1>1, <2>1 DEF Newest, KeyHunk
  <2>6. other.src_start <= other.src_end
    BY <1>1, <1>3 DEF Newest, Meets
  <2>7. hunks[m + 1].key = otherhunk => next = other
    OBVIOUS
  <2>8. \/ other.src_start < next.src_start
        \/ other.src_start = next.src_start /\ other.src_end < next.src_end
    BY <2>3, <2>4, CompareHunks
  <2> HIDE DEF next, other
  <2> QED
    BY <2>3, <2>5, <2>6, <2>7, <2>8 DEF Hunk
<1> QED
  BY <1>2, <1>3

\* Extending the newest hunk keeps the invariant of the tree.
LEMMA CoalesceKeepsTree ==
  ASSUME Inv, BackInv, TreeInv, TreeCoalesce
  PROVE  TreeInv'
<1> DEFINE n == Len(working_hunks)
           hunk == working_hunks[list]
           other == working_hunks[otherhunk]
           len == Len(hunks)
<1>1. /\ pc = "tree" /\ pc' = "tree" /\ UNCHANGED <<src, dst, otherhunk, hunks>>
      /\ list' = list + 1 /\ otherhunk # 0 /\ otherhunk < list /\ list <= n
      /\ MeetFrom(list) /\ TreeInOrder /\ Nodes /\ Newest /\ Covers
      /\ Reached(other.src_end)
      /\ \E k \in 1 .. len : hunks[k].value = otherhunk
  BY DEF TreeInv, TreeCoalesce, AtTree, Coalesces, BackInv
<1>2. /\ n \in Nat /\ list \in 1 .. n /\ otherhunk \in 1 .. n /\ src.size \in Nat
      /\ Len(working_hunks') = n
      /\ hunk.type = other.type /\ hunk.src_start = other.src_end + 1
      /\ working_hunks'[otherhunk].src_end = hunk.src_end
  BY CoalesceElements
<1>3. ASSUME NEW i \in 1 .. n
      PROVE  /\ working_hunks'[i].type = working_hunks[i].type
             /\ working_hunks'[i].src_start = working_hunks[i].src_start
             /\ working_hunks[i].src_end <= working_hunks'[i].src_end
             /\ working_hunks[i] \in Hunk /\ working_hunks'[i] \in Hunk
             /\ i # otherhunk => working_hunks'[i] = working_hunks[i]
  BY CoalesceElements
<1>4. /\ len \in Nat /\ DOMAIN hunks = 1 .. len
      /\ \A k \in 1 .. len : hunks[k].key \in 1 .. n /\ hunks[k].value \in 1 .. n
  <2>1. hunks \in Seq([key : 1 .. n, value : 1 .. n])
    BY DEF Inv, HunkListInv, HunkListTypeOK
  <2>2. ASSUME NEW k \in 1 .. len PROVE hunks[k].key \in 1 .. n /\ hunks[k].value \in 1 .. n
    <3>1. hunks[k] \in [key : 1 .. n, value : 1 .. n]
      BY <2>1, ElementOfSeq
    <3> QED
      BY <3>1
  <2> QED
    BY <2>1, <2>2, LenProperties
<1>5. /\ other \in Hunk /\ hunk \in Hunk /\ NotInverted(other)
      /\ working_hunks'[otherhunk] \in Hunk
      /\ working_hunks'[otherhunk].type = other.type
      /\ working_hunks'[otherhunk].src_start = other.src_start
  BY <1>1, <1>2, <1>3 DEF Covers
<1>6. MeetFrom(list)'
  <2>1. ASSUME NEW i \in list + 1 .. n - 1
        PROVE  /\ Meets(working_hunks'[i], working_hunks'[i + 1])
               /\ i + 1 < n => working_hunks'[i].src_start <= working_hunks'[i + 1].src_start
    <3>1. /\ i \in 1 .. n /\ i + 1 \in 1 .. n /\ i # otherhunk /\ i + 1 # otherhunk
          /\ i \in list .. n - 1
      BY <1>1, <1>2
    <3>2. working_hunks'[i] = working_hunks[i] /\ working_hunks'[i + 1] = working_hunks[i + 1]
      BY <1>3, <3>1
    <3> QED
      BY <1>1, <3>1, <3>2 DEF MeetFrom
  <2> QED
    BY <1>1, <1>2, <2>1 DEF MeetFrom, Meets
<1>7. TreeInOrder'
  <2>1. ASSUME NEW k \in 1 .. len, k > 1
        PROVE  compare_diff_hunks(working_hunks'[hunks[k - 1].key],
                                  working_hunks'[hunks[k].key]) < 0
    <3> DEFINE a == working_hunks[hunks[k - 1].key]
               b == working_hunks[hunks[k].key]
               b1 == working_hunks'[hunks[k].key]
    <3>1. k - 1 \in 1 .. len /\ k - 1 # len
      BY <1>4, <2>1
    <3>2. hunks[k - 1].key \in 1 .. n /\ hunks[k].key \in 1 .. n
      BY <1>4, <3>1
    <3>3. hunks[k - 1].key # otherhunk
      BY <3>1, OnlyLastKeyExtended
    <3>4. working_hunks'[hunks[k - 1].key] = a /\ a \in Hunk
      BY <1>3, <3>2, <3>3
    <3>5. /\ b1.src_start = b.src_start /\ b.src_end <= b1.src_end
          /\ b \in Hunk /\ b1 \in Hunk
      BY <1>3, <3>2
    <3>6. compare_diff_hunks(a, b) < 0
      BY <1>1, <1>4, <2>1 DEF TreeInOrder
    <3> HIDE DEF a, b, b1
    <3>7. \/ a.src_start < b.src_start
          \/ a.src_start = b.src_start /\ a.src_end < b.src_end
      BY <3>4, <3>5, <3>6, CompareHunks
    <3>8. \/ a.src_start < b1.src_start
          \/ a.src_start = b1.src_start /\ a.src_end < b1.src_end
      BY <3>4, <3>5, <3>7 DEF Hunk
    <3>9. compare_diff_hunks(a, b1) < 0
      BY <3>4, <3>5, <3>8, CompareHunks
    <3> QED
      BY <3>4, <3>9 DEF b1
  <2> QED
    BY <1>1, <1>4, <2>1 DEF TreeInOrder
<1>8. Nodes'
  <2>1. ASSUME NEW k \in 1 .. len
        PROVE  /\ hunks[k].key < list + 1 /\ hunks[k].value < list + 1
               /\ hunks[k].key = otherhunk => hunks[k].value = otherhunk
               /\ working_hunks'[hunks[k].value].src_start
                    = working_hunks'[hunks[k].key].src_start
               /\ working_hunks'[hunks[k].value].src_end
                    >= working_hunks'[hunks[k].key].src_end
    <3>1. hunks[k].key \in 1 .. n /\ hunks[k].value \in 1 .. n
      BY <1>4
    <3>2. /\ hunks[k].key < list /\ hunks[k].value < list
          /\ hunks[k].key = otherhunk => hunks[k].value = otherhunk
          /\ working_hunks[hunks[k].value].src_start = working_hunks[hunks[k].key].src_start
          /\ working_hunks[hunks[k].value].src_end >= working_hunks[hunks[k].key].src_end
      BY <1>1 DEF Nodes, KeyHunk, ValueHunk
    <3>3. hunks[k].key < list + 1 /\ hunks[k].value < list + 1
      BY <1>2, <3>1, <3>2
    <3>4. working_hunks'[hunks[k].value].src_start = working_hunks'[hunks[k].key].src_start
      BY <1>3, <3>1, <3>2
    <3>5. CASE hunks[k].key = otherhunk
      BY <1>5, <3>2, <3>3, <3>5 DEF Hunk
    <3>6. CASE hunks[k].key # otherhunk
      <4>1. /\ working_hunks'[hunks[k].key] = working_hunks[hunks[k].key]
            /\ working_hunks[hunks[k].key] \in Hunk
            /\ working_hunks[hunks[k].value].src_end <= working_hunks'[hunks[k].value].src_end
            /\ working_hunks[hunks[k].value] \in Hunk
            /\ working_hunks'[hunks[k].value] \in Hunk
        BY <1>3, <3>1, <3>6
      <4>2. /\ working_hunks[hunks[k].key].src_end \in Nat
            /\ working_hunks[hunks[k].value].src_end \in Nat
            /\ working_hunks'[hunks[k].value].src_end \in Nat
        BY <4>1 DEF Hunk
      <4>3. working_hunks'[hunks[k].value].src_end >= working_hunks'[hunks[k].key].src_end
        BY <3>2, <4>1, <4>2
      <4> QED
        BY <3>2, <3>3, <3>4, <4>3
    <3> QED
      BY <3>5, <3>6
  <2> QED
    BY <1>1, <2>1 DEF Nodes, KeyHunk, ValueHunk
<1>9. Reached(other.src_end)'
  <2>1. ASSUME NEW i \in 0 .. hunk.src_end
        PROVE  \E k \in 1 .. len : InSrc(working_hunks'[hunks[k].value], i)
    <3>1. CASE i <= other.src_end
      <4>1. i \in 0 .. other.src_end
        BY <1>5, <3>1 DEF Hunk
      <4>2. PICK k \in 1 .. len : InSrc(working_hunks[hunks[k].value], i)
        BY <1>1, <4>1 DEF Reached, ValueHunk
      <4>3. hunks[k].value \in 1 .. n
        BY <1>4
      <4>4. /\ working_hunks'[hunks[k].value].src_start = working_hunks[hunks[k].value].src_start
            /\ working_hunks[hunks[k].value].src_end <= working_hunks'[hunks[k].value].src_end
            /\ working_hunks[hunks[k].value] \in Hunk
            /\ working_hunks'[hunks[k].value] \in Hunk
        BY <1>3, <4>3
      <4>5. InSrc(working_hunks'[hunks[k].value], i)
        BY <4>2, <4>4 DEF InSrc, Hunk
      <4> QED
        BY <4>5
    <3>2. CASE ~(i <= other.src_end)
      <4>1. PICK k \in 1 .. len : hunks[k].value = otherhunk
        BY <1>1
      <4>2. /\ other.src_start \in Nat /\ other.src_end \in Nat /\ hunk.src_end \in Nat
            /\ other.src_start <= other.src_end + 1
        BY <1>5 DEF NotInverted, Hunk
      <4>3. other.src_start <= i /\ i <= hunk.src_end
        BY <3>2, <4>2
      <4> QED
        BY <1>2, <1>5, <4>1, <4>3 DEF InSrc
    <3> QED
      BY <3>1, <3>2
  <2> QED
    BY <1>1, <1>2, <2>1 DEF Reached, ValueHunk, InSrc
<1>10. ASSUME list + 1 <= n
       PROVE  Newest'
  <2> DEFINE next == working_hunks[list + 1]
             extended == working_hunks'[otherhunk]
  <2>1. list \in list .. n - 1 /\ list < n /\ list + 1 \in 1 .. n /\ list + 1 # otherhunk
    BY <1>1, <1>2, <1>10
  <2>2. /\ Meets(hunk, next)
        /\ list + 1 < n => hunk.src_start <= next.src_start
    BY <1>1, <2>1 DEF MeetFrom
  <2>3. other.src_start <= hunk.src_start
    BY <1>1, <2>1 DEF Newest
  <2>4. working_hunks'[list + 1] = next /\ next \in Hunk
    BY <1>3, <2>1
  <2>5. /\ extended.src_end = hunk.src_end /\ extended.src_start = other.src_start
        /\ extended.type = hunk.type /\ extended \in Hunk
    BY <1>2, <1>5
  <2>6. ASSUME NEW k \in 1 .. len
        PROVE  /\ working_hunks'[hunks[k].key].src_start <= extended.src_start
               /\ /\ hunks[k].key # otherhunk
                  /\ working_hunks'[hunks[k].key].src_start = extended.src_start
                  => working_hunks'[hunks[k].key].src_end <= extended.src_start
               /\ hunks[k].key = otherhunk /\ extended.type = "SAME_BACKTRACKED" => k = len
    <3>1. hunks[k].key \in 1 .. n
      BY <1>4
    <3>2. /\ working_hunks'[hunks[k].key].src_start = working_hunks[hunks[k].key].src_start
          /\ hunks[k].key # otherhunk =>
               working_hunks'[hunks[k].key] = working_hunks[hunks[k].key]
      BY <1>3, <3>1
    <3>3. /\ working_hunks[hunks[k].key].src_start <= other.src_start
          /\ /\ hunks[k].key # otherhunk
             /\ working_hunks[hunks[k].key].src_start = other.src_start
             => working_hunks[hunks[k].key].src_end <= other.src_start
      BY <1>1 DEF Newest, KeyHunk
    <3>4. hunks[k].key = otherhunk => k = len
      BY OnlyLastKeyExtended
    <3> QED
      BY <2>5, <3>2, <3>3, <3>4
  <2> HIDE DEF extended, next, hunk, other
  <2>7. Meets(extended, next)
    BY <1>5, <2>2, <2>3, <2>5 DEF Meets, Hunk
  <2>8. list + 1 < n => extended.src_start <= next.src_start
    BY <1>5, <2>2, <2>3, <2>4, <2>5 DEF Hunk
  <2> QED
    BY <1>1, <1>2, <2>4, <2>6, <2>7, <2>8 DEF Newest, Meets, KeyHunk, extended
<1>11. ASSUME ~(list + 1 <= n)
       PROVE  hunk.src_end >= src.size - 1
  <2>1. list = n
    BY <1>1, <1>2, <1>11
  <2> QED
    BY <1>1, <2>1 DEF Covers
<1>12. otherhunk < list + 1
  BY <1>1, <1>2
<1> QED
  BY <1>1, <1>2, <1>6, <1>7, <1>8, <1>9, <1>10, <1>11, <1>12 DEF TreeInv

\* The other steps of backtrack_hunks leave the list and the tree.
LEMMA OtherStepKeepsTree ==
  ASSUME Inv, BackInv, MoveInv, TreeInv,
         \/ BacktrackFault \/ BacktrackSkip \/ BacktrackDone \/ TreeDone
  PROVE  MoveInv' /\ TreeInv'
<1>1. CASE BacktrackFault
  BY <1>1 DEF BacktrackFault, MoveInv, TreeInv, BeforeBacktrack
<1>2. CASE BacktrackSkip
  <2>1. /\ pc = "backtrack" /\ pc' = "backtrack" /\ UNCHANGED <<src, dst, working_hunks>>
        /\ list \in Nat /\ list' = list + 1
    BY <1>2 DEF BacktrackSkip, Inv, HunkListInv, HunkListTypeOK
  <2>2. MeetFrom(1) /\ ToMove
    BY <2>1 DEF MoveInv
  <2>3. MeetFrom(1)'
    BY <2>1, <2>2 DEF MeetFrom, Meets
  <2>4. ToMove'
    <3>1. ASSUME NEW i \in 1 .. Len(working_hunks), i >= list + 1
          PROVE  working_hunks[i].type # "SAME_BACKTRACKED"
      <4>1. i >= list
        BY <2>1, <3>1
      <4> QED
        BY <2>2, <4>1 DEF ToMove
    <3> QED
      BY <2>1, <2>2, <3>1 DEF ToMove
  <2> QED
    BY <2>1, <2>3, <2>4 DEF MoveInv, TreeInv, BeforeBacktrack
<1>3. CASE BacktrackDone
  <2>1. /\ pc = "backtrack" /\ pc' = "tree" /\ UNCHANGED <<src, dst, working_hunks>>
        /\ list' = 1 /\ otherhunk' = 0 /\ hunks' = << >> /\ MeetFrom(1)
    BY <1>3 DEF BacktrackDone, Inv, HunkListInv, MoveInv
  <2>2. MeetFrom(list)'
    BY <2>1 DEF MeetFrom, Meets
  <2>3. DOMAIN hunks' = {} /\ 1 .. Len(hunks') = {}
    <3>1. Len(hunks') = 0 /\ DOMAIN hunks' = 1 .. Len(hunks')
      BY <2>1, EmptySeq, LenProperties
    <3> QED
      BY <3>1
  <2>4. TreeInOrder' /\ Nodes'
    BY <2>3 DEF TreeInOrder, Nodes
  <2> QED
    BY <2>1, <2>2, <2>4 DEF MoveInv, TreeInv, BeforeBacktrack
<1>4. CASE TreeDone
  <2>1. /\ pc = "tree" /\ pc' = "done" /\ list > Len(working_hunks)
        /\ UNCHANGED <<src, dst, working_hunks, list, otherhunk, hunks>>
    BY <1>4 DEF TreeDone
  <2>2. otherhunk # 0
    BY <2>1, LenProperties DEF TreeInv, BackInv, Covers, Inv, TypeOK, HunkListTypeOK
  <2> QED
    BY <2>1, <2>2 DEF MoveInv, TreeInv, BeforeBacktrack, MeetFrom, Meets, TreeInOrder,
                      compare_diff_hunks, Nodes, KeyHunk, ValueHunk, Reached, InSrc, Newest
<1> QED
  BY <1>1, <1>2, <1>3, <1>4

\* Every step keeps what is to be moved and what the tree holds.
LEMMA NextKeepsTree ==
  /\ Inv /\ WalkInv /\ BackInv /\ MoveInv /\ TreeInv
  /\ Inv' /\ BackInv'
  /\ [Next]_vars
  => MoveInv' /\ TreeInv'
<1> SUFFICES ASSUME Inv, WalkInv, BackInv, MoveInv, TreeInv, Inv', BackInv', [Next]_vars
             PROVE  MoveInv' /\ TreeInv'
  OBVIOUS
<1>1. CASE \/ Popvalue \/ Prelude \/ SyncMatch \/ SyncLost \/ NearFound \/ NearMissed
           \/ FarGivenUp \/ FarTooClose \/ hi_hash_generate \/ FarMatch \/ FarMissed
           \/ Roll \/ RollDone
  <2>1. BeforeBacktrack'
    BY <1>1 DEF Popvalue, Prelude, SyncMatch, SyncLost, NearFound, NearMissed, FarGivenUp,
                FarTooClose, hi_hash_generate, FarMatch, FarMissed, Roll, RollDone,
                BeforeBacktrack, InLoop, InFar, MoveTo
  <2> QED
    BY <1>1, <2>1, TurnKeepsMove DEF TreeInv, BeforeBacktrack
<1>2. CASE NearFault \/ NoDiff
  BY <1>2 DEF NearFault, NoDiff, MoveInv, TreeInv, BeforeBacktrack
<1>3. CASE EofSync \/ EofUnsynced
  <2>1. pc' = "backtrack"
    BY <1>3 DEF EofSync, EofUnsynced, ToBacktrack
  <2> QED
    BY <1>3, <2>1, EofSyncKeepsMove, EofUnsyncedKeepsMove DEF TreeInv
<1>4. CASE BacktrackHunk
  BY <1>4, BacktrackKeepsMove DEF BacktrackHunk, AtIndexed, TreeInv
<1>5. CASE TreeCoalesce
  BY <1>5, CoalesceKeepsTree DEF TreeCoalesce, AtTree, MoveInv, BeforeBacktrack
<1>6. CASE TreeInsert
  BY <1>6, InsertKeepsTree DEF TreeInsert, AtTree, MoveInv, BeforeBacktrack
<1>7. CASE BacktrackFault \/ BacktrackSkip \/ BacktrackDone \/ TreeDone
  BY <1>7, OtherStepKeepsTree
<1>8. CASE Terminated \/ UNCHANGED vars
  <2>1. UNCHANGED <<src, dst, pc, working_hunks, list, otherhunk, hunks>>
    BY <1>8 DEF Terminated, vars, tail
  <2> QED
    BY <2>1 DEF MoveInv, TreeInv, BeforeBacktrack, Unmoving, MeetFrom, Meets, ToMove,
                TreeInOrder, compare_diff_hunks, Nodes, KeyHunk, ValueHunk, Reached, InSrc,
                Newest
<1> QED
  BY <1>1, <1>2, <1>3, <1>4, <1>5, <1>6, <1>7, <1>8 DEF Next, Loop, backtrack_hunks

\* What the tree holds is so in every behaviour.
LEMMA SpecTree == Spec => [](Inv /\ BackInv /\ TreeInv)
<1>1. Init => MoveInv /\ TreeInv
  <2> SUFFICES ASSUME Init PROVE MoveInv /\ TreeInv
    OBVIOUS
  <2>1. Len(working_hunks) = 0
    BY EmptySeq DEF Init
  <2> QED
    BY <2>1 DEF Init, MoveInv, TreeInv
<1>2. Init => Inv /\ WalkInv /\ BackInv
  BY InitInv, InitWalk DEF Init, BackInv, BeforeBacktrack
<1>3. Inv /\ WalkInv /\ BackInv /\ MoveInv /\ TreeInv /\ [Next]_vars
        => Inv' /\ WalkInv' /\ BackInv' /\ MoveInv' /\ TreeInv'
  BY NextKeepsInv, NextKeepsWalk, NextKeepsBack, NextKeepsTree
<1> QED
  BY <1>1, <1>2, <1>3, PTL DEF Spec

\* The tree stays a search tree although hunks that are its keys are extended
\* in place: none but the last of them ever is.
THEOREM TreeStaysInOrder == Spec => []TreeInOrder
<1>1. Inv /\ TreeInv => TreeInOrder
  <2> SUFFICES ASSUME Inv, TreeInv, pc \notin {"tree", "done"} PROVE TreeInOrder
    BY DEF TreeInv
  <2>1. hunks = << >>
    BY DEF Inv, HunkListInv
  <2>2. DOMAIN hunks = {}
    <3>1. Len(hunks) = 0 /\ DOMAIN hunks = 1 .. Len(hunks)
      BY <2>1, EmptySeq, LenProperties
    <3> QED
      BY <3>1
  <2> QED
    BY <2>2 DEF TreeInOrder
<1> QED
  BY <1>1, SpecTree, PTL

\* Whatever hunk g_tree_insert throws away for its equal, no byte of src is
\* missing from the tree when the diff is done.
THEOREM NoByteOfSrcLost == Spec => []SrcInTree
<1>1. Inv /\ TreeInv => SrcInTree
  <2> SUFFICES ASSUME Inv, TreeInv, pc = "done", NEW i \in 0 .. src.size - 1
               PROVE  \E n \in DOMAIN hunks : InSrc(working_hunks[hunks[n].value], i)
    BY DEF SrcInTree
  <2>1. /\ working_hunks \in Seq(Hunk) /\ otherhunk \in 0 .. Len(working_hunks)
        /\ src.size \in Nat /\ DOMAIN hunks = 1 .. Len(hunks)
    BY LenProperties, FileBytes DEF Inv, TypeOK, HunkListTypeOK
  <2>2. /\ otherhunk # 0
        /\ Reached(working_hunks[otherhunk].src_end)
        /\ working_hunks[otherhunk].src_end >= src.size - 1
    <3>1. /\ otherhunk # 0 /\ list > Len(working_hunks)
          /\ Reached(working_hunks[otherhunk].src_end)
          /\ list <= Len(working_hunks) \/ working_hunks[otherhunk].src_end >= src.size - 1
      BY DEF TreeInv
    <3>2. list \in Nat /\ Len(working_hunks) \in Nat
      BY LenProperties DEF Inv, TypeOK, HunkListTypeOK
    <3> QED
      BY <3>1, <3>2
  <2>3. working_hunks[otherhunk] \in Hunk
    BY <2>1, <2>2, ElementOfSeq
  <2>4. i \in 0 .. working_hunks[otherhunk].src_end
    <3>1. working_hunks[otherhunk].src_end \in Nat
      BY <2>3 DEF Hunk
    <3> QED
      BY <2>1, <2>2, <3>1
  <2> QED
    BY <2>1, <2>2, <2>4 DEF Reached, ValueHunk
<1> QED
  BY <1>1, SpecTree, PTL

-----------------------------------------------------------------------------
(***************************************************************************)
(* The hash rolled along src (hi_diff.c:421-436, 460-463, 544-550) is at   *)
(* every offset the hash hi_hash_generate would file that window under.    *)
(* This is arithmetic modulo PRIME: adding a byte multiplies by BASE, and  *)
(* taking off the first byte of a window subtracts it times popvalue,      *)
(* which is BASE to the power hashbytes - 1.  WordAssumption says that no  *)
(* product wraps around the machine word, as the constants of the code     *)
(* ensure.                                                                 *)
(***************************************************************************)

\* b is a modulo PRIME.
Congruent(a, b) == \E k \in Int : a = b + k * PRIME

\* Division with a remainder.
LEMMA Division ==
  ASSUME NEW a \in Int
  PROVE  /\ (a \div PRIME) \in Int /\ (a % PRIME) \in 0 .. PRIME - 1
         /\ a = PRIME * (a \div PRIME) + (a % PRIME)
BY HashAssumption

\* The remainder is congruent.
LEMMA ModCongruent ==
  ASSUME NEW a \in Int
  PROVE  (a % PRIME) \in Int /\ Congruent(a % PRIME, a) /\ Congruent(a, a % PRIME)
<1>1. PRIME \in Int
  BY HashAssumption
<1> DEFINE q == a \div PRIME
           r == a % PRIME
<1>2. q \in Int /\ r \in Int /\ a = PRIME * q + r
  BY Division
<1> HIDE DEF q, r
<1>3. r = a + (-q) * PRIME /\ -q \in Int
  BY <1>1, <1>2
<1>4. a = r + q * PRIME
  BY <1>1, <1>2
<1> QED
  BY <1>2, <1>3, <1>4 DEF Congruent, r

\* A remainder is unique.
LEMMA ModUnique ==
  ASSUME NEW r \in 0 .. PRIME - 1, NEW s \in 0 .. PRIME - 1, Congruent(r, s)
  PROVE  r = s
<1>1. PICK k \in Int : r = s + k * PRIME
  BY DEF Congruent
<1>2. PRIME \in Nat \ {0}
  BY HashAssumption
<1>3. k >= 1 => k * PRIME >= PRIME
  BY <1>2
<1>4. k <= -1 => k * PRIME <= -PRIME
  BY <1>2
<1>5. k = 0
  BY <1>1, <1>2, <1>3, <1>4
<1> QED
  BY <1>1, <1>2, <1>5

\* Congruence is symmetric, transitive and kept by sums and products.
LEMMA CongruentSym ==
  ASSUME NEW a \in Int, NEW b \in Int, Congruent(a, b)
  PROVE  Congruent(b, a)
<1>1. PICK k \in Int : a = b + k * PRIME
  BY DEF Congruent
<1>2. PRIME \in Int /\ -k \in Int
  BY HashAssumption
<1>3. b = a + (-k) * PRIME
  BY <1>1, <1>2
<1> QED
  BY <1>2, <1>3 DEF Congruent

\* Transitivity.
LEMMA CongruentTrans ==
  ASSUME NEW a \in Int, NEW b \in Int, NEW c \in Int, Congruent(a, b), Congruent(b, c)
  PROVE  Congruent(a, c)
<1>1. PICK k \in Int : a = b + k * PRIME
  BY DEF Congruent
<1>2. PICK j \in Int : b = c + j * PRIME
  BY DEF Congruent
<1>3. PRIME \in Int /\ j + k \in Int
  BY HashAssumption
<1>4. a = c + (j + k) * PRIME
  BY <1>1, <1>2, <1>3
<1> QED
  BY <1>3, <1>4 DEF Congruent

\* Sums.
LEMMA CongruentAdd ==
  ASSUME NEW a \in Int, NEW b \in Int, NEW c \in Int, Congruent(a, b)
  PROVE  Congruent(a + c, b + c)
<1>1. PICK k \in Int : a = b + k * PRIME
  BY DEF Congruent
<1>2. PRIME \in Int
  BY HashAssumption
<1>3. a + c = (b + c) + k * PRIME
  BY <1>1, <1>2
<1> QED
  BY <1>3 DEF Congruent

\* Products.
LEMMA CongruentTimes ==
  ASSUME NEW a \in Int, NEW b \in Int, NEW c \in Int, Congruent(a, b)
  PROVE  Congruent(a * c, b * c)
<1>1. PICK k \in Int : a = b + k * PRIME
  BY DEF Congruent
<1>2. PRIME \in Int /\ k * c \in Int
  BY HashAssumption
<1>3. a * c = (b * c) + (k * c) * PRIME
  BY <1>1, <1>2
<1> QED
  BY <1>2, <1>3 DEF Congruent

-----------------------------------------------------------------------------
\* Below UINT a number is a uint32_t as it is.
LEMMA Unwrapped ==
  ASSUME NEW n \in Nat, n < UINT
  PROVE  uint32(n) = n
BY HashAssumption DEF uint32

\* A byte is added without wrapping around.
LEMMA AddIs ==
  ASSUME NEW h \in Hash, NEW value \in Byte
  PROVE  rabinkarp_add(h, value) = (h * BASE + value) % PRIME
<1>1. /\ h \in Nat /\ h <= PRIME - 1 /\ value \in Nat /\ BASE \in Nat /\ PRIME \in Nat
      /\ (PRIME - 1) * BASE + value < UINT /\ UINT \in Nat
  BY HashAssumption, FileAssumption, WordAssumption DEF Hash
<1>2. h * BASE <= (PRIME - 1) * BASE
  BY <1>1
<1>3. h * BASE \in Nat /\ (PRIME - 1) * BASE \in Int
  BY <1>1
<1>4. h * BASE + value < UINT /\ h * BASE + value \in Nat
  BY <1>1, <1>2, <1>3
<1> QED
  BY <1>4, Unwrapped DEF rabinkarp_add

\* Removing takes away the value times the pop value, modulo PRIME.
LEMMA RemoveIs ==
  ASSUME NEW h \in Hash, NEW value \in Byte, NEW pop \in 0 .. PRIME
  PROVE  /\ rabinkarp_remove(h, value, pop) \in Hash
         /\ Congruent(h, value * pop + rabinkarp_remove(h, value, pop))
<1> DEFINE x == (value * pop) % PRIME
           y == h + PRIME - x
<1>1. /\ h \in Nat /\ h <= PRIME - 1 /\ value \in Nat /\ pop \in Nat /\ pop <= PRIME
      /\ PRIME \in Nat \ {0} /\ PRIME * value < UINT /\ UINT \in Nat /\ 2 * PRIME <= UINT
  BY HashAssumption, FileAssumption, WordAssumption DEF Hash
<1>2. value * pop \in Nat /\ value * pop < UINT
  <2>1. value * pop <= PRIME * value
    BY <1>1
  <2>2. value * pop \in Nat /\ PRIME * value \in Nat
    BY <1>1
  <2> QED
    BY <1>1, <2>1, <2>2
<1>3. uint32(value * pop) = value * pop
  BY <1>2, Unwrapped
<1>4. x \in 0 .. PRIME - 1 /\ Congruent(value * pop, x)
  BY <1>2, Division, ModCongruent
<1> HIDE DEF x
<1>5. y \in Nat /\ y < UINT
  BY <1>1, <1>4
<1>6. rabinkarp_remove(h, value, pop) = y % PRIME
  BY <1>3, <1>5, Unwrapped DEF rabinkarp_remove, x
<1> DEFINE r == y % PRIME
<1>7. r \in 0 .. PRIME - 1 /\ Congruent(y, r)
  BY <1>5, Division, ModCongruent
<1>8. Congruent(h, value * pop + r)
  <2> HIDE DEF r, y
  <2>1. PICK k \in Int : value * pop = x + k * PRIME
    BY <1>4 DEF Congruent
  <2>2. PICK j \in Int : y = r + j * PRIME
    BY <1>7 DEF Congruent
  <2>3. h = y - PRIME + x
    BY <1>1, <1>4 DEF y
  <2>4. /\ x = value * pop - k * PRIME /\ x \in Int /\ value * pop \in Int /\ k * PRIME \in Int
        /\ r \in Int /\ j * PRIME \in Int /\ PRIME \in Int
    BY <1>1, <1>2, <1>4, <1>7, <2>1
  <2>5. h = value * pop + r + (j * PRIME - PRIME - k * PRIME)
    BY <2>2, <2>3, <2>4
  <2>6. j * PRIME - PRIME - k * PRIME = (j - 1 - k) * PRIME /\ j - 1 - k \in Int
    BY <1>1
  <2> QED
    BY <2>5, <2>6 DEF Congruent
<1> QED
  BY <1>6, <1>7, <1>8 DEF Hash

-----------------------------------------------------------------------------
\* The hashes of the first bytes of the window of src at start.
Prefix(start) == CHOOSE f : Prefixed(f, src, start, hashbytes)

\* What one byte more makes of the hash of n bytes of the window at start.
LEMMA PrefixSteps ==
  ASSUME src \in Files, NEW start \in Nat
  PROVE  /\ Prefix(start) \in [0 .. hashbytes -> Hash]
         /\ Prefix(start)[0] = 0
         /\ \A n \in 0 .. hashbytes - 1 :
              start + n < src.size =>
                Prefix(start)[n + 1] = rabinkarp_add(Prefix(start)[n], src.memory[start + n])
         /\ WindowHash(src, start) = Prefix(start)[hashbytes]
<1> DEFINE f == Prefix(start)
<1>1. hashbytes \in Nat
  BY HashAssumption
<1>2. Prefixed(f, src, start, hashbytes)
  BY <1>1, PrefixesExist DEF Prefix
<1>3. f \in [0 .. hashbytes -> Hash]
  BY <1>1, <1>2, PrefixesType
<1>4. WindowHash(src, start) = f[hashbytes]
  BY DEF WindowHash, Prefix, Prefixed
<1> HIDE DEF f
<1>5. ASSUME NEW n \in 0 .. hashbytes
      PROVE  f[n] = IF n = 0 THEN 0
                    ELSE IF start + n - 1 < src.size
                    THEN rabinkarp_add(f[n - 1], src.memory[start + n - 1])
                    ELSE f[n - 1]
  BY <1>2 DEF Prefixed
<1>6. f[0] = 0
  BY <1>1, <1>5
<1>7. ASSUME NEW n \in 0 .. hashbytes - 1, start + n < src.size
      PROVE  f[n + 1] = rabinkarp_add(f[n], src.memory[start + n])
  <2>1. /\ n + 1 \in 0 .. hashbytes /\ n + 1 # 0
        /\ (n + 1) - 1 = n /\ start + (n + 1) - 1 = start + n
    BY <1>1
  <2> QED
    BY <1>5, <1>7, <2>1
<1> QED
  BY <1>3, <1>4, <1>6, <1>7 DEF f

\* pop times the first of n + 1 bytes is its share of their hash.
Removes(pop, n) ==
  \A start \in Nat :
    start + n < src.size =>
      Congruent(Prefix(start)[n + 1],
                src.memory[start] * pop + Prefix(start + 1)[n])

\* popvalue removes the first byte of the bytes counted so far; the hash is
\* first that of the bytes of src counted so far, then that of the window.
HashInv ==
  /\ popvalue \in 0 .. PRIME
  /\ pc = "popvalue" => srcptr_new \in 0 .. hashbytes - 1 /\ Removes(popvalue, srcptr_new)
  /\ BeforeBacktrack /\ pc # "popvalue" => Removes(popvalue, hashbytes - 1)
  /\ pc \in {"popvalue", "prelude"} => srcptr = 0
  /\ pc = "popvalue" => hash = 0
  /\ pc = "prelude" => srcptr_new \in 0 .. hashbytes /\ hash = Prefix(0)[srcptr_new]
  /\ pc \in {"loop", "roll"} /\ srcptr + hashbytes <= src.size =>
       hash = Prefix(srcptr)[hashbytes]

\* A byte of a file.
LEMMA ByteInside ==
  ASSUME NEW file \in Files, NEW i \in Nat, i < file.size
  PROVE  file.memory[i] \in Byte
BY FileBytes

\* One byte's share is the byte.
LEMMA RemovesOne ==
  ASSUME src \in Files
  PROVE  Removes(1, 0)
<1> SUFFICES ASSUME NEW start \in Nat, start + 0 < src.size
             PROVE  Congruent(Prefix(start)[0 + 1],
                              src.memory[start] * 1 + Prefix(start + 1)[0])
  BY DEF Removes
<1> DEFINE b == src.memory[start]
<1>0. b \in Byte
  <2>1. start < src.size
    OBVIOUS
  <2> QED
    BY <2>1, ByteInside
<1> HIDE DEF b
<1>1. /\ b \in Byte /\ b \in Nat /\ BASE \in Nat /\ PRIME \in Nat \ {0}
      /\ hashbytes \in Nat \ {0} /\ 0 \in Hash
  BY <1>0, FileAssumption, HashAssumption DEF Hash
<1>2. Prefix(start)[0 + 1] = rabinkarp_add(Prefix(start)[0], src.memory[start + 0])
  BY <1>1, PrefixSteps
<1>3. start + 0 = start /\ 0 + 1 = 1 /\ start + 1 \in Nat
  OBVIOUS
<1>4. Prefix(start)[0] = 0 /\ Prefix(start + 1)[0] = 0
  BY <1>3, PrefixSteps
<1>5. Prefix(start)[1] = (0 * BASE + b) % PRIME
  BY <1>1, <1>2, <1>3, <1>4, AddIs DEF b
<1>6. 0 * BASE + b = b /\ b * 1 + 0 = b
  BY <1>1
<1>7. Congruent(b % PRIME, b)
  BY <1>1, ModCongruent
<1> QED
  BY <1>3, <1>4, <1>5, <1>6, <1>7 DEF b

\* A turn of rabinkarp_calculate_popvalue goes from n bytes to one more.
LEMMA RemovesMore ==
  ASSUME src \in Files, NEW pop \in 0 .. PRIME, NEW n \in 0 .. hashbytes - 2,
         Removes(pop, n)
  PROVE  /\ rabinkarp_popvalue_step(pop) \in 0 .. PRIME
         /\ Removes(rabinkarp_popvalue_step(pop), n + 1)
<1> DEFINE pop1 == rabinkarp_popvalue_step(pop)
<1>1. /\ BASE \in Nat /\ PRIME \in Nat \ {0} /\ UINT \in Nat /\ hashbytes \in Nat
      /\ PRIME * BASE < UINT /\ pop \in Nat /\ pop <= PRIME /\ n \in Nat
  BY HashAssumption, WordAssumption
<1>2. pop1 = (pop * BASE) % PRIME /\ pop * BASE \in Nat
  <2>1. pop * BASE <= PRIME * BASE /\ pop * BASE \in Nat /\ PRIME * BASE \in Nat
    BY <1>1
  <2>2. pop * BASE < UINT
    BY <1>1, <2>1
  <2> QED
    BY <2>1, <2>2, Unwrapped DEF rabinkarp_popvalue_step
<1>3. pop1 \in 0 .. PRIME - 1 /\ Congruent(pop * BASE, pop1)
  BY <1>2, Division, ModCongruent
<1> HIDE DEF pop1
<1>4. ASSUME NEW start \in Nat, start + (n + 1) < src.size
      PROVE  Congruent(Prefix(start)[(n + 1) + 1],
                       src.memory[start] * pop1 + Prefix(start + 1)[n + 1])
  <2> DEFINE b == src.memory[start]
             c == src.memory[start + (n + 1)]
             h == Prefix(start)[n + 1]
             g == Prefix(start + 1)[n]
             h1 == Prefix(start)[(n + 1) + 1]
             g1 == Prefix(start + 1)[n + 1]
  <2>1. src.size \in Nat /\ start < src.size /\ start + n < src.size
    BY <1>1, <1>4, FileBytes
  <2>2. b \in Byte /\ c \in Byte /\ b \in Nat /\ c \in Nat
    <3>1. b \in Byte
      BY <2>1, ByteInside
    <3>2. c \in Byte
      <4>1. start + (n + 1) \in Nat
        BY <1>1
      <4> QED
        BY <1>4, <4>1, ByteInside
    <3> QED
      BY <3>1, <3>2, FileAssumption
  <2>3. /\ n \in 0 .. hashbytes - 1 /\ n + 1 \in 0 .. hashbytes - 1
        /\ n \in 0 .. hashbytes /\ n + 1 \in 0 .. hashbytes
        /\ start + 1 \in Nat /\ (start + 1) + n = start + (n + 1)
    BY <1>1
  <2>4. h \in Hash /\ g \in Hash
    BY <2>3, PrefixSteps
  <2>5. h1 = rabinkarp_add(h, c)
    BY <1>4, <2>3, PrefixSteps
  <2>6. g1 = rabinkarp_add(g, c)
    BY <1>4, <2>3, PrefixSteps
  <2>7. Congruent(h, b * pop + g)
    BY <2>1 DEF Removes
  <2>8. /\ h1 = (h * BASE + c) % PRIME
        /\ g1 = (g * BASE + c) % PRIME
    BY <2>2, <2>4, <2>5, <2>6, AddIs
  <2> HIDE DEF b, c, h, g, h1, g1
  <2>9. h \in Int /\ g \in Int /\ b \in Int /\ c \in Int /\ pop1 \in Int
    BY <1>1, <1>3, <2>2, <2>4 DEF Hash
  <2>10. PICK k1 \in Int : h = b * pop + g + k1 * PRIME
    BY <2>7 DEF Congruent
  <2>11. PICK k2 \in Int : h1 = h * BASE + c + k2 * PRIME
    <3>1. h * BASE + c \in Int
      BY <1>1, <2>9
    <3> QED
      BY <2>8, <3>1, ModCongruent DEF Congruent
  <2>12. PICK k3 \in Int : g * BASE + c = g1 + k3 * PRIME
    <3>1. g * BASE + c \in Int
      BY <1>1, <2>9
    <3> QED
      BY <2>8, <3>1, ModCongruent DEF Congruent
  <2>13. PICK k4 \in Int : pop * BASE = pop1 + k4 * PRIME
    BY <1>3 DEF Congruent
  <2>14. g1 \in Int
    <3>1. g * BASE + c \in Int
      BY <1>1, <2>9
    <3> QED
      BY <2>8, <3>1, ModCongruent
  <2>15. h1 = b * pop1 + g1 + (b * k4 + k1 * BASE + k2 + k3) * PRIME
    <3>1. h * BASE = b * (pop * BASE) + g * BASE + (k1 * BASE) * PRIME
      <4>1. h * BASE = (b * pop + g + k1 * PRIME) * BASE
        BY <2>10
      <4>2. (b * pop + g + k1 * PRIME) * BASE
              = b * (pop * BASE) + g * BASE + (k1 * BASE) * PRIME
        BY <1>1, <2>9
      <4> QED
        BY <4>1, <4>2
    <3>2. b * (pop * BASE) = b * pop1 + (b * k4) * PRIME
      <4>1. b * (pop * BASE) = b * (pop1 + k4 * PRIME)
        BY <2>13
      <4>2. b * (pop1 + k4 * PRIME) = b * pop1 + (b * k4) * PRIME
        BY <1>1, <2>9
      <4> QED
        BY <4>1, <4>2
    <3> DEFINE u == b * pop1
               v == (b * k4) * PRIME
               w == (k1 * BASE) * PRIME
               p2 == k2 * PRIME
               p3 == k3 * PRIME
               hb == h * BASE
               gb == g * BASE
    <3>3. /\ u \in Int /\ v \in Int /\ w \in Int /\ p2 \in Int /\ p3 \in Int
          /\ gb \in Int /\ hb \in Int
      BY <1>1, <2>9
    <3>4. hb = u + v + gb + w
      BY <3>1, <3>2
    <3>5. h1 = u + g1 + (v + w + p2 + p3)
      <4>1. h1 = hb + c + p2 /\ gb + c = g1 + p3
        BY <2>11, <2>12
      <4> HIDE DEF u, v, w, p2, p3, hb, gb
      <4> QED
        BY <2>9, <2>14, <3>3, <3>4, <4>1
    <3>6. v + w + p2 + p3 = (b * k4 + k1 * BASE + k2 + k3) * PRIME
      BY <1>1, <2>9
    <3> QED
      BY <3>5, <3>6
  <2>16. b * k4 + k1 * BASE + k2 + k3 \in Int
    BY <1>1, <2>9
  <2>17. Congruent(h1, b * pop1 + g1)
    BY <2>15, <2>16 DEF Congruent
  <2> QED
    BY <2>17 DEF h1, b, g1
<1>5. Removes(pop1, n + 1)
  BY <1>4 DEF Removes
<1> QED
  BY <1>1, <1>3, <1>5 DEF pop1

-----------------------------------------------------------------------------
\* Nothing is hashed at the start.
LEMMA InitHash == Init => HashInv
<1> SUFFICES ASSUME Init PROVE HashInv
  OBVIOUS
<1>1. src \in Files /\ pc = "popvalue" /\ popvalue = 1 /\ srcptr_new = 0 /\ srcptr = 0 /\ hash = 0
  BY DEF Init
<1>2. 1 \in 0 .. PRIME /\ 0 \in 0 .. hashbytes - 1
  BY HashAssumption
<1>3. Removes(1, 0)
  BY <1>1, RemovesOne
<1> QED
  BY <1>1, <1>2, <1>3 DEF HashInv

\* A turn of rabinkarp_calculate_popvalue.
LEMMA PopvalueKeepsHash ==
  ASSUME Inv, HashInv, Popvalue
  PROVE  HashInv'
<1>1. /\ src \in Files /\ src' = src /\ pc = "popvalue"
      /\ srcptr' = srcptr /\ hash' = hash /\ srcptr = 0 /\ hash = 0
      /\ popvalue \in 0 .. PRIME
      /\ srcptr_new \in 0 .. hashbytes - 1 /\ Removes(popvalue, srcptr_new)
      /\ hashbytes \in Nat \ {0}
  BY HashAssumption DEF Inv, TypeOK, HunkListTypeOK, Popvalue, HashInv
<1>2. CASE srcptr_new < hashbytes - 1
  <2>1. /\ popvalue' = rabinkarp_popvalue_step(popvalue)
        /\ srcptr_new' = srcptr_new + 1 /\ pc' = "popvalue"
    BY <1>1, <1>2 DEF Popvalue
  <2>2. srcptr_new \in 0 .. hashbytes - 2
    BY <1>1, <1>2
  <2>3. /\ popvalue' \in 0 .. PRIME
        /\ Removes(popvalue', srcptr_new')
    BY <1>1, <2>1, <2>2, RemovesMore
  <2>4. srcptr_new' \in 0 .. hashbytes - 1
    BY <1>1, <2>1, <2>2
  <2> QED
    BY <1>1, <2>1, <2>3, <2>4 DEF HashInv, Removes, Prefix
<1>3. CASE ~(srcptr_new < hashbytes - 1)
  <2>1. /\ popvalue' = popvalue /\ srcptr_new' = 0 /\ pc' = "prelude"
    BY <1>1, <1>3 DEF Popvalue
  <2>2. srcptr_new = hashbytes - 1
    BY <1>1, <1>3
  <2>3. Removes(popvalue, hashbytes - 1)
    BY <1>1, <2>2
  <2>4. Prefix(0)[0] = 0 /\ 0 \in 0 .. hashbytes
    BY <1>1, PrefixSteps
  <2> QED
    BY <1>1, <2>1, <2>3, <2>4 DEF HashInv, Removes, Prefix
<1> QED
  BY <1>2, <1>3

\* A byte of the first window is added, or the first window is complete.
LEMMA PreludeKeepsHash ==
  ASSUME Inv, HashInv, Prelude
  PROVE  HashInv'
<1>1. /\ src \in Files /\ src' = src /\ pc = "prelude"
      /\ srcptr' = srcptr /\ srcptr = 0 /\ popvalue' = popvalue
      /\ popvalue \in 0 .. PRIME
      /\ srcptr_new \in 0 .. hashbytes /\ hash = Prefix(0)[srcptr_new]
      /\ Removes(popvalue, hashbytes - 1)
      /\ hashbytes \in Nat \ {0} /\ src.size \in Nat
  BY HashAssumption, FileBytes
  DEF Inv, TypeOK, HunkListTypeOK, Prelude, HashInv, BeforeBacktrack
<1>2. Removes(popvalue, hashbytes - 1)'
  BY <1>1 DEF Removes, Prefix
<1>3. CASE srcptr_new < hashbytes /\ srcptr_new < src.size
  <2>1. /\ hash' = rabinkarp_add(hash, src.memory[srcptr_new])
        /\ srcptr_new' = srcptr_new + 1 /\ pc' = "prelude"
    BY <1>1, <1>3 DEF Prelude
  <2>2. /\ srcptr_new \in 0 .. hashbytes - 1 /\ 0 + srcptr_new = srcptr_new
        /\ srcptr_new + 1 \in 0 .. hashbytes
    BY <1>1, <1>3
  <2>3. Prefix(0)[srcptr_new + 1] = rabinkarp_add(Prefix(0)[srcptr_new], src.memory[0 + srcptr_new])
    BY <1>1, <1>3, <2>2, PrefixSteps
  <2>4. hash' = Prefix(0)[srcptr_new'] /\ srcptr_new' \in 0 .. hashbytes
    BY <1>1, <2>1, <2>2, <2>3
  <2>5. hash' = Prefix(0)'[srcptr_new']
    BY <1>1, <2>4 DEF Prefix
  <2> QED
    BY <1>1, <1>2, <2>1, <2>4, <2>5 DEF HashInv
<1>4. CASE ~(srcptr_new < hashbytes /\ srcptr_new < src.size)
  <2>1. pc' = "loop" /\ hash' = hash
    BY <1>1, <1>4 DEF Prelude
  <2>2. ASSUME srcptr + hashbytes <= src.size PROVE srcptr_new = hashbytes
    BY <1>1, <1>4, <2>2
  <2>3. srcptr' + hashbytes <= src'.size => hash' = Prefix(srcptr)[hashbytes]
    BY <1>1, <2>1, <2>2
  <2>4. Prefix(srcptr)' = Prefix(srcptr)
    BY <1>1 DEF Prefix
  <2> QED
    BY <1>1, <1>2, <2>1, <2>3, <2>4 DEF HashInv
<1> QED
  BY <1>3, <1>4

\* The hash rolls with srcptr: the byte that leaves the window is removed and
\* the one that enters it is added.
LEMMA RollKeepsHash ==
  ASSUME Inv, HashInv, Roll
  PROVE  HashInv'
<1>1. /\ src \in Files /\ src' = src /\ pc = "roll" /\ pc' = "roll"
      /\ srcptr \in Nat /\ srcptr' = srcptr + 1 /\ popvalue' = popvalue
      /\ popvalue \in 0 .. PRIME
      /\ hash \in Hash
      /\ Removes(popvalue, hashbytes - 1)
      /\ hashbytes \in Nat \ {0} /\ src.size \in Nat
      /\ srcptr + hashbytes <= src.size => hash = Prefix(srcptr)[hashbytes]
  BY HashAssumption, FileBytes
  DEF Inv, TypeOK, HunkListTypeOK, Roll, HashInv, BeforeBacktrack
<1>2. Removes(popvalue, hashbytes - 1)'
  BY <1>1 DEF Removes, Prefix
<1>3. ASSUME srcptr + 1 + hashbytes <= src.size
      PROVE  hash' = Prefix(srcptr + 1)[hashbytes]
  <2> DEFINE old == src.memory[srcptr]
             new == src.memory[srcptr + hashbytes]
             g == Prefix(srcptr + 1)[hashbytes - 1]
             removed == rabinkarp_remove(hash, old, popvalue)
  <2>1. /\ srcptr + hashbytes < src.size /\ srcptr < src.size
        /\ srcptr + (hashbytes - 1) < src.size
        /\ srcptr + hashbytes \in Nat /\ srcptr + 1 \in Nat
        /\ srcptr + hashbytes >= hashbytes
        /\ hashbytes - 1 \in 0 .. hashbytes - 1 /\ hashbytes - 1 \in 0 .. hashbytes
        /\ (hashbytes - 1) + 1 = hashbytes
        /\ (srcptr + 1) + (hashbytes - 1) = srcptr + hashbytes
    BY <1>1, <1>3
  <2>2. old \in Byte
    BY <1>1, <2>1, ByteInside
  <2>3. hash = Prefix(srcptr)[hashbytes]
    BY <1>1, <2>1
  <2>4. Congruent(hash, old * popvalue + g)
    <3>1. Congruent(Prefix(srcptr)[(hashbytes - 1) + 1], old * popvalue + g)
      BY <1>1, <2>1 DEF Removes
    <3> QED
      BY <2>1, <2>3, <3>1
  <2>5. g \in Hash
    BY <1>1, <2>1, PrefixSteps
  <2>6. removed \in Hash /\ Congruent(hash, old * popvalue + removed)
    BY <1>1, <2>2, RemoveIs
  <2>7. Prefix(srcptr + 1)[(hashbytes - 1) + 1]
          = rabinkarp_add(Prefix(srcptr + 1)[hashbytes - 1],
                          src.memory[(srcptr + 1) + (hashbytes - 1)])
    <3>1. (srcptr + 1) + (hashbytes - 1) < src.size
      BY <2>1
    <3> QED
      BY <1>1, <2>1, <3>1, PrefixSteps
  <2>8. Prefix(srcptr + 1)[hashbytes] = rabinkarp_add(g, new)
    BY <2>1, <2>7
  <2>9. hash' = rabinkarp_add(removed, new)
    BY <2>1 DEF Roll, rabinkarp_roll
  <2> HIDE DEF g, removed, old, new
  <2>10. removed = g
    <3>1. PICK k \in Int : hash = old * popvalue + g + k * PRIME
      BY <2>4 DEF Congruent
    <3>2. PICK j \in Int : hash = old * popvalue + removed + j * PRIME
      BY <2>6 DEF Congruent
    <3>3. /\ PRIME \in Int /\ old * popvalue \in Int /\ k * PRIME \in Int /\ j * PRIME \in Int
          /\ g \in Int /\ removed \in Int
      <4>1. old \in Nat /\ popvalue \in Nat /\ PRIME \in Nat
        BY <1>1, <2>2, FileAssumption, HashAssumption
      <4> QED
        BY <2>5, <2>6, <4>1 DEF Hash
    <3>4. removed = g + (k * PRIME - j * PRIME)
      BY <3>1, <3>2, <3>3
    <3>5. k * PRIME - j * PRIME = (k - j) * PRIME /\ k - j \in Int
      BY <3>3
    <3>6. Congruent(removed, g)
      BY <3>4, <3>5 DEF Congruent
    <3> QED
      BY <2>5, <2>6, <3>6, ModUnique DEF Hash
  <2> QED
    BY <2>8, <2>9, <2>10
<1>4. Prefix(srcptr)' = Prefix(srcptr + 1)
  BY <1>1 DEF Prefix
<1>5. srcptr' + hashbytes <= src'.size => hash' = Prefix(srcptr)'[hashbytes]
  BY <1>1, <1>3, <1>4
<1> QED
  BY <1>1, <1>2, <1>5 DEF HashInv

\* Every other step leaves the hash where srcptr is.
LEMMA OtherStepKeepsHash ==
  ASSUME HashInv, UNCHANGED <<src, popvalue, hash, srcptr>>,
         \/ pc \in {"loop", "roll"} /\ pc' \in {"loop", "roll"}
         \/ pc' \notin {"popvalue", "prelude", "loop", "roll"}
         \/ UNCHANGED <<pc, srcptr_new>>
  PROVE  HashInv'
BY DEF HashInv, Removes, Prefix, BeforeBacktrack

\* Every step keeps the hash where srcptr is.
LEMMA NextKeepsHash == Inv /\ HashInv /\ [Next]_vars => HashInv'
<1> SUFFICES ASSUME Inv, HashInv, [Next]_vars PROVE HashInv'
  OBVIOUS
<1>1. CASE Popvalue
  BY <1>1, PopvalueKeepsHash
<1>2. CASE Prelude
  BY <1>2, PreludeKeepsHash
<1>3. CASE Roll
  BY <1>3, RollKeepsHash
<1>4. CASE \/ SyncMatch \/ SyncLost \/ NearFound \/ NearMissed
           \/ FarGivenUp \/ FarTooClose \/ FarMatch \/ FarMissed
  <2>1. UNCHANGED <<src, popvalue, hash, srcptr>> /\ pc = "loop" /\ pc' = "roll"
    BY <1>4 DEF SyncMatch, SyncLost, NearFound, NearMissed, FarGivenUp, FarTooClose,
                FarMatch, FarMissed, Unmoved, MoveTo, InLoop, InFar
  <2> QED
    BY <2>1, OtherStepKeepsHash
<1>5. CASE hi_hash_generate \/ RollDone
  <2>1. UNCHANGED <<src, popvalue, hash, srcptr>> /\ pc \in {"loop", "roll"} /\ pc' \in {"loop", "roll"}
    BY <1>5 DEF hi_hash_generate, InFar, InLoop, RollDone
  <2> QED
    BY <2>1, OtherStepKeepsHash
<1>6. CASE NearFault \/ NoDiff \/ EofSync \/ EofUnsynced
  <2>1. /\ UNCHANGED <<src, popvalue, hash, srcptr>>
        /\ pc' \in {"fault", "failed", "backtrack"}
    BY <1>6 DEF NearFault, NoDiff, EofSync, EofUnsynced, ToBacktrack, cursor
  <2> QED
    BY <2>1, OtherStepKeepsHash
<1>7. CASE backtrack_hunks /\ UNCHANGED cursor
  <2>1. UNCHANGED <<src, popvalue, hash, srcptr>> /\ pc' \in {"backtrack", "tree", "done", "fault"}
    BY <1>7 DEF backtrack_hunks, BacktrackHunk, BacktrackFault, BacktrackSkip, BacktrackDone,
                TreeCoalesce, TreeInsert, TreeDone, AtIndexed, AtTree, cursor
  <2> QED
    BY <2>1, OtherStepKeepsHash
<1>8. CASE Terminated \/ UNCHANGED vars
  <2>1. UNCHANGED <<src, popvalue, hash, srcptr, pc, srcptr_new>>
    BY <1>8 DEF Terminated, vars, cursor
  <2> QED
    BY <2>1, OtherStepKeepsHash
<1> QED
  BY <1>1, <1>2, <1>3, <1>4, <1>5, <1>6, <1>7, <1>8 DEF Next, Loop

\* Wherever the walk is, the rolled hash is the one hi_hash_generate would file
\* the next window of src under, whatever the window, the prime and the base:
\* far mode looks up the right key.
THEOREM HashFollowsWalk == Spec => []HashTracksWindow
<1>1. Init => Inv /\ HashInv
  BY InitInv, InitHash
<1>2. Inv /\ HashInv /\ [Next]_vars => Inv' /\ HashInv'
  BY NextKeepsInv, NextKeepsHash
<1>3. Inv /\ HashInv => HashTracksWindow
  <2> SUFFICES ASSUME Inv, HashInv, Walking, srcptr + hashbytes <= src.size
               PROVE  hash = WindowHash(src, srcptr)
    BY DEF HashTracksWindow
  <2>1. src \in Files /\ srcptr \in Nat
    BY DEF Inv, TypeOK, HunkListTypeOK
  <2>2. hash = Prefix(srcptr)[hashbytes]
    BY DEF HashInv, Walking
  <2> QED
    BY <2>1, <2>2, PrefixSteps
<1> QED
  BY <1>1, <1>2, <1>3, PTL DEF Spec

-----------------------------------------------------------------------------
\* The session: RKDiff until the pagers open, from then on the pagers.
Browsing == pc \in {"redraw", "key", "next", "quit"}

\* A pointer to a hunk of the diff, 0 for NULL.
Pointer == 0 .. Len(working_hunks)

\* Offsets that are each in its file or just behind its end.
OffsetsInFiles ==
  {places \in [Side -> Nat] : \A pager \in Side : places[pager] <= Size(pager)}

Said == {"none", "Reached EOF", "Reached BOF"}

Views == [cached : Pointer, offset : OffsetsInFiles, error : Said]

PagerTypeOK ==
  /\ cached \in Pointer
  /\ offset \in OffsetsInFiles
  /\ focused \in Side
  /\ error \in Said
  /\ walk \in [left : Nat, forwards : BOOLEAN, bigdiff : BOOLEAN,
               hunk : Pointer, hunk2 : Pointer]

SessionInv ==
  /\ HunkListTypeOK
  /\ PagerTypeOK
  /\ ~Browsing => Inv /\ PagerInit

-----------------------------------------------------------------------------
LEMMA Sizes ==
  ASSUME HunkListTypeOK, NEW pager \in Side
  PROVE  Size(pager) \in 1 .. MaxSize
<1>1. src.size \in 1 .. MaxSize /\ dst.size \in 1 .. MaxSize
  BY DEF HunkListTypeOK, Files
<1> QED
  BY <1>1 DEF Size, Side

\* A lookup yields a hunk of the diff or none, whatever the shape of the tree.
LEMMA LookupType ==
  ASSUME HunkListTypeOK, NEW side, NEW pos
  PROVE  g_tree_lookup(side, pos) \in Pointer
<1> DEFINE order == [n \in DOMAIN hunks |->
                       CompareSearch(side, pos, working_hunks[hunks[n].key])]
           found == {n \in DOMAIN hunks : order[n] = 0 /\ Visits(shape, order, n)}
<1>1. g_tree_lookup(side, pos) = IF found = {} THEN 0 ELSE hunks[CHOOSE n \in found : TRUE].value
  BY DEF g_tree_lookup
<1>2. found \subseteq DOMAIN hunks
  OBVIOUS
<1>3. Len(working_hunks) \in Nat
  BY LenProperties DEF HunkListTypeOK
<1>4. \A n \in DOMAIN hunks : hunks[n].value \in 1 .. Len(working_hunks)
  <2> DEFINE Node == [key : 1 .. Len(working_hunks), value : 1 .. Len(working_hunks)]
  <2>1. hunks \in Seq(Node)
    BY DEF HunkListTypeOK
  <2> HIDE DEF Node
  <2>2. \A n \in DOMAIN hunks : hunks[n] \in Node
    BY <2>1, ElementOfSeq, LenProperties
  <2> QED
    BY <2>2 DEF Node
<1> HIDE DEF found
<1>5. CASE found = {}
  BY <1>1, <1>3, <1>5 DEF Pointer
<1>6. CASE found # {}
  <2>1. PICK n : n = (CHOOSE m \in found : TRUE) /\ n \in found
    BY <1>6
  <2>2. g_tree_lookup(side, pos) = hunks[n].value
    BY <1>1, <1>6, <2>1
  <2> QED
    BY <1>2, <1>3, <1>4, <2>1, <2>2 DEF Pointer
<1> QED
  BY <1>5, <1>6

LEMMA GetHunkType ==
  ASSUME HunkListTypeOK, NEW last \in Pointer, NEW side, NEW pos
  PROVE  /\ hi_diff_get_hunk(last, side, pos) \in Pointer
         /\ LastHunk(last, side, pos) \in Pointer
<1>1. hi_diff_get_hunk(last, side, pos) \in Pointer
  BY LookupType DEF hi_diff_get_hunk
<1> QED
  BY <1>1 DEF LastHunk

LEMMA HunkFields ==
  ASSUME HunkListTypeOK, NEW hunk \in Pointer, hunk # 0, NEW pager
  PROVE  /\ working_hunks[hunk] \in Hunk
         /\ From(pager, working_hunks[hunk]) \in Nat
         /\ To(pager, working_hunks[hunk]) \in Nat
<1>1. hunk \in 1 .. Len(working_hunks)
  BY LenProperties DEF HunkListTypeOK, Pointer
<1>2. working_hunks[hunk] \in Hunk
  BY <1>1, ElementOfSeq DEF HunkListTypeOK
<1> QED
  BY <1>2 DEF Hunk, From, To

\* A link ends in the file of the other pager or just behind its end.
LEMMA LinkInFile ==
  ASSUME HunkListTypeOK, NEW pager \in Side, NEW o \in Nat, NEW hunk \in Hunk
  PROVE  LinkedOffset(pager, o, hunk) \in 0 .. Size(Other(pager))
<1> DEFINE other == Other(pager)
           into == o - From(pager, hunk)
           span == Span(pager, hunk)
           n == From(other, hunk) * span + into * Span(other, hunk)
           linked == IF hunk.type # "DIFF" THEN From(other, hunk) + into
                     ELSE IF span = 0 THEN From(other, hunk)
                     ELSE Truncated(n, span)
<1>1. other \in Side
  BY DEF Other, Side
<1>2. Size(other) \in Nat
  BY <1>1, Sizes, FileAssumption
<1>3. /\ From(pager, hunk) \in Nat /\ To(pager, hunk) \in Nat
      /\ From(other, hunk) \in Nat /\ To(other, hunk) \in Nat
  BY DEF Hunk, From, To
<1>4. into \in Int /\ span \in Int /\ Span(other, hunk) \in Int
  BY <1>3 DEF Span
<1>5. linked \in Int
  <2>1. CASE hunk.type = "DIFF" /\ span # 0
    <3>1. From(other, hunk) * span \in Int /\ into * Span(other, hunk) \in Int
      BY <1>3, <1>4
    <3>2. n \in Int
      BY <3>1
    <3>3. Abs(n) \in Nat /\ Abs(span) \in Nat \ {0}
      <4> HIDE DEF n, span
      <4> QED
        BY <1>4, <2>1, <3>2 DEF Abs
    <3>4. Abs(n) \div Abs(span) \in Int
      BY <3>3
    <3>5. Truncated(n, span) \in Int
      BY <3>4 DEF Truncated
    <3> QED
      BY <2>1, <3>5
  <2> QED
    BY <1>3, <1>4, <2>1
<1>6. LinkedOffset(pager, o, hunk) = IF linked < 0 THEN 0
                                     ELSE IF linked >= Size(other) THEN Size(other)
                                     ELSE linked
  BY DEF LinkedOffset
<1> HIDE DEF linked, other
<1>7. LinkedOffset(pager, o, hunk) \in 0 .. Size(other)
  BY <1>2, <1>5, <1>6
<1> QED
  BY <1>7 DEF other

\* set_offset goes to a byte of the file or stays and says why.
LEMMA SetOffsetGoes ==
  ASSUME HunkListTypeOK, NEW pager \in Side, NEW v \in Views, NEW o \in Int
  PROVE  /\ set_offset(v, pager, o) \in Views
         /\ IF o < 0
            THEN set_offset(v, pager, o) = [v EXCEPT !.error = "Reached BOF"]
            ELSE IF o >= Size(pager)
            THEN set_offset(v, pager, o) = [v EXCEPT !.error = "Reached EOF"]
            ELSE /\ set_offset(v, pager, o).offset[pager] = o
                 /\ set_offset(v, pager, o).error = v.error
<1>1. /\ v.cached \in Pointer /\ v.offset \in OffsetsInFiles /\ v.error \in Said
      /\ v = [cached |-> v.cached, offset |-> v.offset, error |-> v.error]
  BY DEF Views
<1>2. Size(pager) \in Nat
  BY Sizes, FileAssumption
<1>3. CASE o < 0
  <2>1. set_offset(v, pager, o) = [v EXCEPT !.error = "Reached BOF"]
    BY <1>3 DEF set_offset
  <2>2. [v EXCEPT !.error = "Reached BOF"] \in Views
    BY DEF Views, Said
  <2> QED
    BY <1>3, <2>1, <2>2
<1>4. CASE ~(o < 0) /\ o >= Size(pager)
  <2>1. set_offset(v, pager, o) = [v EXCEPT !.error = "Reached EOF"]
    BY <1>4 DEF set_offset
  <2>2. [v EXCEPT !.error = "Reached EOF"] \in Views
    BY DEF Views, Said
  <2> QED
    BY <1>4, <2>1, <2>2
<1>5. CASE o \in Nat /\ o < Size(pager)
  <2>0. ~(o < 0) /\ ~(o >= Size(pager))
    BY <1>2, <1>5
  <2> DEFINE hunk == hi_diff_get_hunk(v.cached, pager, o)
             link == LinkedOffset(pager, o, working_hunks[hunk])
  <2>1. hunk \in Pointer
    BY <1>1, GetHunkType
  <2>2. v.offset \in [Side -> Nat] /\ \A p \in Side : v.offset[p] <= Size(p)
    BY <1>1 DEF OffsetsInFiles
  <2>3. Other(pager) \in Side /\ Other(pager) # pager
    BY DEF Other, Side
  <2>4. CASE hunk = 0
    <3>1. set_offset(v, pager, o) = [v EXCEPT !.offset[pager] = o]
      BY <2>0, <2>4 DEF set_offset
    <3>2. [v.offset EXCEPT ![pager] = o] \in OffsetsInFiles
      BY <1>2, <1>5, <2>2 DEF OffsetsInFiles
    <3>3. [v EXCEPT !.offset[pager] = o]
            = [cached |-> v.cached, offset |-> [v.offset EXCEPT ![pager] = o],
               error |-> v.error]
      BY <1>1
    <3> QED
      BY <1>1, <2>0, <2>2, <3>1, <3>2, <3>3 DEF Views
  <2>5. CASE hunk # 0
    <3> DEFINE places == [[v.offset EXCEPT ![pager] = o] EXCEPT ![Other(pager)] = link]
    <3>1. working_hunks[hunk] \in Hunk
      BY <2>1, <2>5, HunkFields
    <3>2. link \in 0 .. Size(Other(pager))
      BY <1>5, <3>1, LinkInFile
    <3>3. set_offset(v, pager, o)
            = [v EXCEPT !.offset[pager] = o,
                        !.offset[Other(pager)] = link,
                        !.cached = hunk]
      BY <2>0, <2>5 DEF set_offset
    <3> HIDE DEF hunk, link
    <3>4. places \in OffsetsInFiles /\ places[pager] = o
      <4>1. link \in Nat /\ link <= Size(Other(pager))
        BY <3>2
      <4> QED
        BY <1>2, <1>5, <2>2, <2>3, <4>1 DEF OffsetsInFiles
    <3>5. set_offset(v, pager, o)
            = [cached |-> hunk, offset |-> places, error |-> v.error]
      BY <1>1, <3>3
    <3> QED
      BY <1>1, <2>0, <2>1, <3>4, <3>5 DEF Views
  <2> QED
    BY <2>4, <2>5
<1>6. o < 0 \/ (~(o < 0) /\ o >= Size(pager)) \/ (o \in Nat /\ o < Size(pager))
  BY <1>2
<1> QED
  BY <1>3, <1>4, <1>5, <1>6, Zenon

-----------------------------------------------------------------------------
\* last_hunk after the n-th byte of the screen: only bytes of the file are looked up.
AfterByte(before, pager, stride, n) ==
  IF ShownByte(pager, stride, n) < Size(pager)
  THEN LastHunk(before, pager, ShownByte(pager, stride, n)) ELSE before

\* f gives last_hunk after n of the bytes of a pager have been drawn.
DrawnBytes(f, last, pager, stride, N) ==
  f = [n \in 0 .. N |-> IF n = 0 THEN last
                        ELSE AfterByte(f[n - 1], pager, stride, n - 1)]

\* The recursive function of Drawn exists.
LEMMA DrawnExists ==
  ASSUME NEW last, NEW pager, NEW stride, NEW N \in Nat
  PROVE  \E f : DrawnBytes(f, last, pager, stride, N)
<1> DEFINE Has(m) == \E f : DrawnBytes(f, last, pager, stride, m)
           T == {m \in Nat : ~Has(m)}
<1>1. Has(0)
  <2> DEFINE f == [n \in 0 .. 0 |-> last]
  <2>1. DrawnBytes(f, last, pager, stride, 0)
    BY DEF DrawnBytes
  <2> QED
    BY <2>1
<1>2. ASSUME NEW m \in Nat, Has(m) PROVE Has(m + 1)
  <2>1. PICK f : DrawnBytes(f, last, pager, stride, m)
    BY <1>2
  <2> DEFINE next == AfterByte(f[m], pager, stride, (m + 1) - 1)
             g == [n \in 0 .. m + 1 |-> IF n = m + 1 THEN next ELSE f[n]]
             Value(t, n) == IF n = 0 THEN last
                            ELSE AfterByte(t[n - 1], pager, stride, n - 1)
  <2>2. f = [n \in 0 .. m |-> Value(f, n)]
    BY <2>1 DEF DrawnBytes
  <2> HIDE DEF next
  <2>3. ASSUME NEW n \in 0 .. m + 1 PROVE g[n] = Value(g, n)
    <3>1. CASE n = m + 1
      <4>1. n - 1 = m /\ n # 0 /\ g[n - 1] = f[m] /\ g[n] = next
        BY <3>1
      <4> QED
        BY <3>1, <4>1 DEF next
    <3>2. CASE n # m + 1
      <4>1. n \in 0 .. m /\ g[n] = f[n] /\ (n # 0 => n - 1 \in 0 .. m /\ g[n - 1] = f[n - 1])
        BY <3>2
      <4>2. f[n] = Value(f, n)
        BY <2>2, <4>1
      <4> QED
        BY <4>1, <4>2
    <3> QED
      BY <3>1, <3>2
  <2>4. g = [n \in 0 .. m + 1 |-> g[n]]
    OBVIOUS
  <2> HIDE DEF g
  <2>5. g = [n \in 0 .. m + 1 |-> Value(g, n)]
    BY <2>3, <2>4
  <2>6. DrawnBytes(g, last, pager, stride, m + 1)
    BY <2>5 DEF DrawnBytes
  <2> QED
    BY <2>6
<1>3. ASSUME N \in T PROVE FALSE
  <2>1. T \in SUBSET Nat /\ T # {}
    BY <1>3
  <2>2. PICK x \in T : \A y \in T : x <= y
    BY <2>1, LeastNatural
  <2> HIDE DEF Has
  <2>3. x \in Nat /\ x # 0
    BY <1>1, <2>2
  <2>4. x - 1 \in Nat /\ (x - 1) + 1 = x /\ ~(x <= x - 1)
    BY <2>3
  <2>5. Has(x - 1)
    BY <2>2, <2>4
  <2>6. Has((x - 1) + 1)
    BY <1>2, <2>4, <2>5
  <2> QED
    BY <2>2, <2>4, <2>6
<1> QED
  BY <1>3

\* Drawing leaves a hunk of the diff in last_hunk, or none.
LEMMA DrawnType ==
  ASSUME HunkListTypeOK, offset \in OffsetsInFiles,
         NEW last \in Pointer, NEW pager \in Side, NEW stride \in Strides
  PROVE  Drawn(last, pager, stride) \in Pointer
<1> DEFINE shown == Rows * RowLength(stride)
           F == CHOOSE f : DrawnBytes(f, last, pager, stride, shown)
<1>1. shown \in Nat
  <2>1. Rows \in Nat /\ stride \in Nat /\ bytes_per_row \in Nat
    BY PagerAssumption
  <2>2. RowLength(stride) \in Nat
    BY <2>1 DEF RowLength
  <2> QED
    BY <2>1, <2>2
<1> HIDE DEF shown
<1>2. DrawnBytes(F, last, pager, stride, shown)
  BY <1>1, DrawnExists
<1>3. Drawn(last, pager, stride) = F[shown]
  BY DEF Drawn, DrawnBytes, AfterByte, shown
<1>4. PICK f : f = F
  OBVIOUS
<1>5. ASSUME NEW n \in 0 .. shown
      PROVE  f[n] = IF n = 0 THEN last
                    ELSE AfterByte(f[n - 1], pager, stride, n - 1)
  BY <1>2, <1>4 DEF DrawnBytes
<1> DEFINE T == {n \in 0 .. shown : f[n] \notin Pointer}
<1>6. ASSUME T # {} PROVE FALSE
  <2>1. T \in SUBSET Nat
    OBVIOUS
  <2>2. PICK x \in T : \A y \in T : x <= y
    BY <1>6, <2>1, LeastNatural
  <2>3. x \in 0 .. shown /\ f[x] \notin Pointer
    BY <2>2
  <2>4. x # 0
    BY <1>5, <2>3
  <2>5. x - 1 \in 0 .. shown /\ ~(x <= x - 1)
    BY <1>1, <2>3, <2>4
  <2>6. f[x - 1] \in Pointer
    BY <2>2, <2>5
  <2>7. f[x] = AfterByte(f[x - 1], pager, stride, x - 1)
    BY <1>5, <2>3, <2>4
  <2> QED
    BY <2>3, <2>6, <2>7, GetHunkType DEF AfterByte
<1>7. shown \in 0 .. shown
  BY <1>1
<1> QED
  BY <1>3, <1>4, <1>6, <1>7

-----------------------------------------------------------------------------
LEMMA InitSession == SessionInit => SessionInv
<1> SUFFICES ASSUME SessionInit PROVE SessionInv
  OBVIOUS
<1>1. Inv /\ PagerInit
  BY InitInv DEF SessionInit
<1>2. HunkListTypeOK
  BY <1>1 DEF Inv, TypeOK
<1>3. 0 \in Pointer
  BY <1>2, LenProperties DEF HunkListTypeOK, Pointer
<1>4. offset \in OffsetsInFiles
  BY <1>1, <1>2, Sizes, FileAssumption DEF PagerInit, OffsetsInFiles
<1>5. PagerTypeOK
  BY <1>1, <1>3, <1>4 DEF PagerInit, PagerTypeOK, Side, Said
<1> QED
  BY <1>1, <1>2, <1>5 DEF SessionInv

LEMMA CalculatePC ==
  ASSUME Calculate
  PROVE  pc \in PC
BY DEF Calculate, Next, Popvalue, Prelude, Loop, SyncMatch, SyncLost, NearFound,
       NearFault, NearMissed, FarGivenUp, FarTooClose, hi_hash_generate, NoDiff, InFar,
       FarMatch, FarMissed, InLoop, Roll, RollDone, EofSync, EofUnsynced, AtEOF,
       backtrack_hunks, BacktrackHunk, BacktrackFault, AtIndexed, BacktrackSkip,
       BacktrackDone, TreeCoalesce, TreeInsert, AtTree, TreeDone, Terminated, PC

LEMMA CalculateKeepsSession ==
  ASSUME SessionInv, Calculate
  PROVE  SessionInv'
<1>1. pc \in PC
  BY CalculatePC
<1>2. Inv /\ PagerInit /\ Inv'
  <2>1. ~Browsing
    BY <1>1 DEF PC, Browsing
  <2>2. Next
    BY DEF Calculate
  <2> QED
    BY <2>1, <2>2, NextKeepsInv DEF SessionInv
<1>3. UNCHANGED screen
  BY DEF Calculate
<1>4. PagerInit'
  BY <1>2, <1>3 DEF PagerInit, screen
<1>5. HunkListTypeOK'
  BY <1>2 DEF Inv, TypeOK
<1>6. Len(working_hunks') \in Nat /\ src'.size \in Nat /\ dst'.size \in Nat
  <2>1. /\ working_hunks' \in Seq(Hunk)
        /\ src'.size \in 1 .. MaxSize /\ dst'.size \in 1 .. MaxSize
    BY <1>5 DEF HunkListTypeOK, Files
  <2> QED
    BY <2>1, LenProperties, FileAssumption
<1>7. 0 \in Pointer' /\ offset' \in OffsetsInFiles'
  BY <1>4, <1>6 DEF PagerInit, Pointer, OffsetsInFiles, Size
<1>8. PagerTypeOK'
  BY <1>4, <1>7 DEF PagerInit, PagerTypeOK, Side, Said
<1> QED
  BY <1>2, <1>4, <1>5, <1>8 DEF SessionInv

\* A step that leaves the diff as it is keeps what its types mean.
LEMMA DiffUnchanged ==
  ASSUME HunkListTypeOK,
         UNCHANGED <<src, dst, working_hunks, list, otherhunk, hunks>>
  PROVE  /\ HunkListTypeOK' /\ Pointer' = Pointer
         /\ OffsetsInFiles' = OffsetsInFiles
         /\ \A pager : Size(pager)' = Size(pager)
BY DEF HunkListTypeOK, Pointer, OffsetsInFiles, Size

LEMMA OpenKeepsSession ==
  ASSUME SessionInv, Open
  PROVE  SessionInv'
<1>1. /\ UNCHANGED <<src, dst, working_hunks, list, otherhunk, hunks>>
      /\ UNCHANGED <<cached, offset, focused, error, walk>>
      /\ pc' = "redraw"
  BY DEF Open, tail
<1>2. HunkListTypeOK' /\ Pointer' = Pointer /\ OffsetsInFiles' = OffsetsInFiles
  BY <1>1, DiffUnchanged DEF SessionInv
<1> QED
  BY <1>1, <1>2 DEF SessionInv, PagerTypeOK, Browsing

-----------------------------------------------------------------------------
LEMMA LookedUpType ==
  ASSUME SessionInv, NEW v \in Views
  PROVE  /\ LookedUp(v) \in Views
         /\ LookedUp(v).offset = v.offset /\ LookedUp(v).error = v.error
         /\ HunkAt(v) \in Pointer
<1>1. v.cached \in Pointer /\ v.offset \in OffsetsInFiles /\ v.error \in Said
  BY DEF Views
<1>2. HunkAt(v) \in Pointer
  BY <1>1, GetHunkType DEF HunkAt, SessionInv
<1>3. LastHunk(v.cached, focused, v.offset[focused]) \in Pointer
  BY <1>1, GetHunkType DEF SessionInv
<1>4. LookedUp(v) = [cached |-> LastHunk(v.cached, focused, v.offset[focused]),
                     offset |-> v.offset, error |-> v.error]
  BY DEF LookedUp, Views
<1> QED
  BY <1>1, <1>2, <1>3, <1>4 DEF Views

LEMMA ViewType ==
  ASSUME SessionInv
  PROVE  /\ view \in Views /\ LookedUp(view) \in Views
         /\ view.offset = offset /\ view.error = error
         /\ LookedUp(view).offset = offset /\ LookedUp(view).error = error
         /\ HunkAt(view) \in Pointer
<1>1. view \in Views /\ view.offset = offset /\ view.error = error
  BY DEF SessionInv, PagerTypeOK, view, Views
<1> QED
  BY <1>1, LookedUpType

LEMMA MovedType ==
  ASSUME SessionInv, NEW hunk \in Pointer, hunk # 0, NEW v \in Views
  PROVE  MovedPast(v, hunk) \in Views
<1>1. /\ From(focused, working_hunks[hunk]) \in Nat
      /\ To(focused, working_hunks[hunk]) \in Nat
  BY HunkFields DEF SessionInv
<1>2. (IF walk.forwards THEN To(focused, working_hunks[hunk]) + 1
       ELSE From(focused, working_hunks[hunk]) - 1) \in Int
  BY <1>1
<1> QED
  BY <1>2, SetOffsetGoes DEF MovedPast, SessionInv, PagerTypeOK

\* What a step of the pagers keeps.
LEMMA BrowseKeeps ==
  ASSUME SessionInv, Browse, NEW v \in Views, Becomes(v),
         focused' \in Side,
         walk' \in [left : Nat, forwards : BOOLEAN, bigdiff : BOOLEAN,
                    hunk : Pointer, hunk2 : Pointer],
         pc' \in {"redraw", "key", "next", "quit"}
  PROVE  SessionInv'
<1>1. UNCHANGED <<src, dst, working_hunks, list, otherhunk, hunks>>
  BY DEF Browse, tail
<1>2. HunkListTypeOK' /\ Pointer' = Pointer /\ OffsetsInFiles' = OffsetsInFiles
  BY <1>1, DiffUnchanged DEF SessionInv
<1>3. cached' \in Pointer /\ offset' \in OffsetsInFiles /\ error' \in Said
  BY DEF Becomes, Views
<1> QED
  BY <1>2, <1>3 DEF SessionInv, PagerTypeOK, Browsing, Side, Said

LEMMA KeyKeepsSession ==
  ASSUME SessionInv, Browse, Key
  PROVE  SessionInv'
<1>1. view \in Views /\ offset[focused] \in Int /\ Size(focused) \in Int
  BY ViewType, Sizes, FileAssumption DEF SessionInv, PagerTypeOK, OffsetsInFiles
<1>2. focused \in Side /\ PagerTypeOK
  BY DEF SessionInv, PagerTypeOK
<1>3. ASSUME NEW o \in Int, Becomes(set_offset(view, focused, o)),
             UNCHANGED <<focused, walk>>, pc' = "redraw"
      PROVE  SessionInv'
  <2>1. set_offset(view, focused, o) \in Views
    BY <1>1, <1>2, SetOffsetGoes DEF SessionInv
  <2> QED
    BY <1>2, <1>3, <2>1, BrowseKeeps DEF PagerTypeOK
<1>4. CASE \E move \in -MaxMove .. MaxMove : relative_move_pager(move)
  <2>1. PICK move \in Int : relative_move_pager(move)
    BY <1>4, PagerAssumption
  <2>2. offset[focused] + move \in Int
    BY <1>1
  <2> QED
    BY <1>3, <2>1, <2>2 DEF relative_move_pager
<1>5. CASE \E o \in -MaxMove .. MaxSize : Goto(o)
  <2>1. PICK o \in Int : Goto(o)
    BY <1>5, PagerAssumption, FileAssumption
  <2>2. (IF o < 0 THEN Size(focused) + o ELSE o) \in Int
    BY <1>1
  <2> QED
    BY <1>3, <2>1, <2>2 DEF Goto
<1>6. Becomes(view) <=> UNCHANGED <<cached, offset, error>>
  BY DEF Becomes, view
<1>7. CASE SwitchPager
  BY <1>1, <1>2, <1>6, <1>7, BrowseKeeps DEF SwitchPager, Other, Side, PagerTypeOK
<1>8. CASE \E times \in -MaxTimes .. MaxTimes : \E bigdiff \in BOOLEAN : HunkKey(times, bigdiff)
  <2>1. PICK times \in -MaxTimes .. MaxTimes : \E bigdiff \in BOOLEAN : HunkKey(times, bigdiff)
    BY <1>8
  <2>2. PICK bigdiff \in BOOLEAN : HunkKey(times, bigdiff)
    BY <2>1
  <2>3. times \in Int
    BY PagerAssumption
  <2>4. (IF times < 0 THEN -times ELSE times) \in Nat
    BY <2>3
  <2>5. 0 \in Pointer
    BY LenProperties DEF SessionInv, HunkListTypeOK, Pointer
  <2>6. walk' \in [left : Nat, forwards : BOOLEAN, bigdiff : BOOLEAN,
                   hunk : Pointer, hunk2 : Pointer]
    BY <2>2, <2>4, <2>5 DEF HunkKey
  <2> QED
    BY <1>1, <1>2, <1>6, <2>2, <2>6, BrowseKeeps DEF HunkKey
<1>9. CASE Quit
  BY <1>1, <1>2, <1>6, <1>9, BrowseKeeps DEF Quit, screen, PagerTypeOK
<1> QED
  BY <1>4, <1>5, <1>7, <1>8, <1>9 DEF Key

LEMMA WalkKeepsSession ==
  ASSUME SessionInv, Browse, move_to_next_diff
  PROVE  SessionInv'
<1>1. /\ view \in Views /\ LookedUp(view) \in Views /\ HunkAt(view) \in Pointer
      /\ focused \in Side /\ 0 \in Pointer
      /\ walk \in [left : Nat, forwards : BOOLEAN, bigdiff : BOOLEAN,
                   hunk : Pointer, hunk2 : Pointer]
  BY ViewType, LenProperties DEF SessionInv, PagerTypeOK, HunkListTypeOK, Pointer
<1>2. CASE NoHunk
  <2>1. Becomes(view) /\ focused' = focused /\ pc' = "next"
    BY <1>2 DEF NoHunk, Becomes, view
  <2>2. walk' = [walk EXCEPT !.left = 0, !.hunk = 0]
    BY <1>2 DEF NoHunk
  <2> QED
    BY <1>1, <2>1, <2>2, BrowseKeeps
<1>3. CASE LeaveHunk
  <2> DEFINE hunk == HunkAt(view)
             moved == MovedPast(LookedUp(view), hunk)
             hunk2 == HunkAt(moved)
  <2>1. hunk # 0 /\ walk.left > 0 /\ pc' = "next" /\ focused' = focused
    BY <1>3 DEF LeaveHunk
  <2>2. moved \in Views /\ hunk2 \in Pointer /\ LookedUp(moved) \in Views
    BY <1>1, <2>1, MovedType, LookedUpType
  <2>3. IF ~walk.bigdiff
        THEN /\ Becomes(moved)
             /\ walk' = [walk EXCEPT !.left = @ - 1, !.hunk = hunk]
        ELSE /\ Becomes(LookedUp(moved))
             /\ walk' = [walk EXCEPT !.left = LeftToGo(hunk, hunk2),
                                     !.hunk = hunk, !.hunk2 = hunk2]
    BY <1>3 DEF LeaveHunk
  <2>4. walk.left - 1 \in Nat /\ LeftToGo(hunk, hunk2) \in Nat
    BY <1>1, <2>1 DEF LeftToGo
  <2> HIDE DEF hunk, moved, hunk2
  <2>5. walk' \in [left : Nat, forwards : BOOLEAN, bigdiff : BOOLEAN,
                   hunk : Pointer, hunk2 : Pointer]
    BY <1>1, <2>2, <2>3, <2>4 DEF hunk
  <2> QED
    BY <1>1, <2>1, <2>2, <2>3, <2>5, BrowseKeeps
<1>4. CASE WalkDone
  <2> DEFINE hunk == HunkAt(view)
             o == From(focused, working_hunks[hunk])
             moved == IF ~walk.bigdiff \/ walk.hunk = walk.hunk2 \/ hunk = 0
                      THEN view ELSE set_offset(LookedUp(view), focused, o)
  <2>1. /\ Becomes(moved) /\ pc' = "redraw" /\ focused' = focused
        /\ walk' = [walk EXCEPT !.hunk = 0, !.hunk2 = 0]
    BY <1>4 DEF WalkDone
  <2>2. moved \in Views
    <3>1. hunk # 0 => o \in Int
      BY <1>1, HunkFields DEF SessionInv
    <3> QED
      BY <1>1, <3>1, SetOffsetGoes DEF SessionInv
  <2> QED
    BY <1>1, <2>1, <2>2, BrowseKeeps
<1> QED
  BY <1>2, <1>3, <1>4 DEF move_to_next_diff

LEMMA NextKeepsSession == SessionInv /\ [SessionNext]_sessionVars => SessionInv'
<1> SUFFICES ASSUME SessionInv, [SessionNext]_sessionVars PROVE SessionInv'
  OBVIOUS
<1>1. CASE UNCHANGED sessionVars
  BY <1>1 DEF SessionInv, HunkListTypeOK, PagerTypeOK, Pointer, OffsetsInFiles, Size,
              Browsing, Inv, TypeOK, HunkListInv, LastHunkInv, RollInv,
              BeforeBacktrack, Held, NotHeld, SrcAhead, DstAhead, PagerInit,
              sessionVars, vars, tail, cursor, screen
<1>2. CASE Browse /\ Redraw
  <2>1. error' = "none" /\ UNCHANGED <<offset, focused, walk>> /\ pc' = "key"
    BY <1>2 DEF Redraw
  <2>2. cached' \in Pointer
    <3>1. PICK s \in Strides, d \in Strides :
            cached' = Drawn(Drawn(cached, "src", s), "dst", d)
      BY <1>2 DEF Redraw
    <3>2. Drawn(cached, "src", s) \in Pointer
      BY DrawnType DEF SessionInv, PagerTypeOK, Side
    <3> QED
      BY <3>1, <3>2, DrawnType DEF SessionInv, PagerTypeOK, Side
  <2> DEFINE v == [cached |-> cached', offset |-> offset, error |-> "none"]
  <2>3. v \in Views /\ Becomes(v)
    BY <2>1, <2>2 DEF Views, Becomes, Said, SessionInv, PagerTypeOK
  <2> HIDE DEF v
  <2> QED
    BY <1>2, <2>1, <2>3, BrowseKeeps DEF SessionInv, PagerTypeOK
<1>3. CASE Browse /\ Key
  BY <1>3, KeyKeepsSession
<1>4. CASE Browse /\ move_to_next_diff
  BY <1>4, WalkKeepsSession
<1>5. Browse => Redraw \/ Key \/ move_to_next_diff
  BY DEF Browse, pagers
<1>6. CASE Calculate
  BY <1>6, CalculateKeepsSession
<1>7. CASE Open
  BY <1>7, OpenKeepsSession
<1> QED
  BY <1>1, <1>2, <1>3, <1>4, <1>5, <1>6, <1>7 DEF SessionNext, Stopped

LEMMA SpecSession == SessionSpec => []SessionInv
<1>1. SessionInit => SessionInv
  BY InitSession
<1>2. SessionInv /\ [SessionNext]_sessionVars => SessionInv'
  BY NextKeepsSession
<1> QED
  BY <1>1, <1>2, PTL DEF SessionSpec

-----------------------------------------------------------------------------
\* The state of LinkedView.
linked == <<[pager \in Side |-> Size(pager)], offset, focused, error>>

LEMMA PlacesAre ==
  ASSUME HunkListTypeOK, NEW places \in OffsetsInFiles
  PROVE  places \in View!Places
<1>1. View!Pagers = Side
  BY DEF View!Pagers
<1>2. \A pager \in Side : /\ places[pager] \in Nat
                           /\ places[pager] <= Size(pager)
                           /\ Size(pager) \in 1 .. MaxSize
  BY Sizes DEF OffsetsInFiles
<1>3. \A pager \in Side : places[pager] \in 0 .. MaxSize
  BY <1>2, FileAssumption
<1>4. places \in [Side -> 0 .. MaxSize]
  BY <1>3 DEF OffsetsInFiles
<1> QED
  BY <1>1, <1>2, <1>4 DEF View!Places

\* A call of set_offset for the pager with the focus goes to a place, or to the
\* nearest one that is not in the file.
LEMMA SetOffsetIsGoTo ==
  ASSUME SessionInv, UNCHANGED <<src, dst, focused>>,
         NEW v \in Views, v.offset = offset, v.error = error, NEW o \in Int,
         offset' = set_offset(v, focused, o).offset,
         error' = set_offset(v, focused, o).error
  PROVE  View!Next
<1> DEFINE w == set_offset(v, focused, o)
<1>1. focused \in Side /\ HunkListTypeOK
  BY DEF SessionInv, PagerTypeOK
<1>2. /\ w \in Views
      /\ IF o < 0 THEN w = [v EXCEPT !.error = "Reached BOF"]
         ELSE IF o >= Size(focused) THEN w = [v EXCEPT !.error = "Reached EOF"]
         ELSE w.offset[focused] = o /\ w.error = v.error
  BY <1>1, SetOffsetGoes
<1>3. Size(focused) \in 1 .. MaxSize
  BY <1>1, Sizes
<1>4. UNCHANGED <<[pager \in Side |-> Size(pager)], focused>>
  BY DEF Size
<1>5. [pager \in Side |-> Size(pager)][focused] = Size(focused)
  BY <1>1
<1> HIDE DEF w
<1>6. CASE o < 0
  <2>1. offset' = offset /\ error' = "Reached BOF"
    BY <1>2, <1>6 DEF w, Views
  <2>2. -1 < 0
    OBVIOUS
  <2>3. View!GoTo(-1)
    BY <1>4, <2>1, <2>2, Zenon DEF View!GoTo
  <2> QED
    BY <2>3, FileAssumption DEF View!Next
<1>7. CASE ~(o < 0) /\ o >= Size(focused)
  <2>1. offset' = offset /\ error' = "Reached EOF"
    BY <1>2, <1>7 DEF w, Views
  <2>2. MaxSize >= Size(focused) /\ MaxSize \in -1 .. MaxSize
    BY <1>3, FileAssumption
  <2>3. View!GoTo(MaxSize)
    BY <1>4, <1>5, <2>1, <2>2 DEF View!GoTo
  <2> QED
    BY <2>2, <2>3 DEF View!Next
<1>8. CASE o \in Nat /\ o < Size(focused)
  <2>1. ~(o < 0) /\ ~(o >= Size(focused)) /\ 0 <= o /\ o \in -1 .. MaxSize
    BY <1>3, <1>8, FileAssumption
  <2>2. offset' \in OffsetsInFiles /\ offset'[focused] = o /\ error' = error
    BY <1>2, <2>1 DEF w, Views
  <2>3. offset' \in View!Places
    BY <1>1, <2>2, PlacesAre
  <2>4. View!GoTo(o)
    BY <1>4, <1>5, <1>8, <2>1, <2>2, <2>3 DEF View!GoTo
  <2> QED
    BY <2>1, <2>4 DEF View!Next
<1>9. o < 0 \/ (~(o < 0) /\ o >= Size(focused)) \/ (o \in Nat /\ o < Size(focused))
  BY <1>3
<1> QED
  BY <1>6, <1>7, <1>8, <1>9, Zenon

LEMMA InitLinked ==
  ASSUME SessionInit
  PROVE  View!Init
<1>1. HunkListTypeOK /\ PagerInit
  BY InitSession DEF SessionInit, SessionInv
<1>2. \A pager \in Side : Size(pager) \in 1 .. MaxSize
  BY <1>1, Sizes
<1>3. [pager \in Side |-> Size(pager)] \in [{"src", "dst"} -> 1 .. MaxSize]
  BY <1>2 DEF Side
<1> QED
  BY <1>1, <1>3 DEF View!Init, View!Pagers, PagerInit

LEMMA KeyIsLinked ==
  ASSUME SessionInv, Browse, Key
  PROVE  View!Next \/ UNCHANGED linked
<1>1. /\ view \in Views /\ view.offset = offset /\ view.error = error
      /\ focused \in Side /\ offset[focused] \in Int /\ Size(focused) \in Int
  BY ViewType, Sizes, FileAssumption DEF SessionInv, PagerTypeOK, OffsetsInFiles
<1>2. UNCHANGED <<src, dst>>
  BY DEF Browse
<1>3. ASSUME NEW o \in Int, Becomes(set_offset(view, focused, o)), focused' = focused
      PROVE  View!Next
  BY <1>1, <1>2, <1>3, SetOffsetIsGoTo DEF Becomes
<1>4. CASE \E move \in -MaxMove .. MaxMove : relative_move_pager(move)
  <2>1. PICK move \in Int : relative_move_pager(move)
    BY <1>4, PagerAssumption
  <2>2. offset[focused] + move \in Int
    BY <1>1
  <2> QED
    BY <1>3, <2>1, <2>2 DEF relative_move_pager
<1>5. CASE \E o \in -MaxMove .. MaxSize : Goto(o)
  <2>1. PICK o \in Int : Goto(o)
    BY <1>5, PagerAssumption, FileAssumption
  <2>2. (IF o < 0 THEN Size(focused) + o ELSE o) \in Int
    BY <1>1
  <2> QED
    BY <1>3, <2>1, <2>2 DEF Goto
<1>6. CASE SwitchPager
  <2>1. UNCHANGED <<[pager \in Side |-> Size(pager)], offset, error>>
    BY <1>2, <1>6 DEF SwitchPager, Size
  <2>2. focused' \in Side \ {focused}
    BY <1>1, <1>6 DEF SwitchPager, Other, Side
  <2>3. View!Switch
    BY <2>1, <2>2 DEF View!Switch, View!Pagers
  <2> QED
    BY <2>3 DEF View!Next
<1>7. CASE Quit \/ \E times \in -MaxTimes .. MaxTimes : \E bigdiff \in BOOLEAN : HunkKey(times, bigdiff)
  BY <1>2, <1>7 DEF Quit, HunkKey, screen, linked, Size
<1> QED
  BY <1>4, <1>5, <1>6, <1>7 DEF Key

LEMMA WalkIsLinked ==
  ASSUME SessionInv, Browse, move_to_next_diff
  PROVE  View!Next \/ UNCHANGED linked
<1>1. /\ LookedUp(view) \in Views /\ HunkAt(view) \in Pointer
      /\ LookedUp(view).offset = offset /\ LookedUp(view).error = error
      /\ HunkListTypeOK
  BY ViewType DEF SessionInv
<1>2. UNCHANGED <<src, dst>>
  BY DEF Browse
<1>3. CASE NoHunk
  BY <1>2, <1>3 DEF NoHunk, linked, Size
<1>4. CASE LeaveHunk
  <2> DEFINE hunk == HunkAt(view)
             o == IF walk.forwards THEN To(focused, working_hunks[hunk]) + 1
                  ELSE From(focused, working_hunks[hunk]) - 1
             moved == MovedPast(LookedUp(view), hunk)
  <2>1. hunk # 0 /\ focused' = focused /\ (Becomes(moved) \/ Becomes(LookedUp(moved)))
    BY <1>4 DEF LeaveHunk
  <2>2. moved = set_offset(LookedUp(view), focused, o)
    BY DEF MovedPast
  <2>3. o \in Int
    BY <1>1, <2>1, HunkFields
  <2>4. moved \in Views
    BY <1>1, <2>1, MovedType
  <2>5. LookedUp(moved).offset = moved.offset /\ LookedUp(moved).error = moved.error
    BY <2>4, LookedUpType
  <2> HIDE DEF hunk, moved, o
  <2>6. offset' = moved.offset /\ error' = moved.error
    BY <2>1, <2>5 DEF Becomes
  <2> QED
    BY <1>1, <1>2, <2>1, <2>2, <2>3, <2>6, SetOffsetIsGoTo
<1>5. CASE WalkDone
  <2> DEFINE hunk == HunkAt(view)
             o == From(focused, working_hunks[hunk])
             moved == IF ~walk.bigdiff \/ walk.hunk = walk.hunk2 \/ hunk = 0
                      THEN view ELSE set_offset(LookedUp(view), focused, o)
  <2>1. Becomes(moved) /\ focused' = focused
    BY <1>5 DEF WalkDone
  <2>2. CASE moved = view
    BY <1>2, <2>1, <2>2 DEF Becomes, view, linked, Size
  <2>3. CASE hunk # 0 /\ moved = set_offset(LookedUp(view), focused, o)
    <3>1. o \in Int
      BY <1>1, <2>3, HunkFields
    <3> HIDE DEF hunk, o
    <3> QED
      BY <1>1, <1>2, <2>1, <2>3, <3>1, SetOffsetIsGoTo DEF Becomes
  <2> QED
    BY <2>2, <2>3
<1> QED
  BY <1>3, <1>4, <1>5 DEF move_to_next_diff

\* A step of the session is a step of LinkedView, or one it does not see.
LEMMA NextIsLinked ==
  ASSUME SessionInv, SessionInv', [SessionNext]_sessionVars
  PROVE  View!Next \/ UNCHANGED linked
<1>1. CASE UNCHANGED sessionVars
  BY <1>1 DEF sessionVars, vars, screen, linked, Size
<1>2. CASE Calculate
  <2>1. UNCHANGED screen
    BY <1>2 DEF Calculate
  <2>2. UNCHANGED <<src, dst>>
    BY <1>2 DEF Calculate, Next, Popvalue, Prelude, Loop, SyncMatch, SyncLost,
                NearFound, NearFault, NearMissed, FarGivenUp, FarTooClose,
                hi_hash_generate, NoDiff, FarMatch, FarMissed, Roll, RollDone, EofSync,
                EofUnsynced, ToBacktrack, Unmoved, backtrack_hunks, BacktrackHunk,
                BacktrackFault, BacktrackSkip, BacktrackDone, TreeCoalesce,
                TreeInsert, TreeDone, Terminated, vars
  <2> QED
    BY <2>1, <2>2 DEF screen, linked, Size
<1>3. CASE Open
  BY <1>3 DEF Open, linked, Size
<1>4. CASE Browse /\ Redraw
  <2>1. UNCHANGED <<[pager \in Side |-> Size(pager)], offset, focused>> /\ error' = "none"
    BY <1>4 DEF Browse, Redraw, Size
  <2> QED
    BY <2>1 DEF View!Next, View!Show
<1>5. CASE Browse /\ Key
  BY <1>5, KeyIsLinked
<1>6. CASE Browse /\ move_to_next_diff
  BY <1>6, WalkIsLinked
<1>7. Browse => Redraw \/ Key \/ move_to_next_diff
  BY DEF Browse, pagers
<1> QED
  BY <1>1, <1>2, <1>3, <1>4, <1>5, <1>6, <1>7 DEF SessionNext, Stopped

\* Whatever the shape of the tree and the hunks its lookups return, the linked
\* pagers of a session implement LinkedView.
THEOREM SessionIsLinkedView == SessionSpec => RefinesLinkedView
<1>1. SessionInit => View!Init
  BY InitLinked
<1>2. SessionInv /\ SessionInv' /\ [SessionNext]_sessionVars
        => [View!Next]_<<[pager \in Side |-> Size(pager)], offset, focused, error>>
  BY NextIsLinked DEF linked
<1> QED
  BY <1>1, <1>2, SpecSession, PTL DEF SessionSpec, RefinesLinkedView, View!Spec

-----------------------------------------------------------------------------
(***************************************************************************)
(* That the keys go forward rests on what the nodes of the tree hold in    *)
(* dst: a lookup finds a node by its key and returns its value, which must *)
(* not end before the key does.  It does not because the hunks listed      *)
(* before the last are in order in dst without overlap, and the last one   *)
(* reaches the end of the file.                                            *)
(***************************************************************************)

\* next starts where hunk ends in dst, or after it.
Precedes(hunk, next) ==
  /\ hunk.dst_start <= next.dst_start
  /\ hunk.dst_end <= next.dst_start

\* From first on, and before the last hunk, none starts before its predecessor ends.
PrecedeFrom(first) ==
  \A i \in first .. Len(working_hunks) - 2 :
    Precedes(working_hunks[i], working_hunks[i + 1])

\* The value of a node ends no earlier in dst than its key, but for a byte, or
\* reaches the end of the file.
NodesInDst ==
  \A n \in 1 .. Len(hunks) :
    /\ list < Len(working_hunks) => KeyHunk(n).dst_end <= working_hunks[list].dst_start
    /\ \/ ValueHunk(n).dst_end + 1 >= KeyHunk(n).dst_end
       \/ ValueHunk(n).dst_end + 1 >= dst.size

DstInv ==
  /\ pc = "backtrack" => PrecedeFrom(1)
  /\ pc \in {"tree", "done"} =>
       /\ PrecedeFrom(list)
       /\ \A i \in 1 .. Len(working_hunks) : NotInverted(working_hunks[i])
       /\ NodesInDst

\* The walk lists its hunks one after the other in dst.
LEMMA WalkPrecedes ==
  ASSUME Inv, WalkInv, BeforeBacktrack, NEW i \in 1 .. Len(working_hunks),
         NEW next, next.dst_start = After(i).dst_start
  PROVE  Precedes(working_hunks[i], next)
<1>1. working_hunks[i] \in Hunk
  BY ElementOfSeq DEF Inv, TypeOK, HunkListTypeOK
<1>2. /\ GoesOn(working_hunks[i].dst_start, working_hunks[i].dst_end, After(i).dst_start)
      /\ working_hunks[i].dst_start <= working_hunks[i].dst_end
  BY DEF WalkInv, Chained, ListedSame, WellListed
<1> QED
  BY <1>1, <1>2 DEF GoesOn, Precedes, Hunk

\* So they are when the end of the files has added the last ones.
LEMMA EofPrecedes ==
  ASSUME Inv, WalkInv, EofSync \/ EofUnsynced
  PROVE  DstInv'
<1> DEFINE n == Len(working_hunks)
<1>1. BeforeBacktrack /\ pc' = "backtrack"
  BY DEF EofSync, EofUnsynced, AtEOF, ToBacktrack, BeforeBacktrack
<1>2. /\ working_hunks \in Seq(Hunk) /\ n \in Nat
      /\ srcptr \in Nat /\ dstptr \in Nat /\ src.size \in Nat /\ dst.size \in Nat
      /\ working_hunk.src_start \in Nat /\ working_hunk.dst_start \in Nat
      /\ working_hunk.type \in HunkType
  BY LenProperties, FileBytes DEF Inv, TypeOK, HunkListTypeOK
<1>3. ASSUME \A i \in 1 .. n - 1 : working_hunks'[i] = working_hunks[i],
             n > 0 => working_hunks'[n].dst_start = working_hunks[n].dst_start,
             Len(working_hunks') = n
      PROVE  DstInv'
  <2> SUFFICES ASSUME NEW i \in 1 .. n - 2
               PROVE  Precedes(working_hunks'[i], working_hunks'[i + 1])
    BY <1>1, <1>3 DEF DstInv, PrecedeFrom, Precedes
  <2>1. /\ i \in 1 .. n /\ i \in 1 .. n - 1 /\ i # n
        /\ i + 1 \in 1 .. n - 1
    BY <1>2
  <2>2. /\ working_hunks'[i] = working_hunks[i]
        /\ working_hunks'[i + 1] = working_hunks[i + 1]
    BY <1>3, <2>1
  <2>3. After(i) = working_hunks[i + 1]
    BY <2>1 DEF After
  <2> QED
    BY <1>1, <2>1, <2>2, <2>3, WalkPrecedes
<1>4. ASSUME NEW hunk, hunk.dst_start = working_hunk.dst_start,
             \A i \in 1 .. n : working_hunks'[i] = working_hunks[i],
             working_hunks'[n + 1] = hunk,
             Len(working_hunks') \in {n + 1, n + 2}
      PROVE  DstInv'
  <2> SUFFICES ASSUME NEW i \in 1 .. Len(working_hunks') - 2
               PROVE  Precedes(working_hunks'[i], working_hunks'[i + 1])
    BY <1>1 DEF DstInv, PrecedeFrom, Precedes
  <2>1. i \in 1 .. n
    BY <1>2, <1>4
  <2>2. working_hunks'[i + 1].dst_start = After(i).dst_start
    <3>1. CASE i = n
      BY <1>4, <3>1 DEF After
    <3>2. CASE i # n
      <4>1. i + 1 \in 1 .. n
        BY <1>2, <2>1, <3>2
      <4> QED
        BY <1>4, <3>2, <4>1 DEF After
    <3> QED
      BY <3>1, <3>2
  <2> QED
    BY <1>1, <1>4, <2>1, <2>2, WalkPrecedes
<1>5. CASE EofSync
  <2> DEFINE same == ClampedHunk(working_hunk.type,
                                 working_hunk.src_start, srcptr - 1,
                                 working_hunk.dst_start, dstptr - 1)
             rest == ClampedHunk("DIFF", srcptr, src.size, dstptr, dst.size)
  <2>1. same \in Hunk /\ rest \in Hunk
    BY <1>2, ClampedHunkType, SMTT(30) DEF HunkType
  <2>2. same.dst_start = working_hunk.dst_start
    BY DEF ClampedHunk
  <2>3. \/ working_hunks' = working_hunks \o <<same, rest>>
        \/ working_hunks' = Append(working_hunks, same)
    BY <1>5 DEF EofSync
  <2> HIDE DEF same, rest
  <2>4. CASE working_hunks' = Append(working_hunks, same)
    BY <1>2, <1>4, <2>1, <2>2, <2>4, AppendedHunk
  <2>5. CASE working_hunks' = working_hunks \o <<same, rest>>
    <3>1. <<same, rest>> \in Seq(Hunk) /\ Len(<<same, rest>>) = 2
      BY <2>1
    <3>2. /\ Len(working_hunks') = n + 2
          /\ \A i \in 1 .. n : working_hunks'[i] = working_hunks[i]
          /\ working_hunks'[n + 1] = <<same, rest>>[(n + 1) - n]
      BY <1>2, <2>5, <3>1, ConcatProperties
    <3>3. working_hunks'[n + 1] = same
      <4>1. (n + 1) - n = 1
        BY <1>2
      <4> QED
        BY <3>2, <4>1
    <3> HIDE DEF n
    <3> QED
      BY <1>4, <2>2, <3>2, <3>3
  <2> QED
    BY <2>3, <2>4, <2>5
<1>6. CASE EofUnsynced /\ last_hunk = 0
  <2> DEFINE hunk == ClampedHunk("DIFF", working_hunk.src_start, src.size,
                                 working_hunk.dst_start, dst.size)
  <2>1. hunk \in Hunk /\ hunk.dst_start = working_hunk.dst_start
    <3>1. /\ working_hunk.src_start \in Nat /\ working_hunk.dst_start \in Nat
          /\ src.size \in Int /\ dst.size \in Int
      BY <1>2
    <3>2. "DIFF" \in HunkType
      BY DEF HunkType
    <3>3. hunk \in Hunk
      BY <3>1, <3>2, ClampedHunkType
    <3>4. hunk.dst_start = working_hunk.dst_start
      BY DEF ClampedHunk
    <3> QED
      BY <3>3, <3>4
  <2>2. working_hunks' = Append(working_hunks, hunk)
    BY <1>6 DEF EofUnsynced, Inserted, insert_hunk
  <2> HIDE DEF hunk
  <2> QED
    BY <1>2, <1>4, <2>1, <2>2, AppendedHunk
<1>7. CASE EofUnsynced /\ last_hunk # 0
  <2>1. last_hunk = n /\ n \in 1 .. n
    BY <1>1, <1>2, <1>7 DEF Inv, LastHunkInv, NotHeld, Held, EofUnsynced
  <2>2. working_hunks' = [working_hunks EXCEPT ![n].src_end = src.size,
                                              ![n].dst_end = dst.size]
    BY <1>7, <2>1 DEF EofUnsynced
  <2>3. working_hunks[n] \in Hunk
    BY <1>2, <2>1, ElementOfSeq
  <2> DEFINE edited == [working_hunks[n] EXCEPT !.src_end = src.size,
                                                !.dst_end = dst.size]
  <2>4. edited \in Hunk /\ edited.dst_start = working_hunks[n].dst_start
    BY <1>2, <2>3 DEF Hunk
  <2>5. working_hunks' = [working_hunks EXCEPT ![n] = edited]
    BY <1>2, <2>1, <2>2, <2>3 DEF Hunk
  <2> HIDE DEF edited
  <2>6. /\ Len(working_hunks') = n
        /\ working_hunks'[n] = edited
        /\ \A i \in 1 .. n - 1 : working_hunks'[i] = working_hunks[i]
    BY <1>2, <2>1, <2>4, <2>5, ExceptSeq, LenProperties
  <2> QED
    BY <1>3, <2>4, <2>6
<1> QED
  BY <1>5, <1>6, <1>7

\* A hunk that moves back ends where it did, starts no later, and has cut its
\* predecessor: only one of the last two can have moved forward.
LEMMA BacktrackPrecedes ==
  ASSUME Inv, BackInv, MoveInv, DstInv, BacktrackHunk
  PROVE  DstInv'
<1> DEFINE n == Len(working_hunks)
           m == Len(working_hunks')
           old == working_hunks[list]
<1>1. /\ pc = "backtrack" /\ pc' = "backtrack"
      /\ PrecedeFrom(1) /\ ToMove /\ ListInOrder
  BY DEF BacktrackHunk, AtIndexed, DstInv, MoveInv, BackInv, BeforeBacktrack
<1>2. /\ working_hunks \in Seq(Hunk) /\ n \in Nat /\ m \in Nat
      /\ list \in 2 .. n /\ old \in Hunk /\ old.type = "SAME_INDEXED"
      /\ dst.size \in Nat
  BY BacktrackElements, FileBytes DEF Inv, TypeOK, HunkListTypeOK
<1>3. ASSUME NEW i \in 1 .. n PROVE working_hunks[i] \in Hunk
  BY <1>2, ElementOfSeq
<1>4. PICK back \in Nat, kept \in 1 .. list - 1, hunk \in Hunk, cut \in Hunk :
        /\ list' = kept + 2
        /\ hunk.type = "SAME_BACKTRACKED"
        /\ hunk.src_start = old.src_start + 1 - back
        /\ hunk.dst_start = old.dst_start + 1 - back
        /\ hunk.src_end = old.src_end /\ hunk.dst_end = old.dst_end
        /\ back = 0 => old.dst_start >= dst.size
        /\ StartsBefore(working_hunks[kept], hunk)
        /\ cut.type = working_hunks[kept].type
        /\ cut.src_start = working_hunks[kept].src_start
        /\ cut.dst_start = working_hunks[kept].dst_start
        /\ cut.src_end = IF hunk.src_start = 0 THEN 0 ELSE hunk.src_start - 1
        /\ cut.dst_end = IF hunk.dst_start = 0 THEN 0 ELSE hunk.dst_start - 1
        /\ kept + 1 <= m
        /\ \A i \in 1 .. kept - 1 : working_hunks'[i] = working_hunks[i]
        /\ working_hunks'[kept] = cut
        /\ working_hunks'[kept + 1] = hunk
        /\ m = kept + 1 + n - list
        /\ \A i \in kept + 2 .. m :
             /\ i + list - kept - 1 \in list + 1 .. n
             /\ i + list - kept - 1 \in 1 .. n
             /\ working_hunks'[i] = working_hunks[i + list - kept - 1]
  BY BacktrackElements
<1>5. list < n - 1 => old.dst_start < dst.size
  BY <1>1, <1>2 DEF ToMove
<1> HIDE DEF m, n, old
<1>6. /\ kept \in Nat /\ list \in Nat /\ kept >= 1 /\ list > kept /\ list <= n
      /\ m = kept + 1 + n - list
      /\ kept \in 1 .. n /\ list \in 1 .. n
  <2>1. /\ n \in Nat /\ list \in 2 .. n /\ kept \in 1 .. list - 1
        /\ m = kept + 1 + n - list
    BY <1>2, <1>4
  <2> QED
    BY <2>1
<1>7. ASSUME NEW i \in 1 .. n - 2 PROVE Precedes(working_hunks[i], working_hunks[i + 1])
  BY <1>1 DEF PrecedeFrom, n
<1>8. ASSUME NEW i \in 1 .. m - 2
      PROVE  Precedes(working_hunks'[i], working_hunks'[i + 1])
  <2>1. i \in Nat /\ i >= 1 /\ i <= m - 2
    BY <1>2
  <2>2. CASE i < kept
    <3>1. i \in 1 .. kept - 1 /\ i \in 1 .. n - 2 /\ i + 1 \in 1 .. n
      BY <1>2, <1>6, <2>1, <2>2
    <3>2. Precedes(working_hunks[i], working_hunks[i + 1])
      BY <1>7, <3>1
    <3>3. working_hunks'[i] = working_hunks[i]
      BY <1>4, <3>1
    <3>4. working_hunks'[i + 1].dst_start = working_hunks[i + 1].dst_start
      <4>1. CASE i + 1 = kept
        BY <1>4, <4>1
      <4>2. CASE i + 1 # kept
        <5>1. i + 1 \in 1 .. kept - 1
          BY <1>6, <3>1, <4>2
        <5> QED
          BY <1>4, <5>1
      <4> QED
        BY <4>1, <4>2
    <3> QED
      BY <3>2, <3>3, <3>4 DEF Precedes
  <2>3. CASE i = kept
    <3>1. cut.dst_start <= hunk.dst_start
      BY <1>4 DEF StartsBefore
    <3>2. cut.dst_end <= hunk.dst_start
      BY <1>4 DEF Hunk
    <3> QED
      BY <1>4, <2>3, <3>1, <3>2 DEF Precedes
  <2>4. CASE i = kept + 1
    <3>1. list < n - 1 /\ list \in 1 .. n - 2 /\ list + 1 \in 1 .. n
      BY <1>2, <1>6, <2>1, <2>4
    <3>2. Precedes(old, working_hunks[list + 1])
      BY <1>7, <3>1 DEF old
    <3>3. working_hunks'[i + 1] = working_hunks[list + 1]
      <4>1. i + 1 \in kept + 2 .. m /\ (i + 1) + list - kept - 1 = list + 1
        BY <1>2, <1>6, <2>1, <2>4
      <4> QED
        BY <1>4, <4>1
    <3>4. back >= 1
      BY <1>2, <1>4, <1>5, <3>1 DEF Hunk
    <3>5. working_hunks[list + 1] \in Hunk
      BY <1>3, <3>1 DEF n
    <3>6. /\ old.dst_start \in Nat /\ hunk.dst_start \in Nat
          /\ working_hunks[list + 1].dst_start \in Nat
      BY <1>2, <3>5 DEF Hunk
    <3>7. hunk.dst_start <= old.dst_start
      BY <1>4, <3>4, <3>6
    <3>8. hunk.dst_start <= working_hunks[list + 1].dst_start
      BY <3>2, <3>6, <3>7 DEF Precedes
    <3>9. hunk.dst_end <= working_hunks[list + 1].dst_start
      BY <1>4, <3>2 DEF Precedes
    <3> QED
      BY <1>4, <2>4, <3>3, <3>8, <3>9 DEF Precedes
  <2>5. CASE i > kept + 1
    <3> DEFINE j == i + list - kept - 1
    <3>1. /\ i \in kept + 2 .. m /\ i + 1 \in kept + 2 .. m
          /\ j \in 1 .. n - 2 /\ (i + 1) + list - kept - 1 = j + 1
      BY <1>2, <1>6, <2>1, <2>5
    <3>2. working_hunks'[i] = working_hunks[j] /\ working_hunks'[i + 1] = working_hunks[j + 1]
      BY <1>4, <3>1
    <3> QED
      BY <1>7, <3>1, <3>2
  <2> QED
    BY <1>6, <2>1, <2>2, <2>3, <2>4, <2>5
<1> QED
  BY <1>1, <1>8 DEF DstInv, PrecedeFrom, Precedes, m

\* What the steps of the second loop find at list.
LEMMA TreeTurn ==
  ASSUME Inv, BackInv, TreeInv, DstInv, AtTree
  PROVE  LET n == Len(working_hunks)
         IN  /\ working_hunks \in Seq(Hunk) /\ n \in Nat /\ list \in 1 .. n
             /\ dst.size \in Nat
             /\ \A i \in 1 .. n : working_hunks[i] \in Hunk /\ NotInverted(working_hunks[i])
             /\ PrecedeFrom(list) /\ NodesInDst
             /\ list = n => working_hunks[list].dst_end + 1 >= dst.size
             /\ Len(hunks) \in Nat
             /\ \A k \in 1 .. Len(hunks) :
                  /\ hunks[k].key \in 1 .. n /\ hunks[k].value \in 1 .. n
                  /\ KeyHunk(k) \in Hunk /\ ValueHunk(k) \in Hunk
<1> DEFINE n == Len(working_hunks)
           Node == [key : 1 .. n, value : 1 .. n]
<1>1. pc = "tree" /\ list <= n /\ list > 0 /\ list \in Nat
  BY DEF AtTree, Inv, HunkListInv, HunkListTypeOK
<1>2. /\ working_hunks \in Seq(Hunk) /\ n \in Nat /\ list \in 1 .. n /\ dst.size \in Nat
      /\ hunks \in Seq(Node)
  BY <1>1, LenProperties, FileBytes DEF Inv, HunkListInv, HunkListTypeOK
<1>3. \A i \in 1 .. n : working_hunks[i] \in Hunk
  BY <1>2, ElementOfSeq
<1>4. /\ \A i \in 1 .. n : NotInverted(working_hunks[i])
      /\ working_hunks[n].dst_end >= dst.size - 1
      /\ PrecedeFrom(list) /\ NodesInDst
  BY <1>1 DEF BackInv, Covers, DstInv
<1>5. Len(hunks) \in Nat
  BY <1>2, LenProperties
<1> HIDE DEF Node
<1>6. \A k \in 1 .. Len(hunks) : hunks[k] \in Node
  BY <1>2, ElementOfSeq
<1>7. \A k \in 1 .. Len(hunks) :
        /\ hunks[k].key \in 1 .. n /\ hunks[k].value \in 1 .. n
        /\ KeyHunk(k) \in Hunk /\ ValueHunk(k) \in Hunk
  BY <1>3, <1>6 DEF Node, KeyHunk, ValueHunk
<1>8. list = n => working_hunks[list].dst_end + 1 >= dst.size
  BY <1>2, <1>3, <1>4 DEF Hunk
<1> QED
  BY <1>2, <1>3, <1>4, <1>5, <1>7, <1>8

\* A hunk extended in place ends before the next one starts, like the one it
\* takes in.
LEMMA CoalescePrecedes ==
  ASSUME Inv, BackInv, TreeInv, DstInv, BackInv', TreeCoalesce
  PROVE  DstInv'
<1> DEFINE n == Len(working_hunks)
<1>1. /\ AtTree /\ pc' = "tree" /\ list' = list + 1 /\ UNCHANGED <<dst, otherhunk, hunks>>
      /\ otherhunk # 0
  BY DEF TreeCoalesce, AtTree, Coalesces
<1>2. /\ n \in Nat /\ list \in 1 .. n /\ dst.size \in Nat
      /\ \A i \in 1 .. n : working_hunks[i] \in Hunk
      /\ PrecedeFrom(list) /\ NodesInDst /\ Len(hunks) \in Nat
      /\ \A k \in 1 .. Len(hunks) : hunks[k].key \in 1 .. n /\ hunks[k].value \in 1 .. n
  BY <1>1, TreeTurn
<1>3. /\ Len(working_hunks') = n /\ otherhunk \in 1 .. n
      /\ \A i \in 1 .. n :
           /\ working_hunks'[i].dst_start = working_hunks[i].dst_start
           /\ working_hunks[i].dst_end <= working_hunks'[i].dst_end
           /\ working_hunks'[i] \in Hunk
           /\ i # otherhunk => working_hunks'[i] = working_hunks[i]
  BY CoalesceElements
<1>4. working_hunks'[otherhunk].dst_end = working_hunks[list].dst_end
  <2>1. /\ working_hunks \in Seq(Hunk) /\ otherhunk \in 1 .. n
        /\ working_hunks[otherhunk] \in Hunk
    BY <1>1, <1>2, <1>3, TreeTurn
  <2>2. DOMAIN working_hunks = 1 .. n
    BY <2>1, LenProperties
  <2> QED
    BY <2>1, <2>2 DEF TreeCoalesce, Hunk
<1>5. /\ otherhunk < list
      /\ \A k \in 1 .. Len(hunks) : hunks[k].key = otherhunk => hunks[k].value = otherhunk
  BY <1>1 DEF TreeInv, AtTree, Nodes
<1>6. \A i \in 1 .. n : NotInverted(working_hunks'[i])
  BY <1>1, <1>3 DEF BackInv, Covers, NotInverted
<1> HIDE DEF n
<1>7. PrecedeFrom(list)
  BY <1>2
<1>8. ASSUME NEW i \in list + 1 .. n - 2
      PROVE  Precedes(working_hunks'[i], working_hunks'[i + 1])
  <2>1. i \in 1 .. n /\ i + 1 \in 1 .. n /\ i # otherhunk /\ i + 1 # otherhunk /\ i \in list .. n - 2
    BY <1>2, <1>3, <1>5
  <2>2. Precedes(working_hunks[i], working_hunks[i + 1])
    BY <1>7, <2>1 DEF PrecedeFrom, n
  <2> QED
    BY <1>3, <2>1, <2>2
<1>9. ASSUME list + 1 < n
      PROVE  Precedes(working_hunks[list], working_hunks'[list + 1])
  <2>1. list \in list .. n - 2 /\ list + 1 \in 1 .. n /\ list + 1 # otherhunk
    BY <1>2, <1>3, <1>5, <1>9
  <2> QED
    BY <1>3, <1>7, <2>1 DEF PrecedeFrom, n
<1>10. ASSUME NEW k \in 1 .. Len(hunks)
       PROVE  /\ list + 1 < n => KeyHunk(k)'.dst_end <= working_hunks'[list + 1].dst_start
              /\ \/ ValueHunk(k)'.dst_end + 1 >= KeyHunk(k)'.dst_end
                 \/ ValueHunk(k)'.dst_end + 1 >= dst.size
  <2> DEFINE key == hunks[k].key
             value == hunks[k].value
  <2>1. /\ key \in 1 .. n /\ value \in 1 .. n
        /\ KeyHunk(k)' = working_hunks'[key] /\ ValueHunk(k)' = working_hunks'[value]
        /\ KeyHunk(k) = working_hunks[key] /\ ValueHunk(k) = working_hunks[value]
    BY <1>1, <1>2 DEF KeyHunk, ValueHunk
  <2>2. /\ list < n => working_hunks[key].dst_end <= working_hunks[list].dst_start
        /\ \/ working_hunks[value].dst_end + 1 >= working_hunks[key].dst_end
           \/ working_hunks[value].dst_end + 1 >= dst.size
    BY <1>2, <2>1 DEF NodesInDst, n
  <2>3. /\ working_hunks[key] \in Hunk /\ working_hunks[value] \in Hunk
        /\ working_hunks'[key] \in Hunk /\ working_hunks'[value] \in Hunk
        /\ working_hunks[list] \in Hunk
    BY <1>2, <1>3, <2>1 DEF n
  <2>4. key = otherhunk => value = otherhunk
    BY <1>5
  <2> HIDE DEF key, value
  <2>5. CASE key = otherhunk
    <3>1. value = key /\ working_hunks'[key].dst_end = working_hunks[list].dst_end
      BY <1>4, <2>4, <2>5
    <3>2. ValueHunk(k)'.dst_end + 1 >= KeyHunk(k)'.dst_end
      BY <2>1, <2>3, <3>1 DEF Hunk
    <3> QED
      BY <1>9, <2>1, <3>1, <3>2 DEF Precedes
  <2>6. CASE key # otherhunk
    <3>1. working_hunks'[key] = working_hunks[key]
      BY <1>3, <2>1, <2>6
    <3>2. working_hunks[value].dst_end <= working_hunks'[value].dst_end
      BY <1>3, <2>1
    <3>3. ASSUME list + 1 < n PROVE KeyHunk(k)'.dst_end <= working_hunks'[list + 1].dst_start
      <4>1. list + 1 \in 1 .. n /\ list < n
        BY <1>2, <3>3
      <4>2. working_hunks'[list + 1] \in Hunk
        BY <1>3, <4>1
      <4>3. working_hunks[list].dst_start <= working_hunks'[list + 1].dst_start
        BY <1>9, <3>3 DEF Precedes
      <4>4. /\ working_hunks[key].dst_end \in Nat /\ working_hunks[list].dst_start \in Nat
            /\ working_hunks'[list + 1].dst_start \in Nat
        BY <2>3, <4>2 DEF Hunk
      <4>5. working_hunks[key].dst_end <= working_hunks'[list + 1].dst_start
        BY <2>2, <4>1, <4>3, <4>4
      <4> QED
        BY <2>1, <3>1, <4>5
    <3>4. \/ ValueHunk(k)'.dst_end + 1 >= KeyHunk(k)'.dst_end
          \/ ValueHunk(k)'.dst_end + 1 >= dst.size
      <4>1. /\ working_hunks[value].dst_end \in Nat /\ working_hunks'[value].dst_end \in Nat
            /\ working_hunks[key].dst_end \in Nat
        BY <2>3 DEF Hunk
      <4>2. \/ working_hunks'[value].dst_end + 1 >= working_hunks[key].dst_end
            \/ working_hunks'[value].dst_end + 1 >= dst.size
        BY <1>2, <2>2, <3>2, <4>1
      <4> QED
        BY <2>1, <3>1, <4>2
    <3> QED
      BY <3>3, <3>4
  <2> QED
    BY <2>5, <2>6
<1>11. NodesInDst'
  BY <1>1, <1>3, <1>10 DEF NodesInDst
<1>12. PrecedeFrom(list)'
  BY <1>1, <1>3, <1>8 DEF PrecedeFrom, Precedes
<1> QED
  BY <1>1, <1>3, <1>6, <1>11, <1>12 DEF DstInv, n

\* A hunk that goes into the tree for its equal comes after it in the list, and
\* the last one of the list reaches the end of the file.
LEMMA InsertPrecedes ==
  ASSUME Inv, BackInv, TreeInv, DstInv, TreeInsert
  PROVE  DstInv'
<1> DEFINE n == Len(working_hunks)
           N == Len(hunks)
           Free(key, value) ==
             \/ working_hunks[value].dst_end + 1 >= working_hunks[key].dst_end
             \/ working_hunks[value].dst_end + 1 >= dst.size
<1>1. /\ AtTree /\ pc = "tree" /\ pc' = "tree" /\ list' = list + 1
      /\ UNCHANGED <<dst, working_hunks>>
  BY DEF TreeInsert, AtTree
<1>2. /\ n \in Nat /\ N \in Nat /\ list \in 1 .. n /\ dst.size \in Nat
      /\ \A i \in 1 .. n : working_hunks[i] \in Hunk /\ NotInverted(working_hunks[i])
      /\ PrecedeFrom(list) /\ NodesInDst
      /\ list = n => working_hunks[list].dst_end + 1 >= dst.size
      /\ \A k \in 1 .. N :
           /\ hunks[k].key \in 1 .. n /\ hunks[k].value \in 1 .. n
           /\ KeyHunk(k) \in Hunk /\ ValueHunk(k) \in Hunk
  BY <1>1, TreeTurn
<1>3. ASSUME NEW k \in 1 .. N
      PROVE  /\ list < n => working_hunks[hunks[k].key].dst_end <= working_hunks[list].dst_start
             /\ Free(hunks[k].key, hunks[k].value)
  BY <1>2 DEF NodesInDst, KeyHunk, ValueHunk
<1>4. \A i \in 1 .. n : working_hunks[i].dst_end \in Nat /\ working_hunks[i].dst_start \in Nat
  BY <1>2 DEF Hunk
<1>5. list + 1 < n => Precedes(working_hunks[list], working_hunks[list + 1])
  BY <1>2 DEF PrecedeFrom
<1> HIDE DEF n, N
<1>6. ASSUME NEW k \in 1 .. N
      PROVE  /\ list + 1 < n =>
                  working_hunks[hunks[k].key].dst_end <= working_hunks[list + 1].dst_start
             /\ Free(hunks[k].key, hunks[k].value)
  <2>1. ASSUME list + 1 < n
        PROVE  working_hunks[hunks[k].key].dst_end <= working_hunks[list + 1].dst_start
    <3>1. list < n /\ list + 1 \in 1 .. n /\ hunks[k].key \in 1 .. n
      BY <1>2, <2>1
    <3>2. working_hunks[hunks[k].key].dst_end <= working_hunks[list].dst_start
      BY <1>3, <3>1
    <3>3. working_hunks[list].dst_start <= working_hunks[list + 1].dst_start
      BY <1>5, <2>1 DEF Precedes
    <3> QED
      BY <1>2, <1>4, <3>1, <3>2, <3>3
  <2> QED
    BY <1>3, <2>1
<1>7. /\ list + 1 < n => working_hunks[list].dst_end <= working_hunks[list + 1].dst_start
      /\ Free(list, list)
  <2>1. working_hunks[list].dst_end + 1 >= working_hunks[list].dst_end
    BY <1>2, <1>4
  <2> QED
    BY <1>5, <2>1 DEF Precedes
<1>8. ASSUME NEW k \in 1 .. N
      PROVE  Free(hunks[k].key, list)
  <2>1. CASE list = n
    BY <1>2, <2>1
  <2>2. CASE list # n
    <3>1. list < n /\ hunks[k].key \in 1 .. n
      BY <1>2, <2>2
    <3>2. working_hunks[hunks[k].key].dst_end <= working_hunks[list].dst_start
      BY <1>3, <3>1
    <3>3. working_hunks[list].dst_start <= working_hunks[list].dst_end + 1
      BY <1>2 DEF NotInverted
    <3> QED
      BY <1>2, <1>4, <3>1, <3>2, <3>3
  <2> QED
    BY <2>1, <2>2
<1> HIDE DEF Free
<1>9. Len(hunks') \in Nat
  <2>1. HunkListInv'
    BY <1>1, BacktrackKeepsInv DEF backtrack_hunks, Inv
  <2> QED
    BY <2>1, LenProperties DEF HunkListInv, HunkListTypeOK
<1>10. ASSUME NEW m \in 1 .. Len(hunks')
       PROVE  /\ list + 1 < n =>
                   working_hunks[hunks'[m].key].dst_end <= working_hunks[list + 1].dst_start
              /\ Free(hunks'[m].key, hunks'[m].value)
  <2>1. \/ hunks'[m].key = list /\ hunks'[m].value = list
        \/ \E k \in 1 .. N :
             /\ hunks'[m].key = hunks[k].key
             /\ hunks'[m].value \in {hunks[k].value, list}
    BY <1>1, InsertNodes DEF Inv, N
  <2>2. CASE hunks'[m].key = list /\ hunks'[m].value = list
    BY <1>7, <2>2
  <2>3. ASSUME NEW k \in 1 .. N, hunks'[m].key = hunks[k].key,
               hunks'[m].value \in {hunks[k].value, list}
        PROVE  Free(hunks'[m].key, hunks'[m].value)
    BY <1>6, <1>8, <2>3
  <2> QED
    BY <1>6, <2>1, <2>2, <2>3
<1>11. NodesInDst'
  BY <1>1, <1>10 DEF NodesInDst, KeyHunk, ValueHunk, Free, n
<1>12. PrecedeFrom(list)'
  <2>1. \A i \in list + 1 .. n - 2 : i \in list .. n - 2
    BY <1>2
  <2> QED
    BY <1>1, <1>2, <2>1 DEF PrecedeFrom, Precedes, n
<1> QED
  BY <1>1, <1>2, <1>11, <1>12 DEF DstInv, NotInverted, n

LEMMA OtherStepPrecedes ==
  ASSUME Inv, BackInv, TreeInv, DstInv,
         BacktrackFault \/ BacktrackSkip \/ BacktrackDone \/ TreeDone
  PROVE  DstInv'
<1>1. CASE BacktrackFault \/ BacktrackSkip
  BY <1>1 DEF BacktrackFault, BacktrackSkip, AtIndexed, DstInv, PrecedeFrom, Precedes
<1>2. CASE BacktrackDone
  <2>1. hunks = << >>
    BY <1>2 DEF BacktrackDone, Inv, HunkListInv
  <2>2. Len(hunks) = 0
    BY <2>1, EmptySeq
  <2> QED
    BY <1>2, <2>2 DEF BacktrackDone, DstInv, PrecedeFrom, Precedes, NodesInDst, BackInv,
                      Covers, NotInverted
<1>3. CASE TreeDone
  BY <1>3 DEF TreeDone, DstInv, PrecedeFrom, Precedes, NotInverted, NodesInDst, KeyHunk,
              ValueHunk
<1> QED
  BY <1>1, <1>2, <1>3

LEMMA NextKeepsDst ==
  /\ Inv /\ WalkInv /\ BackInv /\ MoveInv /\ TreeInv /\ DstInv
  /\ Inv' /\ BackInv'
  /\ [Next]_vars
  => DstInv'
<1> SUFFICES ASSUME Inv, WalkInv, BackInv, MoveInv, TreeInv, DstInv, Inv', BackInv', [Next]_vars
             PROVE  DstInv'
  OBVIOUS
<1>1. CASE \/ Popvalue \/ Prelude \/ SyncMatch \/ SyncLost \/ NearFound \/ NearMissed
           \/ FarGivenUp \/ FarTooClose \/ hi_hash_generate \/ FarMatch \/ FarMissed
           \/ Roll \/ RollDone \/ NearFault \/ NoDiff
  <2>1. pc' \notin {"backtrack", "tree", "done"}
    BY <1>1 DEF Popvalue, Prelude, SyncMatch, SyncLost, NearFound, NearMissed, FarGivenUp,
                FarTooClose, hi_hash_generate, FarMatch, FarMissed, Roll, RollDone,
                NearFault, NoDiff, InLoop, InFar, MoveTo
  <2> QED
    BY <2>1 DEF DstInv
<1>2. CASE EofSync \/ EofUnsynced
  BY <1>2, EofPrecedes
<1>3. CASE BacktrackHunk
  BY <1>3, BacktrackPrecedes
<1>4. CASE TreeCoalesce
  BY <1>4, CoalescePrecedes
<1>5. CASE TreeInsert
  BY <1>5, InsertPrecedes
<1>6. CASE BacktrackFault \/ BacktrackSkip \/ BacktrackDone \/ TreeDone
  BY <1>6, OtherStepPrecedes
<1>7. CASE Terminated \/ UNCHANGED vars
  <2>1. UNCHANGED <<dst, pc, working_hunks, list, hunks>>
    BY <1>7 DEF Terminated, vars, tail
  <2> QED
    BY <2>1 DEF DstInv, PrecedeFrom, Precedes, NotInverted, NodesInDst, KeyHunk, ValueHunk
<1> QED
  BY <1>1, <1>2, <1>3, <1>4, <1>5, <1>6, <1>7 DEF Next, Loop, backtrack_hunks

-----------------------------------------------------------------------------
\* A node's value reaches as far as its key in src, and in dst as far but for a
\* byte or to the end of the file; no hunk is inverted.
Forward ==
  /\ \A i \in 1 .. Len(working_hunks) : NotInverted(working_hunks[i])
  /\ \A n \in 1 .. Len(hunks) :
       /\ ValueHunk(n).src_end >= KeyHunk(n).src_end
       /\ \/ ValueHunk(n).dst_end + 1 >= KeyHunk(n).dst_end
          \/ ValueHunk(n).dst_end + 1 >= dst.size

ForwardInv ==
  /\ ~Browsing => WalkInv /\ BackInv /\ MoveInv /\ TreeInv /\ DstInv
  /\ Browsing => Forward

LEMMA InitForward == SessionInit => ForwardInv
<1> SUFFICES ASSUME SessionInit PROVE ForwardInv
  OBVIOUS
<1>1. Init /\ pc = "popvalue"
  BY DEF SessionInit, Init
<1>2. WalkInv
  BY <1>1, InitWalk
<1>3. Len(working_hunks) = 0
  BY <1>1, EmptySeq DEF Init
<1> QED
  BY <1>1, <1>2, <1>3 DEF ForwardInv, Browsing, BackInv, MoveInv, TreeInv, DstInv,
                         BeforeBacktrack

LEMMA NextKeepsForward ==
  SessionInv /\ ForwardInv /\ [SessionNext]_sessionVars => ForwardInv'
<1> SUFFICES ASSUME SessionInv, ForwardInv, [SessionNext]_sessionVars PROVE ForwardInv'
  OBVIOUS
<1>1. CASE Calculate
  <2>1. pc \in PC /\ Next
    BY <1>1, CalculatePC DEF Calculate
  <2>2. ~Browsing
    BY <2>1 DEF PC, Browsing
  <2>3. Inv /\ WalkInv /\ BackInv /\ MoveInv /\ TreeInv /\ DstInv
    BY <2>2 DEF SessionInv, ForwardInv
  <2>4. Inv'
    BY <2>1, <2>3, NextKeepsInv
  <2>5. WalkInv' /\ BackInv'
    BY <2>1, <2>3, <2>4, NextKeepsWalk, NextKeepsBack
  <2>6. MoveInv' /\ TreeInv' /\ DstInv'
    BY <2>1, <2>3, <2>4, <2>5, NextKeepsTree, NextKeepsDst
  <2>7. ~Browsing'
    BY <2>4 DEF Inv, TypeOK, PC, Browsing
  <2> QED
    BY <2>5, <2>6, <2>7 DEF ForwardInv
<1>2. CASE Open
  <2>1. TreeInv /\ DstInv /\ pc = "done"
    BY <1>2 DEF Open, ForwardInv, Browsing
  <2>2. Forward
    BY <2>1 DEF TreeInv, DstInv, Nodes, NodesInDst, Forward
  <2>3. UNCHANGED <<dst, working_hunks, hunks>> /\ pc' = "redraw"
    BY <1>2 DEF Open, tail
  <2> QED
    BY <2>2, <2>3 DEF ForwardInv, Browsing, Forward, NotInverted, KeyHunk, ValueHunk
<1>3. CASE Browse
  <2>1. UNCHANGED <<dst, working_hunks, hunks>> /\ Browsing
    BY <1>3 DEF Browse, tail, Browsing
  <2>2. Browsing'
    BY <1>3 DEF Browse, pagers, Redraw, Key, relative_move_pager, Goto, SwitchPager,
                HunkKey, Quit, move_to_next_diff, NoHunk, LeaveHunk, WalkDone, Browsing
  <2> QED
    BY <2>1, <2>2 DEF ForwardInv, Forward, NotInverted, KeyHunk, ValueHunk
<1>4. CASE Stopped \/ UNCHANGED sessionVars
  <2>1. UNCHANGED vars
    BY <1>4 DEF Stopped, sessionVars
  <2>2. pc' = pc
    BY <2>1 DEF vars
  <2>3. CASE Browsing
    BY <2>1, <2>2, <2>3 DEF ForwardInv, Browsing, Forward, NotInverted, KeyHunk, ValueHunk,
                            vars, tail
  <2>4. CASE ~Browsing
    <3>1. Inv /\ WalkInv /\ BackInv /\ MoveInv /\ TreeInv /\ DstInv /\ [Next]_vars
      BY <2>1, <2>4 DEF SessionInv, ForwardInv
    <3>2. Inv' /\ WalkInv' /\ BackInv'
      BY <3>1, NextKeepsInv, NextKeepsWalk, NextKeepsBack
    <3>3. MoveInv' /\ TreeInv' /\ DstInv'
      BY <3>1, <3>2, NextKeepsTree, NextKeepsDst
    <3> QED
      BY <2>2, <2>4, <3>2, <3>3 DEF ForwardInv, Browsing
  <2> QED
    BY <2>3, <2>4
<1> QED
  BY <1>1, <1>2, <1>3, <1>4 DEF SessionNext

\* Of the hunk that a search compares as equal to a byte, the byte is not past
\* the one after the last, and is past the last only if it is byte 1.
LEMMA ComparedReaches ==
  ASSUME NEW pager \in Side, NEW pos \in Nat, NEW hunk \in Hunk, NotInverted(hunk),
         CompareSearch(pager, pos, hunk) = 0
  PROVE  pos <= To(pager, hunk) \/ (pos = 1 /\ To(pager, hunk) = 0)
<1>1. /\ hunk.src_start \in Nat /\ hunk.src_end \in Nat
      /\ hunk.dst_start \in Nat /\ hunk.dst_end \in Nat
  BY DEF Hunk
<1>2. CASE pager = "src"
  BY <1>1, <1>2 DEF CompareSearch, Holds, To, NotInverted
<1>3. CASE pager # "src"
  BY <1>1, <1>3 DEF CompareSearch, Holds, To, NotInverted
<1> QED
  BY <1>2, <1>3

\* The hunk of a byte ends at the byte before it or later, or at the last byte of
\* the file; and the byte is looked up in it again.
LEMMA LookupReaches ==
  ASSUME HunkListTypeOK, Forward, NEW last \in Pointer, NEW pager \in Side, NEW pos \in Nat,
         NEW hunk, hunk = hi_diff_get_hunk(last, pager, pos), hunk # 0
  PROVE  /\ \/ To(pager, working_hunks[hunk]) + 1 >= pos
            \/ To(pager, working_hunks[hunk]) + 1 >= Size(pager)
         /\ hi_diff_get_hunk(hunk, pager, pos) = hunk
<1>1. hunk \in Pointer
  BY GetHunkType
<1>2. hunk \in 1 .. Len(working_hunks) /\ Len(working_hunks) \in Nat
  BY <1>1, LenProperties DEF Pointer, HunkListTypeOK
<1>3. /\ working_hunks[hunk] \in Hunk /\ NotInverted(working_hunks[hunk])
      /\ To(pager, working_hunks[hunk]) \in Nat
  BY <1>1, <1>2, HunkFields DEF Forward
<1>4. CASE CompareSearch(pager, pos, working_hunks[hunk]) = 0
  <2>1. hi_diff_get_hunk(hunk, pager, pos) = hunk
    BY <1>4 DEF hi_diff_get_hunk
  <2>2. \/ pos <= To(pager, working_hunks[hunk])
        \/ pos = 1 /\ To(pager, working_hunks[hunk]) = 0
    BY <1>3, <1>4, ComparedReaches
  <2> QED
    BY <1>3, <2>1, <2>2
<1>5. CASE CompareSearch(pager, pos, working_hunks[hunk]) # 0
  <2>1. hunk = g_tree_lookup(pager, pos)
    BY <1>5 DEF hi_diff_get_hunk
  <2>2. hi_diff_get_hunk(hunk, pager, pos) = hunk
    BY <1>5, <2>1 DEF hi_diff_get_hunk
  <2>3. \E n \in DOMAIN hunks : /\ hunk = hunks[n].value
                               /\ CompareSearch(pager, pos, KeyHunk(n)) = 0
    <3> DEFINE order == [n \in DOMAIN hunks |->
                           CompareSearch(pager, pos, working_hunks[hunks[n].key])]
               found == {n \in DOMAIN hunks : order[n] = 0 /\ Visits(shape, order, n)}
    <3>1. hunk = IF found = {} THEN 0 ELSE hunks[CHOOSE n \in found : TRUE].value
      BY <2>1 DEF g_tree_lookup
    <3>2. \A n \in found : n \in DOMAIN hunks /\ CompareSearch(pager, pos, KeyHunk(n)) = 0
      BY DEF KeyHunk
    <3> HIDE DEF found
    <3>3. found # {} /\ hunk = hunks[CHOOSE n \in found : TRUE].value
      BY <3>1
    <3> QED
      BY <3>2, <3>3
  <2>4. PICK n \in DOMAIN hunks : /\ hunk = hunks[n].value
                                  /\ CompareSearch(pager, pos, KeyHunk(n)) = 0
    BY <2>3
  <2>5. n \in 1 .. Len(hunks) /\ hunks[n].key \in 1 .. Len(working_hunks)
    <3> DEFINE Node == [key : 1 .. Len(working_hunks), value : 1 .. Len(working_hunks)]
    <3>1. hunks \in Seq(Node)
      BY DEF HunkListTypeOK
    <3> HIDE DEF Node
    <3>2. n \in 1 .. Len(hunks) /\ hunks[n] \in Node
      BY <3>1, ElementOfSeq, LenProperties
    <3> QED
      BY <3>2 DEF Node
  <2>6. /\ KeyHunk(n) \in Hunk /\ NotInverted(KeyHunk(n))
        /\ ValueHunk(n) = working_hunks[hunk]
    BY <2>4, <2>5, ElementOfSeq DEF KeyHunk, ValueHunk, Forward, HunkListTypeOK
  <2>7. \/ pos <= To(pager, KeyHunk(n))
        \/ pos = 1 /\ To(pager, KeyHunk(n)) = 0
    BY <2>4, <2>6, ComparedReaches
  <2>8. \/ To(pager, ValueHunk(n)) + 1 >= To(pager, KeyHunk(n))
        \/ To(pager, ValueHunk(n)) + 1 >= Size(pager)
    <3>1. KeyHunk(n).src_end \in Nat /\ ValueHunk(n).src_end \in Nat
      BY <1>3, <2>6 DEF Hunk
    <3> QED
      BY <2>5, <3>1 DEF Forward, To, Size
  <2>9. To(pager, KeyHunk(n)) \in Nat /\ Size(pager) \in Nat
    BY <2>6, Sizes, FileAssumption DEF Hunk, To
  <2> QED
    BY <1>3, <2>2, <2>6, <2>7, <2>8, <2>9
<1> QED
  BY <1>4, <1>5

\* A turn that leaves a hunk forwards goes forward or finds the same hunk again.
LEMMA LeavesForward ==
  ASSUME SessionInv, Forward, LeaveHunk, walk.forwards
  PROVE  LET step == offset'[focused] - offset[focused]
         IN  step >= 0 /\ (step > 0 \/ walk'.left < walk.left)
<1> DEFINE hunk == HunkAt(view)
           from == LookedUp(view)
           o == To(focused, working_hunks[hunk]) + 1
           moved == set_offset(from, focused, o)
           hunk2 == HunkAt(moved)
<1>1. /\ HunkListTypeOK /\ focused \in Side /\ cached \in Pointer
      /\ walk \in [left : Nat, forwards : BOOLEAN, bigdiff : BOOLEAN,
                  hunk : Pointer, hunk2 : Pointer]
      /\ offset[focused] \in Nat
  BY DEF SessionInv, PagerTypeOK, OffsetsInFiles
<1>2. /\ from \in Views /\ from.offset = offset /\ hunk \in Pointer
  BY ViewType
<1>3. /\ hunk # 0 /\ walk.left > 0
      /\ IF ~walk.bigdiff
         THEN /\ Becomes(moved)
              /\ walk' = [walk EXCEPT !.left = @ - 1, !.hunk = hunk]
         ELSE /\ Becomes(LookedUp(moved))
              /\ walk' = [walk EXCEPT !.left = LeftToGo(hunk, hunk2),
                                     !.hunk = hunk, !.hunk2 = hunk2]
  BY DEF LeaveHunk, MovedPast
<1>4. hunk = hi_diff_get_hunk(cached, focused, offset[focused])
  BY DEF HunkAt, view
<1>5. from.cached = hunk
  BY <1>3, <1>4 DEF LookedUp, LastHunk, view
<1>6. /\ \/ o >= offset[focused]
         \/ o >= Size(focused)
      /\ hi_diff_get_hunk(hunk, focused, offset[focused]) = hunk
  BY <1>1, <1>3, <1>4, LookupReaches
<1>7. o \in Nat /\ Size(focused) \in Nat
  BY <1>1, <1>2, <1>3, HunkFields, Sizes, FileAssumption
<1>8. /\ moved \in Views
      /\ IF o >= Size(focused) THEN moved = [from EXCEPT !.error = "Reached EOF"]
         ELSE moved.offset[focused] = o
  <2>1. ~(o < 0) /\ o \in Int
    BY <1>7
  <2> QED
    BY <1>1, <1>2, <2>1, SetOffsetGoes
<1>9. LookedUp(moved).offset = moved.offset
  BY <1>8, LookedUpType
<1>10. offset' = moved.offset
  BY <1>3, <1>9 DEF Becomes
<1> HIDE DEF from, o
<1>11. ASSUME moved.offset[focused] = offset[focused] PROVE walk'.left < walk.left
  <2>1. moved.cached = hunk
    <3>1. CASE o >= Size(focused)
      BY <1>2, <1>5, <1>8, <3>1 DEF Views
    <3>2. CASE ~(o >= Size(focused))
      <4>1. o = offset[focused]
        BY <1>8, <1>11, <3>2
      <4>2. moved = [from EXCEPT !.offset[focused] = o,
                                 !.offset[Other(focused)] =
                                    LinkedOffset(focused, o, working_hunks[hunk]),
                                 !.cached = hunk]
        <5>1. ~(o < 0)
          BY <1>7
        <5>2. hi_diff_get_hunk(from.cached, focused, o) = hunk
          BY <1>5, <1>6, <4>1
        <5> QED
          BY <1>3, <3>2, <5>1, <5>2 DEF set_offset
      <4> QED
        BY <1>2, <4>2 DEF Views
    <3> QED
      BY <3>1, <3>2
  <2>2. hunk2 = hunk
    BY <1>6, <1>11, <2>1 DEF HunkAt
  <2>3. LeftToGo(hunk, hunk2) = 0
    BY <1>3, <2>2 DEF LeftToGo
  <2> HIDE DEF hunk, moved, hunk2
  <2>4. walk'.left \in {walk.left - 1, 0}
    BY <1>1, <1>3, <2>3
  <2>5. walk.left \in Nat /\ walk.left > 0
    BY <1>1, <1>3
  <2> QED
    BY <2>4, <2>5
<1>12. moved.offset[focused] >= offset[focused] /\ moved.offset[focused] \in Nat
  <2>1. CASE o >= Size(focused)
    <3>1. moved.offset = offset
      BY <1>2, <1>8, <2>1 DEF Views
    <3> QED
      BY <1>1, <3>1
  <2>2. CASE ~(o >= Size(focused))
    BY <1>1, <1>6, <1>7, <1>8, <2>2
  <2> QED
    BY <2>1, <2>2
<1> HIDE DEF moved
<1> QED
  BY <1>1, <1>10, <1>11, <1>12

\* ] and } only go forward, and a turn that stays where it is counts, on all
\* files, for every tree and with every table of hashes.
THEOREM KeysGoForward == SessionSpec => NextGoesForward
<1> DEFINE Goes == pc = "next" /\ walk.left > 0 /\ walk.forwards =>
                     LET step == offset'[focused] - offset[focused]
                     IN  step >= 0 /\ (step > 0 \/ walk'.left < walk.left)
<1>1. SessionInv /\ ForwardInv /\ [SessionNext]_sessionVars => [Goes]_sessionVars
  <2> SUFFICES ASSUME SessionInv, ForwardInv, SessionNext,
                      pc = "next", walk.left > 0, walk.forwards
               PROVE  Goes
    OBVIOUS
  <2>1. ~Calculate /\ ~Open /\ ~Stopped
    BY CalculatePC DEF PC, Open, Stopped
  <2>2. NoHunk \/ LeaveHunk
    <3>1. walk.left # 0
      BY DEF SessionInv, PagerTypeOK
    <3> QED
      BY <2>1, <3>1 DEF SessionNext, Browse, pagers, Redraw, Key, relative_move_pager, Goto,
                        SwitchPager, HunkKey, Quit, move_to_next_diff, WalkDone
  <2>3. CASE NoHunk
    <3>1. offset' = offset /\ walk' = [walk EXCEPT !.left = 0, !.hunk = 0]
      BY <2>3 DEF NoHunk
    <3>2. offset[focused] \in Nat /\ walk'.left = 0
      BY <3>1 DEF SessionInv, PagerTypeOK, OffsetsInFiles
    <3> QED
      BY <3>1, <3>2
  <2>4. CASE LeaveHunk
    BY <2>4, LeavesForward DEF ForwardInv, Browsing
  <2> QED
    BY <2>2, <2>3, <2>4
<1>2. SessionInit => SessionInv /\ ForwardInv
  BY InitSession, InitForward
<1>3. SessionInv /\ ForwardInv /\ [SessionNext]_sessionVars => SessionInv' /\ ForwardInv'
  BY NextKeepsSession, NextKeepsForward
<1> QED
  BY <1>1, <1>2, <1>3, PTL DEF SessionSpec, NextGoesForward
=============================================================================
