------------------------------ MODULE HunkList ------------------------------
(***************************************************************************)
(* The hunks of src/src/hi_diff.c and what every algorithm ends with:      *)
(* backtrack_hunks grows the indexed hunks of the working list backwards   *)
(* over its predecessors and moves the list into the tree diff->hunks.     *)
(*                                                                         *)
(* working_hunks is the GList as a sequence.  A pointer to a hunk is its   *)
(* index; once g_list_free has freed the list, working_hunks stands for    *)
(* the memory of the hunks, which the tree points to.                      *)
(***************************************************************************)
EXTENDS FileImage, Sequences

VARIABLES
  src, dst,       \* the two files
  pc,             \* where the program is
  working_hunks,  \* diff->working_hunks
  list,           \* the element the loops of backtrack_hunks are at
  otherhunk,      \* the hunk last put into the tree, 0 for NULL
  hunks           \* diff->hunks: the nodes in the order of their keys, each
                  \* with pointers to two hunks, its key and its value

HunkType == {"DIFF", "SAME", "SAME_INDEXED", "SAME_BACKTRACKED"}

Hunk == [type : HunkType, src_start : Nat, src_end : Nat,
         dst_start : Nat, dst_end : Nat]

HunkListTypeOK ==
  /\ src \in Files
  /\ dst \in Files
  /\ working_hunks \in Seq(Hunk)
  /\ list \in Nat
  /\ otherhunk \in 0 .. Len(working_hunks)
  /\ hunks \in Seq([key : 1 .. Len(working_hunks),
                    value : 1 .. Len(working_hunks)])

\* Bug: the ends are not clamped.
UnclampedHunk(type, src_start, src_end, dst_start, dst_end) ==
  [type |-> type, src_start |-> src_start, src_end |-> src_end,
   dst_start |-> dst_start, dst_end |-> dst_end]

\* The hunk insert_hunk adds to the list: an end before its start is moved to
\* the start, so that a hunk with no byte on one side gets one.
ClampedHunk(type, src_start, src_end, dst_start, dst_end) ==
  [type |-> type,
   src_start |-> src_start,
   src_end |-> IF src_end < src_start THEN src_start ELSE src_end,
   dst_start |-> dst_start,
   dst_end |-> IF dst_end < dst_start THEN dst_start ELSE dst_end]

\* insert_hunk and the reversal before backtrack_hunks: the code prepends and
\* reverses the whole list once.
insert_hunk(hunk) == Append(working_hunks, hunk)

-----------------------------------------------------------------------------
\* The first loop of backtrack_hunks.

\* Reading backwards from the starts of hunk, n bytes match and the next does
\* not, or there is none.
MatchesBack(hunk, n) ==
  LET Same(k) == Peek(src, hunk.src_start - k) = Peek(dst, hunk.dst_start - k)
  IN  /\ n <= hunk.src_start + 1
      /\ n <= hunk.dst_start + 1
      /\ \A k \in 0 .. n - 1 : Same(k)
      /\ (n <= hunk.src_start /\ n <= hunk.dst_start) => ~Same(n)

\* hunk starting one past the byte where n matching bytes end.
MovedBack(hunk, n) ==
  [hunk EXCEPT !.type = "SAME_BACKTRACKED",
               !.src_start = @ + 1 - n,
               !.dst_start = @ + 1 - n]

StartsBefore(other, hunk) ==
  /\ other.src_start <= hunk.src_start
  /\ other.dst_start <= hunk.dst_start

\* other cut so that it ends where hunk starts.
TrimmedTo(other, hunk) ==
  [other EXCEPT
     !.src_end = IF hunk.src_start = 0 THEN 0 ELSE hunk.src_start - 1,
     !.dst_end = IF hunk.dst_start = 0 THEN 0 ELSE hunk.dst_start - 1]

\* Bug: only the starts in src are compared.
IsKeptBySrc(kept, hunk) ==
  LET Before(k) == working_hunks[k].src_start <= hunk.src_start
  IN  /\ kept > 0 => Before(kept)
      /\ \A k \in kept + 1 .. list - 1 : ~Before(k)

\* The nearest element before list that starts before hunk is kept, 0 for none;
\* those between the two are removed.
IsKept(kept, hunk) ==
  /\ kept > 0 => StartsBefore(working_hunks[kept], hunk)
  /\ \A k \in kept + 1 .. list - 1 : ~StartsBefore(working_hunks[k], hunk)

\* Bug: the predecessor that is cut is removed as well.
DropsKept(kept, hunk) ==
  SubSeq(working_hunks, 1, kept - 1)
    \o <<hunk>>
    \o SubSeq(working_hunks, list + 1, Len(working_hunks))

AfterBacktrack(kept, hunk) ==
  SubSeq(working_hunks, 1, kept - 1)
    \o (IF kept = 0 THEN << >> ELSE <<TrimmedTo(working_hunks[kept], hunk)>>)
    \o <<hunk>>
    \o SubSeq(working_hunks, list + 1, Len(working_hunks))

AtIndexed ==
  /\ pc = "backtrack"
  /\ list <= Len(working_hunks)
  /\ working_hunks[list].type = "SAME_INDEXED"

FaultsBack == LET hunk == working_hunks[list]
              IN  Faults(src, hunk.src_start) \/ Faults(dst, hunk.dst_start)

BacktrackHunk ==
  /\ AtIndexed
  /\ ~FaultsBack
  /\ \E n \in 0 .. MaxSize + 1 : \E kept \in 0 .. list - 1 :
       LET hunk == MovedBack(working_hunks[list], n)
       IN  /\ MatchesBack(working_hunks[list], n)
           /\ IsKept(kept, hunk)
           /\ working_hunks' = AfterBacktrack(kept, hunk)
           /\ list' = kept + 2
  /\ UNCHANGED <<src, dst, pc, otherhunk, hunks>>

BacktrackFault ==
  /\ AtIndexed
  /\ FaultsBack
  /\ pc' = "fault"
  /\ UNCHANGED <<src, dst, working_hunks, list, otherhunk, hunks>>

BacktrackSkip ==
  /\ pc = "backtrack"
  /\ list <= Len(working_hunks)
  /\ working_hunks[list].type # "SAME_INDEXED"
  /\ list' = list + 1
  /\ UNCHANGED <<src, dst, pc, working_hunks, otherhunk, hunks>>

BacktrackDone ==
  /\ pc = "backtrack"
  /\ list > Len(working_hunks)
  /\ pc' = "tree"
  /\ list' = 1
  /\ otherhunk' = 0
  /\ UNCHANGED <<src, dst, working_hunks, hunks>>

-----------------------------------------------------------------------------
\* The second loop of backtrack_hunks: the move into the tree.

\* compare_diff_hunks for two hunks of the list: by start, then by end, in src.
compare_diff_hunks(hunk1, hunk2) ==
  IF hunk1.src_start = hunk2.src_start
  THEN hunk1.src_end - hunk2.src_end
  ELSE hunk1.src_start - hunk2.src_start

\* Bug: the first byte of one hunk is compared with the last of the other.
ContinuesOffByOne(hunk, other) ==
  /\ other.type = hunk.type
  /\ hunk.src_start = other.src_end
  /\ hunk.dst_start = other.dst_end

\* hunk goes on where other ends, in both files, and is of the same type.
Continues(hunk, other) ==
  /\ other.type = hunk.type
  /\ hunk.src_start = other.src_end + 1
  /\ hunk.dst_start = other.dst_end + 1

AtTree == pc = "tree" /\ list <= Len(working_hunks)

Coalesces == otherhunk # 0 /\ Continues(working_hunks[list], working_hunks[otherhunk])

\* Bug: only dst is extended.
CoalesceDst ==
  /\ AtTree
  /\ Coalesces
  /\ working_hunks' = [working_hunks EXCEPT
                         ![otherhunk].dst_end = working_hunks[list].dst_end]
  /\ list' = list + 1
  /\ UNCHANGED <<src, dst, pc, otherhunk, hunks>>

TreeCoalesce ==
  /\ AtTree
  /\ Coalesces
  /\ working_hunks' = [working_hunks EXCEPT
                         ![otherhunk].src_end = working_hunks[list].src_end,
                         ![otherhunk].dst_end = working_hunks[list].dst_end]
  /\ list' = list + 1
  /\ UNCHANGED <<src, dst, pc, otherhunk, hunks>>

\* Bug: the operands are swapped.
CompareSwapped(n) == compare_diff_hunks(working_hunks[hunks[n].key], working_hunks[list])

Compare(n) == compare_diff_hunks(working_hunks[list], working_hunks[hunks[n].key])

\* g_tree_insert: an equal key keeps its node and its key and loses its value;
\* otherwise a new node goes in at its place in the order.
TreeInsert ==
  /\ AtTree
  /\ ~Coalesces
  /\ \/ \E n \in DOMAIN hunks :
          /\ Compare(n) = 0
          /\ hunks' = [hunks EXCEPT ![n].value = list]
     \/ \E n \in 0 .. Len(hunks) :
          /\ \A m \in 1 .. n : Compare(m) > 0
          /\ \A m \in n + 1 .. Len(hunks) : Compare(m) < 0
          /\ hunks' = SubSeq(hunks, 1, n) \o <<[key |-> list, value |-> list]>>
                        \o SubSeq(hunks, n + 1, Len(hunks))
  /\ otherhunk' = list
  /\ list' = list + 1
  /\ UNCHANGED <<src, dst, pc, working_hunks>>

TreeDone ==
  /\ pc = "tree"
  /\ list > Len(working_hunks)
  /\ pc' = "done"
  /\ UNCHANGED <<src, dst, working_hunks, list, otherhunk, hunks>>

backtrack_hunks ==
  \/ BacktrackHunk
  \/ BacktrackFault
  \/ BacktrackSkip
  \/ BacktrackDone
  \/ TreeCoalesce
  \/ TreeInsert
  \/ TreeDone
=============================================================================
