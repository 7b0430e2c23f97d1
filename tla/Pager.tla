------------------------------- MODULE Pager -------------------------------
(***************************************************************************)
(* The two linked pagers of src/src/hi_ncurses_file_pager.c over a finished*)
(* diff.  The main loop redraws, which looks up the hunk of every byte     *)
(* shown, and acts on a key; moving the focused pager moves the other one  *)
(* to the corresponding byte.  The keys that go from hunk to hunk loop     *)
(* over lookups and moves (move_to_next_diff).                             *)
(***************************************************************************)
EXTENDS HunkLookup

CONSTANTS bytes_per_row, \* the bytes that fit in a row
          Rows,          \* the rows a pager shows
          Strides,       \* from a row to the next: bytes_per_row, or the user's number
          MaxMove,       \* bound: the longest relative move of a key
          MaxTimes,      \* bound: the largest count of hunks to go
          big_hunk_size  \* the hunks { and } skip are shorter: 64 in the code

ASSUME PagerAssumption ==
  /\ bytes_per_row \in Nat \ {0}
  /\ Rows \in Nat \ {0}
  /\ Strides \subseteq Nat \ {0} /\ Strides # {}
  /\ MaxMove \in Nat /\ MaxTimes \in Nat
  /\ big_hunk_size \in Nat

VARIABLES
  offset,   \* of each pager, named after its file
  focused,  \* the pager the keys act on
  error,    \* the message for the ruler
  walk      \* move_to_next_diff: the hunks left to go (0 after a break), the
            \* direction, whether only big hunks count, hunk and hunk2

screen == <<cached, shape, offset, focused, error, walk>>

Side == {"src", "dst"}
Other(pager) == IF pager = "src" THEN "dst" ELSE "src"
Size(pager) == IF pager = "src" THEN src.size ELSE dst.size

PagerInit ==
  /\ cached = 0
  /\ shape = << >>
  /\ offset = [pager \in Side |-> 0]
  /\ focused = "src"
  /\ error = "none"
  /\ walk = [left |-> 0, forwards |-> TRUE, bigdiff |-> FALSE, hunk |-> 0, hunk2 |-> 0]

-----------------------------------------------------------------------------
From(pager, hunk) == IF pager = "src" THEN hunk.src_start ELSE hunk.dst_start
To(pager, hunk) == IF pager = "src" THEN hunk.src_end ELSE hunk.dst_end
Span(pager, hunk) == To(pager, hunk) - From(pager, hunk)

Abs(n) == IF n < 0 THEN 0 - n ELSE n

\* A double cast to off_t: toward zero.
Truncated(n, d) ==
  LET quotient == Abs(n) \div Abs(d)
  IN  IF (n < 0) = (d < 0) THEN quotient ELSE 0 - quotient

\* The byte of the other file that corresponds to byte o of a hunk: as far into
\* the hunk, in proportion for a DIFF hunk, moved into the file.
LinkedOffset(pager, o, hunk) ==
  LET other == Other(pager)
      into == o - From(pager, hunk)
      span == Span(pager, hunk)
      linked == IF hunk.type # "DIFF" THEN From(other, hunk) + into
                ELSE IF span = 0 THEN From(other, hunk)
                ELSE Truncated(From(other, hunk) * span + into * Span(other, hunk), span)
  IN  IF linked < 0 THEN 0
      ELSE IF linked >= Size(other) THEN Size(other)
      ELSE linked

\* What set_offset and the lookups change.
view == [cached |-> cached, offset |-> offset, error |-> error]

Becomes(v) == cached' = v.cached /\ offset' = v.offset /\ error' = v.error

\* Bug: the byte after the last one is taken for one of the file.
SetOffsetToEnd(v, pager, o) ==
  IF o < 0 THEN [v EXCEPT !.error = "Reached BOF"]
  ELSE IF o > Size(pager) THEN [v EXCEPT !.error = "Reached EOF"]
  ELSE [v EXCEPT !.offset[pager] = o]

set_offset(v, pager, o) ==
  IF o < 0 THEN [v EXCEPT !.error = "Reached BOF"]
  ELSE IF o >= Size(pager) THEN [v EXCEPT !.error = "Reached EOF"]
  ELSE LET hunk == hi_diff_get_hunk(v.cached, pager, o)
       IN  IF hunk = 0 THEN [v EXCEPT !.offset[pager] = o]
           ELSE [v EXCEPT !.offset[pager] = o,
                          !.offset[Other(pager)] =
                             LinkedOffset(pager, o, working_hunks[hunk]),
                          !.cached = hunk]

\* The hunk at the offset of the focused pager.
HunkAt(v) == hi_diff_get_hunk(v.cached, focused, v.offset[focused])

LookedUp(v) == [v EXCEPT !.cached = LastHunk(@, focused, v.offset[focused])]

-----------------------------------------------------------------------------
\* The bytes drawn in a row.
RowLength(stride) == IF stride < bytes_per_row THEN stride ELSE bytes_per_row

\* The place in the file of the n-th byte of the screen, from 0.
ShownByte(pager, stride, n) ==
  offset[pager] + (n % RowLength(stride)) + stride * (n \div RowLength(stride))

\* What drawing the bytes of a pager leaves in last_hunk: the hunk of each byte
\* shown is looked up.  A number of bytes in a row that exceeds what fits in it
\* leaves a gap between the rows.
Drawn(last, pager, stride) ==
  LET cells == Rows * RowLength(stride)
      after[n \in 0 .. cells] ==
        IF n = 0 THEN last
        ELSE LET o == ShownByte(pager, stride, n - 1)
             IN  IF o < Size(pager) THEN LastHunk(after[n - 1], pager, o)
                 ELSE after[n - 1]
  IN  after[cells]

Redraw ==
  /\ pc = "redraw"
  /\ \E s \in Strides : \E after \in {Drawn(cached, "src", s)} :
       \E d \in Strides : cached' = Drawn(after, "dst", d)
  /\ error' = "none"
  /\ pc' = "key"
  /\ UNCHANGED <<shape, offset, focused, walk>>

\* The arrow and page keys, with a count from the buffer.
relative_move_pager(move) ==
  /\ pc = "key"
  /\ Becomes(set_offset(view, focused, offset[focused] + move))
  /\ pc' = "redraw"
  /\ UNCHANGED <<shape, focused, walk>>

\* KEY_HOME, KEY_END, g and G, where a negative number counts from the end.
Goto(o) ==
  /\ pc = "key"
  /\ Becomes(set_offset(view, focused, IF o < 0 THEN Size(focused) + o ELSE o))
  /\ pc' = "redraw"
  /\ UNCHANGED <<shape, focused, walk>>

SwitchPager ==
  /\ pc = "key"
  /\ focused' = Other(focused)
  /\ pc' = "redraw"
  /\ UNCHANGED <<cached, shape, offset, error, walk>>

\* [ and ], or { and } for the big hunks; the count may be negative.
HunkKey(times, bigdiff) ==
  /\ pc = "key"
  /\ walk' = [left |-> IF times < 0 THEN -times ELSE times, forwards |-> times >= 0,
              bigdiff |-> bigdiff, hunk |-> 0, hunk2 |-> 0]
  /\ pc' = "next"
  /\ UNCHANGED <<cached, shape, offset, focused, error>>

\* One turn of the loop of move_to_next_diff finds no hunk and ends the loop.
NoHunk ==
  /\ pc = "next" /\ walk.left > 0
  /\ HunkAt(view) = 0
  /\ walk' = [walk EXCEPT !.left = 0, !.hunk = 0]
  /\ UNCHANGED <<pc, cached, shape, offset, focused, error>>

\* A hunk that { and } go past.
IsSmall(hunk) ==
  \/ hunk.type # "DIFF"
  \/ Span("src", hunk) < big_hunk_size
  \/ Span("dst", hunk) < big_hunk_size

\* Bug: the direction is not looked at.
MovedBefore(from, hunk) ==
  set_offset(from, focused, From(focused, working_hunks[hunk]) - 1)

\* The move out of a hunk.
MovedPast(from, hunk) ==
  set_offset(from, focused,
             IF walk.forwards THEN To(focused, working_hunks[hunk]) + 1
             ELSE From(focused, working_hunks[hunk]) - 1)

\* Bug: no end when the pager has stayed in the hunk.
LeftToGoUnbroken(hunk, hunk2) ==
  IF hunk2 # 0 /\ IsSmall(working_hunks[hunk2]) THEN walk.left ELSE walk.left - 1

\* The count after { or } has moved from hunk to hunk2.
LeftToGo(hunk, hunk2) ==
  IF hunk2 = 0 THEN walk.left - 1
  ELSE IF hunk2 = hunk THEN 0
  ELSE IF IsSmall(working_hunks[hunk2]) THEN walk.left
  ELSE walk.left - 1

\* One turn that leaves the hunk it is in.
LeaveHunk ==
  /\ pc = "next" /\ walk.left > 0
  /\ \E hunk \in {HunkAt(view)} \ {0} : \E from \in {LookedUp(view)} :
       \E moved \in {MovedPast(from, hunk)} : \E hunk2 \in {HunkAt(moved)} :
         IF ~walk.bigdiff
         THEN /\ Becomes(moved)
              /\ walk' = [walk EXCEPT !.left = @ - 1, !.hunk = hunk]
         ELSE /\ \E after \in {LookedUp(moved)} : Becomes(after)
              /\ walk' = [walk EXCEPT !.left = LeftToGo(hunk, hunk2),
                                      !.hunk = hunk, !.hunk2 = hunk2]
  /\ UNCHANGED <<pc, shape, focused>>

\* After the loop { and } go to the start of the hunk they have reached.
WalkDone ==
  /\ pc = "next" /\ walk.left = 0
  /\ \E hunk \in {HunkAt(view)} : \E from \in {LookedUp(view)} :
       \E moved \in {IF ~walk.bigdiff \/ walk.hunk = walk.hunk2 \/ hunk = 0
                     THEN view
                     ELSE set_offset(from, focused, From(focused, working_hunks[hunk]))} :
         Becomes(moved)
  /\ pc' = "redraw"
  /\ walk' = [walk EXCEPT !.hunk = 0, !.hunk2 = 0]
  /\ UNCHANGED <<shape, focused>>

Quit ==
  /\ pc = "key"
  /\ pc' = "quit"
  /\ UNCHANGED screen

Key ==
  \/ \E move \in -MaxMove .. MaxMove : relative_move_pager(move)
  \/ \E o \in -MaxMove .. MaxSize : Goto(o)
  \/ SwitchPager
  \/ \E times \in -MaxTimes .. MaxTimes : \E bigdiff \in BOOLEAN : HunkKey(times, bigdiff)
  \/ Quit

move_to_next_diff == NoHunk \/ LeaveHunk \/ WalkDone

pagers == Redraw \/ Key \/ move_to_next_diff
=============================================================================
