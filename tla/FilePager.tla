----------------------------- MODULE FilePager -----------------------------
(***************************************************************************)
(* One pager of src/src/hi_ncurses_file_pager.c: its settings, the layout  *)
(* derived from them, and what a redraw reads and paints.  The rest of the *)
(* program is the environment: the terminal is resized, and the linked     *)
(* pager, if there is one, moves this one and hands over its settings.     *)
(*                                                                         *)
(* The bytes of the file are left out: a highlighter is modelled by what   *)
(* it can read and write whatever the bytes are.                           *)
(***************************************************************************)
EXTENDS FileImage, FiniteSets, Sequences

CONSTANTS Sizes,         \* the sizes of the file
          Terminals,     \* the terminals, as COLS * 1000 + LINES
          Counts,        \* bound: the numbers typed, beside -1
          RULERCOLS_32BIT  \* the ruler takes a line less above: 106

ASSUME LayoutAssumption ==
  /\ Sizes \subseteq Nat \ {0}
  /\ Terminals \subseteq Nat /\ Terminals # {}
  /\ Counts \subseteq Nat
  /\ RULERCOLS_32BIT \in Nat

BufferValues == {-1} \cup Counts

COLS(terminal) == terminal \div 1000
LINES(terminal) == terminal % 1000

\* A cast from double to int, and the division of ints: toward zero.
Quotient(n, d) == IF n < 0 THEN 0 - ((0 - n) \div d) ELSE n \div d

\* hi_ncurses_display_init: how bytes are laid out, the columns a byte takes up
\* with its gap and without it, and those kept free in a row.
display_list ==
  << [name |-> "Hex8+ASCII", fixed |-> FALSE, width_multiple |-> 4, width_constant |-> 1, cell |-> 2],
     [name |-> "Hex8",       fixed |-> FALSE, width_multiple |-> 3, width_constant |-> 0, cell |-> 2],
     [name |-> "Oct8",       fixed |-> FALSE, width_multiple |-> 4, width_constant |-> 0, cell |-> 3],
     [name |-> "UInt8",      fixed |-> FALSE, width_multiple |-> 4, width_constant |-> 0, cell |-> 3],
     [name |-> "SInt8",      fixed |-> FALSE, width_multiple |-> 5, width_constant |-> 0, cell |-> 4],
     [name |-> "ASCII",      fixed |-> TRUE,  width_multiple |-> 1, width_constant |-> 0, cell |-> 1],
     [name |-> "Binary",     fixed |-> TRUE,  width_multiple |-> 9, width_constant |-> 0, cell |-> 8] >>

\* hi_ncurses_location_init: the bases of the locations.
location_list == << 16, 10, 8 >>

\* hi_ncurses_highlight_init.
highlight_list == << "ctype", "none", "mpeg", "mpeg2-video" >>

\* hi_ncurses_common_get with relative 1 and -1: the list is a circle.
common_get_next(list, i) == IF i = Len(list) THEN 1 ELSE i + 1
common_get_previous(list, i) == IF i = 1 THEN Len(list) ELSE i - 1

VARIABLES
  pc,        \* the main loop: "redraw", "key" or "fault"
  size,      \* file->size
  linked,    \* there is a linked pager
  window,    \* width and height
  settings,  \* display_mode, location_mode and highlighter as places in their
             \* lists, byte_grouping and set_bytes_per_row
  layout,    \* what update_bytes_per_line leaves: bytes_in_location,
             \* remaining_bytes_per_row and bytes_per_row
  offset

vars == <<pc, size, linked, window, settings, layout, offset>>

Window == [width : Nat, height : Int]

Settings == [display_mode : DOMAIN display_list, location_mode : DOMAIN location_list,
             highlighter : DOMAIN highlight_list, byte_grouping : Int,
             set_bytes_per_row : Nat]

Layout == [bytes_in_location : Nat, remaining_bytes_per_row : Int, bytes_per_row : Int]

TypeOK ==
  /\ pc \in {"redraw", "key", "fault"}
  /\ size \in Sizes
  /\ linked \in BOOLEAN
  /\ window \in Window
  /\ settings \in Settings
  /\ layout \in Layout
  /\ offset \in 0 .. size

-----------------------------------------------------------------------------
BYTES_FOR_BORDER == 4

\* The digits of n: as many as there are powers of the base up to n.
Digits(n, base) == Cardinality({x \in 0 .. n : \A y \in 0 .. x : base ^ y <= n})

\* Bug: the gaps between the groups are forgotten.
UngroupedBytesPerLine(mode, remaining_width, byte_grouping) ==
  Quotient(remaining_width - mode.width_constant, mode.width_multiple)

\* gen8mode_bytes_per_line and gen8mode_fixedbytes_per_line.  The quotient is
\* taken in floating point by the code and exactly here.
bytes_per_line(mode, remaining_width, byte_grouping) ==
  IF mode.fixed THEN Quotient(remaining_width, mode.width_multiple)
  ELSE IF byte_grouping > 0
  THEN Quotient((remaining_width - mode.width_constant) * byte_grouping,
                mode.width_multiple * byte_grouping + 1)
  ELSE Quotient(remaining_width - mode.width_constant, mode.width_multiple)

update_bytes_per_line(n, w, s) ==
  LET digits == Digits(n, location_list[s.location_mode])
      remaining == w.width - (digits + BYTES_FOR_BORDER)
  IN  [bytes_in_location |-> digits,
       remaining_bytes_per_row |-> remaining,
       bytes_per_row |-> bytes_per_line(display_list[s.display_mode], remaining,
                                        s.byte_grouping)]

RULER_LINES(terminal) == IF COLS(terminal) > RULERCOLS_32BIT THEN 5 ELSE 6

\* PAGER_WIDTH_PAIR or PAGER_WIDTH_SOLO, and PAGER_HEIGHT.
WindowFor(terminal) ==
  [width |-> IF linked THEN COLS(terminal) \div 2 ELSE COLS(terminal),
   height |-> LINES(terminal) - RULER_LINES(terminal)]

\* hi_ncurses_fpager_new.
Init ==
  /\ pc = "redraw"
  /\ size \in Sizes
  /\ linked \in BOOLEAN
  /\ window \in {WindowFor(terminal) : terminal \in Terminals}
  /\ settings = [display_mode |-> 1, location_mode |-> 1, highlighter |-> 1,
                 byte_grouping |-> 4, set_bytes_per_row |-> 0]
  /\ layout = update_bytes_per_line(size, window, settings)
  /\ offset = 0

-----------------------------------------------------------------------------
\* What a redraw accesses.

Smaller(m, n) == IF m < n THEN m ELSE n

rows == window.height - 2

\* The bytes drawn in a row, and the bytes from one row to the next.
bytes == IF settings.set_bytes_per_row = 0 THEN layout.bytes_per_row
         ELSE Smaller(settings.set_bytes_per_row, layout.bytes_per_row)

\* Bug: the row length that was set is not looked at.
FittedStride == layout.bytes_per_row

stride == IF settings.set_bytes_per_row = 0 THEN layout.bytes_per_row
          ELSE settings.set_bytes_per_row

\* The length of highlight_colours, which calloc refuses if it is negative.
screen == rows * bytes

\* The bytes drawn, by row and place in the row.
DrawnAt(cell) == offset + cell[2] + stride * cell[1]

Drawn == {cell \in (0 .. rows - 1) \X (0 .. bytes - 1) : DrawnAt(cell) < size}

highlight == highlight_list[settings.highlighter]

\* highlight_mpeg2_video_block looks for start codes where five bytes are left.
StartCodes == {i \in 0 .. screen - 1 : i + 4 < screen}

\* The places of highlight_colours that the highlighter writes: a start code
\* colours four at once.
Writes ==
  CASE highlight = "ctype" -> 0 .. screen - 1
    [] highlight = "mpeg2-video" ->
         (0 .. screen - 1) \cup UNION {i .. i + 3 : i \in StartCodes}
    [] OTHER -> {}

\* The bytes of the file that the block highlighters read: ctype every byte of
\* the screen, mpeg2-video those before and in a start code.
BlockReads ==
  CASE highlight = "ctype" -> {offset + i : i \in 0 .. screen - 1}
    [] highlight = "mpeg2-video" -> UNION {offset + i .. offset + i + 3 : i \in StartCodes}
    [] OTHER -> {}

\* Bug: no look at the end of the file.
UnguardedMpegReads(o) == {o, o + 1, o + 2}

\* What mpeg_highlight reads for the byte at o.
MpegReads(o) == IF o + 2 < size THEN {o + 1, o + 2} ELSE {}

ByteReads ==
  {DrawnAt(cell) : cell \in Drawn}
    \cup (IF highlight = "mpeg" THEN UNION {MpegReads(DrawnAt(cell)) : cell \in Drawn}
          ELSE {})

\* hi_ncurses_redraw_ruler: one, two and four bytes at the offset.
RulerReads == UNION {offset .. offset + n - 1 : n \in {k \in {1, 2, 4} : offset + k <= size}}

\* The places of highlight_colours that are read.
ColourReads == {DrawnAt(cell) - offset : cell \in Drawn}

Reads == BlockReads \cup ByteReads \cup RulerReads

\* Accesses outside of the mapping, or of the colours, may fault or may not.
OutOfBounds ==
  \/ \E o \in Reads : o >= Mapped([size |-> size])
  \/ \E i \in Writes \cup ColourReads : i >= screen

\* calloc has failed and a block highlighter writes through NULL, over a length
\* that is huge as a size_t.
WritesNull == screen < 0 /\ highlight \in {"ctype", "mpeg2-video"}

-----------------------------------------------------------------------------
Redraw ==
  /\ pc = "redraw"
  /\ ~WritesNull
  /\ pc' = "key"
  /\ UNCHANGED <<size, linked, window, settings, layout, offset>>

RedrawFault ==
  /\ pc = "redraw"
  /\ OutOfBounds \/ WritesNull
  /\ pc' = "fault"
  /\ UNCHANGED <<size, linked, window, settings, layout, offset>>

\* KEY_RESIZE and hi_ncurses_fpager_resize, which the next redraw calls first.
Resize(terminal) ==
  /\ pc = "key"
  /\ window' = WindowFor(terminal)
  /\ layout' = update_bytes_per_line(size, window', settings)
  /\ pc' = "redraw"
  /\ UNCHANGED <<size, linked, settings, offset>>

\* New settings, and the layout that goes with them.
Set(s) ==
  /\ settings' = s
  /\ layout' = update_bytes_per_line(size, window, s)
  /\ pc' = "redraw"
  /\ UNCHANGED <<size, linked, window, offset>>

\* The keys v and V, l and L, and h and H.
ModeKey ==
  /\ pc = "key"
  /\ \/ Set([settings EXCEPT !.display_mode = common_get_next(display_list, @)])
     \/ Set([settings EXCEPT !.display_mode = common_get_previous(display_list, @)])
     \/ Set([settings EXCEPT !.location_mode = common_get_next(location_list, @)])
     \/ Set([settings EXCEPT !.location_mode = common_get_previous(location_list, @)])
     \/ Set([settings EXCEPT !.highlighter = common_get_next(highlight_list, @)])
     \/ Set([settings EXCEPT !.highlighter = common_get_previous(highlight_list, @)])

\* The key with a comma.
GroupingKey(buffer_val) ==
  /\ pc = "key"
  /\ Set([settings EXCEPT !.byte_grouping = buffer_val])

\* The key with a point: the row length is no part of the layout.
RowKey(buffer_val) ==
  /\ pc = "key"
  /\ settings' = [settings EXCEPT !.set_bytes_per_row = IF buffer_val >= 0 THEN buffer_val ELSE 0]
  /\ pc' = "redraw"
  /\ UNCHANGED <<size, linked, window, layout, offset>>

\* The settings a pager can have.
Settable ==
  [display_mode : DOMAIN display_list, location_mode : DOMAIN location_list,
   highlighter : DOMAIN highlight_list, byte_grouping : BufferValues \cup {4}]

\* Bug: the layout is not derived again.
SlaveKeyStale ==
  /\ pc = "key" /\ linked
  /\ \E other \in Settable :
       settings' = [settings EXCEPT !.display_mode = other.display_mode,
                                    !.location_mode = other.location_mode,
                                    !.highlighter = other.highlighter,
                                    !.byte_grouping = other.byte_grouping]
  /\ pc' = "redraw"
  /\ UNCHANGED <<size, linked, window, layout, offset>>

\* hi_ncurses_fpager_slave_key_event, while the linked pager has the focus: =
\* copies its settings, other than its row length.
SlaveKey ==
  /\ pc = "key" /\ linked
  /\ \E other \in Settable :
       Set([settings EXCEPT !.display_mode = other.display_mode,
                            !.location_mode = other.location_mode,
                            !.highlighter = other.highlighter,
                            !.byte_grouping = other.byte_grouping])

\* set_offset, for this pager.
MoveTo(o) ==
  /\ pc = "key"
  /\ offset' = IF o < 0 \/ o >= size THEN offset ELSE o
  /\ pc' = "redraw"
  /\ UNCHANGED <<size, linked, window, settings, layout>>

PageLength == layout.bytes_per_row * window.height - 3

NextPage(buffer_val) == MoveTo(offset + PageLength * buffer_val)
PreviousPage(buffer_val) == MoveTo(offset - PageLength * buffer_val)

\* The arrow keys, up and down by whole rows of the layout.
Arrow(buffer_val) ==
  \/ MoveTo(offset - buffer_val)
  \/ MoveTo(offset + buffer_val)
  \/ MoveTo(offset - layout.bytes_per_row * buffer_val)
  \/ MoveTo(offset + layout.bytes_per_row * buffer_val)

\* KEY_HOME, KEY_END, g, a search and the keys that go from hunk to hunk.
Jump == \E o \in 0 .. size : MoveTo(o)

\* set_offset of the linked pager, which can leave this one at the end.
LinkedMove ==
  /\ pc = "key" /\ linked
  /\ offset' \in 0 .. size
  /\ pc' = "redraw"
  /\ UNCHANGED <<size, linked, window, settings, layout>>

Faulted == pc = "fault" /\ UNCHANGED vars

Next ==
  \/ Redraw \/ RedrawFault
  \/ \E terminal \in Terminals : Resize(terminal)
  \/ ModeKey
  \/ \E buffer_val \in BufferValues :
       GroupingKey(buffer_val) \/ RowKey(buffer_val) \/ NextPage(buffer_val)
         \/ PreviousPage(buffer_val) \/ Arrow(buffer_val)
  \/ SlaveKey \/ Jump \/ LinkedMove
  \/ Faulted

Spec == Init /\ [][Next]_vars

-----------------------------------------------------------------------------
\* The layout is always the one that belongs to the width, the modes and the
\* grouping: no key, resize or = leaves a stale row length behind, which the
\* redraw, the page keys and the size of highlight_colours go by.
LayoutIsCurrent == layout = update_bytes_per_line(size, window, settings)

\* The gaps in front of place x of a row.
Gaps(mode, byte_grouping, x) ==
  IF byte_grouping > 0 /\ ~mode.fixed THEN x \div byte_grouping ELSE 0

\* Where the byte at place x of a row is painted, by its display_byte_func.
Column(x) ==
  LET mode == display_list[settings.display_mode]
      twice == mode.name = "Hex8+ASCII"
      first == 3 + layout.bytes_in_location
      at == first + x * (IF twice THEN 3 ELSE mode.width_multiple)
              + Gaps(mode, settings.byte_grouping, x)
      text == first + (layout.remaining_bytes_per_row - 1) - layout.bytes_per_row + x
  IN  (at .. at + mode.cell - 1) \cup (IF twice THEN {text} ELSE {})

\* Every byte of a row has columns of its own, right of the location and left of
\* the border, in every mode, grouping and width: the number of bytes per row
\* and the places they are painted at are calculated by different functions.
CellsFit ==
  \A x \in 0 .. bytes - 1 :
    /\ Column(x) \subseteq 3 + layout.bytes_in_location .. window.width - 2
    /\ \A z \in 0 .. x - 1 : Column(x) \cap Column(z) = {}

\* A screen shows the bytes from the offset on without a gap or a repetition,
\* unless the rows were set to be longer than the window is wide.
ShowsEachByteOnce ==
  settings.set_bytes_per_row <= layout.bytes_per_row =>
    /\ {DrawnAt(cell) : cell \in Drawn} = offset .. Smaller(offset + screen, size) - 1
    /\ \A c, d \in Drawn : DrawnAt(c) = DrawnAt(d) => c = d

\* A redraw goes wrong in three cases only: a block highlighter reads ahead of
\* the last page of the file, the rows were set longer than they are drawn, or
\* the window has no room.  The other reads and all writes stay in bounds.
FaultsExplained ==
  pc = "fault" =>
    \/ /\ highlight \in {"ctype", "mpeg2-video"}
       /\ screen < 0 \/ offset + screen > Mapped([size |-> size])
    \/ settings.set_bytes_per_row > layout.bytes_per_row

\* "Keep the last line on the screen" (hi_ncurses_file_pager.c:433): the last
\* row shown before a page down is still shown after it.
PageKeepsLastLine ==
  [][NextPage(1) => offset' <= offset + (rows - 1) * stride]_vars
=============================================================================
