-------------------------- MODULE FilePagerProofs --------------------------
(***************************************************************************)
(* Proofs about the layout of a pager, for files, terminals, groupings and *)
(* row lengths of every size.                                              *)
(***************************************************************************)
EXTENDS FilePager, FiniteSetTheorems, TLAPS

\* What the table of hi_ncurses_display_init has in common.
LEMMA ModeFacts ==
  ASSUME NEW i \in DOMAIN display_list
  PROVE  /\ display_list[i].width_multiple \in 1 .. 9
         /\ display_list[i].width_constant \in 0 .. 1
         /\ display_list[i].cell \in 1 .. display_list[i].width_multiple
<1>1. display_list[i].width_multiple \in 1 .. 9
  BY DEF display_list
<1>2. display_list[i].width_constant \in 0 .. 1
  BY DEF display_list
<1>3. display_list[i].cell \in 1 .. display_list[i].width_multiple
  BY DEF display_list
<1> QED
  BY <1>1, <1>2, <1>3

\* The mode that paints a byte twice.
LEMMA HexAndAscii ==
  ASSUME NEW i \in DOMAIN display_list, display_list[i].name = "Hex8+ASCII"
  PROVE  /\ ~display_list[i].fixed
         /\ display_list[i].width_multiple = 4
         /\ display_list[i].width_constant = 1
         /\ display_list[i].cell = 2
<1>1. i = 1
  BY DEF display_list
<1>2. ~display_list[1].fixed
  BY DEF display_list
<1>3. /\ display_list[1].width_multiple = 4
      /\ display_list[1].width_constant = 1
      /\ display_list[1].cell = 2
  BY DEF display_list
<1> QED
  BY <1>1, <1>2, <1>3

\* Division toward zero goes with multiplication.
LEMMA QuotientFacts ==
  ASSUME NEW n \in Int, NEW d \in Int, d > 0
  PROVE  /\ Quotient(n, d) \in Int
         /\ Quotient(n, d) > 0 => n > 0 /\ Quotient(n, d) * d <= n
BY SMTT(30) DEF Quotient

\* The width of a location is a number.
LEMMA DigitsType ==
  ASSUME NEW n \in Nat, NEW base
  PROVE  Digits(n, base) \in Nat
<1>1. IsFiniteSet(0 .. n)
  BY FS_Interval
<1>2. IsFiniteSet({x \in 0 .. n : \A y \in 0 .. x : base ^ y <= n})
  BY <1>1, FS_Subset
<1> QED
  BY <1>2, FS_CardinalityType DEF Digits

\* A row has room for its bytes, for the gaps in front of any of them and for the
\* columns kept free.
LEMMA RowHasRoom ==
  ASSUME NEW i \in DOMAIN display_list, NEW w \in Int, NEW g \in Int, NEW x \in Nat,
         x < bytes_per_line(display_list[i], w, g)
  PROVE  bytes_per_line(display_list[i], w, g) * display_list[i].width_multiple
           + Gaps(display_list[i], g, x)
           + (IF display_list[i].fixed THEN 0 ELSE display_list[i].width_constant) <= w
<1> DEFINE b == bytes_per_line(display_list[i], w, g)
           m == display_list[i].width_multiple
           c == display_list[i].width_constant
           fixed == display_list[i].fixed
           q == Gaps(display_list[i], g, x)
<1>1. m \in 1 .. 9 /\ c \in 0 .. 1
  BY ModeFacts
<1>2. x < b
  OBVIOUS
<1>3. CASE fixed
  <2>1. b = Quotient(w, m)
    BY <1>3 DEF bytes_per_line
  <2>2. q = 0
    BY <1>3 DEF Gaps
  <2> HIDE DEF b, m, c, fixed, q
  <2>3. b \in Int /\ (b > 0 => b * m <= w)
    BY <1>1, <2>1, QuotientFacts
  <2>4. b > 0
    BY <1>2, <2>3
  <2>5. b * m + q + 0 <= w
    BY <1>1, <2>2, <2>3, <2>4
  <2> QED
    BY <1>3, <2>5 DEF b, m, c, fixed, q
<1>4. CASE ~fixed /\ ~(g > 0)
  <2>1. b = Quotient(w - c, m)
    BY <1>4 DEF bytes_per_line
  <2>2. q = 0
    BY <1>4 DEF Gaps
  <2> HIDE DEF b, m, c, fixed, q
  <2>3. b \in Int /\ (b > 0 => b * m <= w - c)
    BY <1>1, <2>1, QuotientFacts
  <2>4. b > 0
    BY <1>2, <2>3
  <2>5. b * m + q + c <= w
    BY <1>1, <2>2, <2>3, <2>4
  <2> QED
    BY <1>4, <2>5 DEF b, m, c, fixed, q
<1>5. CASE ~fixed /\ g > 0
  <2>1. b = Quotient((w - c) * g, m * g + 1)
    BY <1>5 DEF bytes_per_line
  <2>2. q = x \div g
    BY <1>5 DEF Gaps
  <2> HIDE DEF b, m, c, fixed, q
  <2>3. m * g \in Int /\ m * g > 0 /\ (w - c) * g \in Int
    BY <1>1, <1>5
  <2>4. b \in Int /\ (b > 0 => b * (m * g + 1) <= (w - c) * g)
    BY <2>1, <2>3, QuotientFacts
  <2>5. b > 0
    BY <1>2, <2>4
  <2>6. q \in Nat /\ q * g <= x
    BY <1>5, <2>2
  <2>7. (b * m + q) * g < (w - c) * g
    <3>1. b * (m * g + 1) = (b * m) * g + b
      BY <1>1, <1>5, <2>4
    <3>2. (b * m + q) * g = (b * m) * g + q * g
      BY <1>1, <1>5, <2>4, <2>6
    <3>3. (b * m) * g \in Int /\ q * g \in Int
      BY <1>1, <1>5, <2>4, <2>6
    <3> QED
      BY <1>2, <2>3, <2>4, <2>5, <2>6, <3>1, <3>2, <3>3
  <2>8. b * m + q < w - c
    <3> DEFINE u == b * m + q
               v == w - c
    <3>1. u \in Int /\ v \in Int /\ u * g < v * g
      BY <1>1, <2>4, <2>6, <2>7
    <3> HIDE DEF u, v
    <3>2. u < v
      BY <1>5, <3>1
    <3> QED
      BY <3>2 DEF u, v
  <2>9. b * m + q + c <= w
    BY <1>1, <2>4, <2>6, <2>8
  <2> QED
    BY <1>5, <2>9 DEF b, m, c, fixed, q
<1> QED
  BY <1>3, <1>4, <1>5

\* A place further right has no fewer gaps in front of it.
LEMMA GapsGrow ==
  ASSUME NEW i \in DOMAIN display_list, NEW g \in Int, NEW x \in Nat, NEW z \in Nat, z <= x
  PROVE  /\ Gaps(display_list[i], g, x) \in Nat
         /\ Gaps(display_list[i], g, z) \in Nat
         /\ Gaps(display_list[i], g, z) <= Gaps(display_list[i], g, x)
<1>1. ASSUME g > 0
      PROVE  x \div g \in Nat /\ z \div g \in Nat /\ z \div g <= x \div g
  <2> DEFINE p == z \div g
             q == x \div g
  <2>1. p \in Nat /\ p * g <= z
    BY <1>1
  <2>2. q \in Nat /\ x < q * g + g
    BY <1>1
  <2> HIDE DEF p, q
  <2>3. p * g < (q + 1) * g
    <3>1. (q + 1) * g = q * g + g
      BY <2>2
    <3>2. p * g \in Int /\ q * g \in Int
      BY <2>1, <2>2
    <3> QED
      BY <2>1, <2>2, <3>1, <3>2
  <2>4. p < q + 1
    BY <1>1, <2>1, <2>2, <2>3
  <2>5. p <= q
    BY <2>1, <2>2, <2>4
  <2> QED
    BY <2>1, <2>2, <2>5 DEF p, q
<1>2. CASE g > 0 /\ ~display_list[i].fixed
  BY <1>1, <1>2 DEF Gaps
<1>3. CASE ~(g > 0 /\ ~display_list[i].fixed)
  BY <1>3 DEF Gaps
<1> QED
  BY <1>2, <1>3

\* The length of a row is a number, if a negative one in a narrow window.
LEMMA BytesPerLineType ==
  ASSUME NEW i \in DOMAIN display_list, NEW w \in Int, NEW g \in Int
  PROVE  bytes_per_line(display_list[i], w, g) \in Int
<1> DEFINE m == display_list[i].width_multiple
           c == display_list[i].width_constant
<1>1. m \in 1 .. 9 /\ c \in 0 .. 1
  BY ModeFacts
<1> HIDE DEF m, c
<1>2. Quotient(w, m) \in Int /\ Quotient(w - c, m) \in Int
  BY <1>1, QuotientFacts
<1>3. ASSUME g > 0
      PROVE  Quotient((w - c) * g, m * g + 1) \in Int
  <2>1. m * g \in Int /\ m * g > 0 /\ (w - c) * g \in Int
    BY <1>1, <1>3
  <2> QED
    BY <2>1, QuotientFacts
<1> QED
  BY <1>2, <1>3 DEF bytes_per_line, m, c

\* update_bytes_per_line leaves a layout.
LEMMA LayoutType ==
  ASSUME NEW n \in Nat, NEW w \in Window, NEW s \in Settings
  PROVE  update_bytes_per_line(n, w, s) \in Layout
<1> DEFINE digits == Digits(n, location_list[s.location_mode])
           remaining == w.width - (digits + BYTES_FOR_BORDER)
<1>1. digits \in Nat
  BY DigitsType
<1>2. w.width \in Nat
  BY DEF Window
<1> HIDE DEF digits
<1>3. remaining \in Int
  BY <1>1, <1>2 DEF BYTES_FOR_BORDER
<1>4. s.display_mode \in DOMAIN display_list /\ s.byte_grouping \in Int
  BY DEF Settings
<1> HIDE DEF remaining
<1>5. bytes_per_line(display_list[s.display_mode], remaining, s.byte_grouping) \in Int
  BY <1>3, <1>4, BytesPerLineType
<1>6. update_bytes_per_line(n, w, s) =
        [bytes_in_location |-> digits, remaining_bytes_per_row |-> remaining,
         bytes_per_row |-> bytes_per_line(display_list[s.display_mode], remaining,
                                          s.byte_grouping)]
  BY DEF update_bytes_per_line, digits, remaining
<1> QED
  BY <1>1, <1>3, <1>5, <1>6 DEF Layout

\* A terminal of any size gives a window.
LEMMA WindowType ==
  ASSUME NEW terminal \in Terminals
  PROVE  WindowFor(terminal) \in Window
<1>1. terminal \in Nat
  BY LayoutAssumption
<1>2. COLS(terminal) \in Nat /\ LINES(terminal) \in Nat
  BY <1>1 DEF COLS, LINES
<1>3. COLS(terminal) \div 2 \in Nat
  BY <1>2
<1>4. RULER_LINES(terminal) \in Int
  BY DEF RULER_LINES
<1> QED
  BY <1>2, <1>3, <1>4 DEF WindowFor, Window

-----------------------------------------------------------------------------
\* The mode keys go around their lists and set nothing else.
LEMMA ModeKeyType ==
  ASSUME settings \in Settings, ModeKey
  PROVE  \E s \in Settings : Set(s)
<1>1. DOMAIN display_list = 1 .. 7 /\ Len(display_list) = 7
  BY DEF display_list
<1>2. DOMAIN location_list = 1 .. 3 /\ Len(location_list) = 3
  BY DEF location_list
<1>3. DOMAIN highlight_list = 1 .. 4 /\ Len(highlight_list) = 4
  BY DEF highlight_list
<1>4. \A i \in DOMAIN display_list : [settings EXCEPT !.display_mode = i] \in Settings
  BY DEF Settings
<1>5. \A i \in DOMAIN location_list : [settings EXCEPT !.location_mode = i] \in Settings
  BY DEF Settings
<1>6. \A i \in DOMAIN highlight_list : [settings EXCEPT !.highlighter = i] \in Settings
  BY DEF Settings
<1>7. /\ settings.display_mode \in DOMAIN display_list
      /\ settings.location_mode \in DOMAIN location_list
      /\ settings.highlighter \in DOMAIN highlight_list
  BY DEF Settings
<1>8. /\ common_get_next(display_list, settings.display_mode) \in DOMAIN display_list
      /\ common_get_previous(display_list, settings.display_mode) \in DOMAIN display_list
  BY <1>1, <1>7 DEF common_get_next, common_get_previous
<1>9. /\ common_get_next(location_list, settings.location_mode) \in DOMAIN location_list
      /\ common_get_previous(location_list, settings.location_mode) \in DOMAIN location_list
  BY <1>2, <1>7 DEF common_get_next, common_get_previous
<1>10. /\ common_get_next(highlight_list, settings.highlighter) \in DOMAIN highlight_list
       /\ common_get_previous(highlight_list, settings.highlighter) \in DOMAIN highlight_list
  BY <1>3, <1>7 DEF common_get_next, common_get_previous
<1> QED
  BY <1>4, <1>5, <1>6, <1>8, <1>9, <1>10 DEF ModeKey

\* What is typed is a number.
LEMMA BufferType == BufferValues \subseteq Int
BY LayoutAssumption DEF BufferValues

\* Every step is one of these: the settings change with the layout, the window
\* does, the row length that is set does, or none of them.
SettingsStep == \E s \in Settings : Set(s)

WindowStep == \E terminal \in Terminals : Resize(terminal)

RowStep == \E buffer_val \in BufferValues : RowKey(buffer_val)

\* No step is of another kind.
LEMMA StepKinds ==
  ASSUME TypeOK, [Next]_vars
  PROVE  \/ SettingsStep
         \/ WindowStep
         \/ RowStep
         \/ /\ UNCHANGED <<size, linked, window, settings, layout>>
            /\ offset' \in 0 .. size
            /\ pc' \in {"redraw", "key", "fault"}
<1> DEFINE Keeps == /\ UNCHANGED <<size, linked, window, settings, layout>>
                    /\ offset' \in 0 .. size
                    /\ pc' \in {"redraw", "key", "fault"}
<1>1. settings \in Settings /\ size \in Nat /\ offset \in 0 .. size
  BY LayoutAssumption DEF TypeOK
<1>2. CASE Redraw
  BY <1>1, <1>2 DEF Redraw
<1>3. CASE RedrawFault
  BY <1>1, <1>3 DEF RedrawFault
<1>4. CASE \E terminal \in Terminals : Resize(terminal)
  BY <1>4 DEF WindowStep
<1>5. CASE ModeKey
  BY <1>1, <1>5, ModeKeyType DEF SettingsStep
<1>6. ASSUME NEW buffer_val \in BufferValues, GroupingKey(buffer_val)
      PROVE  SettingsStep
  <2>1. [settings EXCEPT !.byte_grouping = buffer_val] \in Settings
    BY <1>1, BufferType DEF Settings
  <2> QED
    BY <1>6, <2>1 DEF GroupingKey, SettingsStep
<1>7. CASE \E buffer_val \in BufferValues : RowKey(buffer_val)
  BY <1>7 DEF RowStep
<1>8. ASSUME NEW o \in Int, MoveTo(o)
      PROVE  Keeps
  BY <1>1, <1>8 DEF MoveTo
<1>9. ASSUME NEW buffer_val \in BufferValues,
             \/ NextPage(buffer_val) \/ PreviousPage(buffer_val) \/ Arrow(buffer_val)
      PROVE  Keeps
  <2>1. buffer_val \in Int /\ layout.bytes_per_row \in Int /\ window.height \in Int
        /\ offset \in Int
    BY <1>1, BufferType DEF TypeOK, Layout, Window
  <2>2. PageLength \in Int
    BY <2>1 DEF PageLength
  <2>3. PageLength * buffer_val \in Int /\ layout.bytes_per_row * buffer_val \in Int
    BY <2>1, <2>2
  <2>4. /\ offset + PageLength * buffer_val \in Int
        /\ offset - PageLength * buffer_val \in Int
        /\ offset - buffer_val \in Int
        /\ offset + buffer_val \in Int
        /\ offset - layout.bytes_per_row * buffer_val \in Int
        /\ offset + layout.bytes_per_row * buffer_val \in Int
    BY <2>1, <2>3
  <2>5. \E o \in Int : MoveTo(o)
    BY <1>9, <2>4 DEF NextPage, PreviousPage, Arrow
  <2> QED
    BY <1>8, <2>5
<1>10. CASE SlaveKey
  <2>1. PICK other \in Settable :
          Set([settings EXCEPT !.display_mode = other.display_mode,
                               !.location_mode = other.location_mode,
                               !.highlighter = other.highlighter,
                               !.byte_grouping = other.byte_grouping])
    BY <1>10 DEF SlaveKey
  <2>2. /\ other.display_mode \in DOMAIN display_list
        /\ other.location_mode \in DOMAIN location_list
        /\ other.highlighter \in DOMAIN highlight_list
    BY DEF Settable
  <2>4. other.byte_grouping \in Int
    <3>1. other.byte_grouping \in BufferValues \cup {4}
      BY DEF Settable
    <3>2. BufferValues \cup {4} \subseteq Int
      BY BufferType
    <3> QED
      BY <3>1, <3>2, Zenon
  <2>3. [settings EXCEPT !.display_mode = other.display_mode,
                         !.location_mode = other.location_mode,
                         !.highlighter = other.highlighter,
                         !.byte_grouping = other.byte_grouping] \in Settings
    BY <1>1, <2>2, <2>4 DEF Settings
  <2> QED
    BY <2>1, <2>3 DEF SettingsStep
<1>11. CASE Jump
  <2>1. PICK o \in 0 .. size : MoveTo(o)
    BY <1>11 DEF Jump
  <2> QED
    BY <1>1, <1>8, <2>1
<1>12. CASE LinkedMove
  BY <1>1, <1>12 DEF LinkedMove
<1>13. CASE Faulted
  BY <1>1, <1>13 DEF Faulted, vars, TypeOK
<1>14. CASE UNCHANGED vars
  BY <1>1, <1>14 DEF vars, TypeOK
<1> QED
  BY <1>2, <1>3, <1>4, <1>5, <1>6, <1>7, <1>9, <1>10, <1>11, <1>12, <1>13, <1>14 DEF Next

\* A new pager has its types.
LEMMA InitTypeOK == Init => TypeOK
<1> SUFFICES ASSUME Init
             PROVE  TypeOK
  OBVIOUS
<1>1. size \in Nat /\ 0 \in 0 .. size
  BY LayoutAssumption DEF Init
<1>2. window \in Window
  BY WindowType DEF Init
<1>3. settings \in Settings
  BY DEF Init, Settings, display_list, location_list, highlight_list
<1>4. layout \in Layout
  BY <1>1, <1>2, <1>3, LayoutType DEF Init
<1> QED
  BY <1>1, <1>2, <1>3, <1>4 DEF Init, TypeOK

\* Every step keeps them.
LEMMA NextTypeOK == TypeOK /\ [Next]_vars => TypeOK'
<1> SUFFICES ASSUME TypeOK, [Next]_vars
             PROVE  TypeOK'
  OBVIOUS
<1>1. size \in Nat
  BY LayoutAssumption DEF TypeOK
<1>2. CASE SettingsStep
  <2>1. PICK s \in Settings : Set(s)
    BY <1>2 DEF SettingsStep
  <2>2. layout' \in Layout
    BY <1>1, <2>1, LayoutType DEF Set, TypeOK
  <2> QED
    BY <2>1, <2>2 DEF Set, TypeOK
<1>3. CASE WindowStep
  <2>1. PICK terminal \in Terminals : Resize(terminal)
    BY <1>3 DEF WindowStep
  <2>2. window' \in Window
    BY <2>1, WindowType DEF Resize
  <2>3. layout' \in Layout
    BY <1>1, <2>1, <2>2, LayoutType DEF Resize, TypeOK
  <2> QED
    BY <2>1, <2>2, <2>3 DEF Resize, TypeOK
<1>4. CASE RowStep
  <2>1. PICK buffer_val \in BufferValues : RowKey(buffer_val)
    BY <1>4 DEF RowStep
  <2>2. buffer_val \in Int
    BY BufferType
  <2>3. (IF buffer_val >= 0 THEN buffer_val ELSE 0) \in Nat
    BY <2>2
  <2>4. settings' \in Settings
    BY <2>1, <2>3 DEF RowKey, TypeOK, Settings
  <2> QED
    BY <2>1, <2>4 DEF RowKey, TypeOK
<1>5. CASE /\ UNCHANGED <<size, linked, window, settings, layout>>
           /\ offset' \in 0 .. size
           /\ pc' \in {"redraw", "key", "fault"}
  BY <1>5 DEF TypeOK
<1> QED
  BY <1>2, <1>3, <1>4, <1>5, StepKinds

\* The settings stay within their lists and the offset within the file, for
\* files, terminals and numbers typed of every size.
THEOREM TypeCorrect == Spec => []TypeOK
BY InitTypeOK, NextTypeOK, PTL DEF Spec

\* A step that changes what the layout depends on derives it again.
LEMMA NextLayoutIsCurrent == TypeOK /\ LayoutIsCurrent /\ [Next]_vars => LayoutIsCurrent'
<1> SUFFICES ASSUME TypeOK, LayoutIsCurrent, [Next]_vars
             PROVE  LayoutIsCurrent'
  OBVIOUS
<1>1. CASE SettingsStep
  BY <1>1 DEF SettingsStep, Set, LayoutIsCurrent
<1>2. CASE WindowStep
  BY <1>2 DEF WindowStep, Resize, LayoutIsCurrent
<1>3. CASE RowStep
  <2>1. PICK buffer_val \in BufferValues : RowKey(buffer_val)
    BY <1>3 DEF RowStep
  <2>2. /\ settings'.display_mode = settings.display_mode
        /\ settings'.location_mode = settings.location_mode
        /\ settings'.byte_grouping = settings.byte_grouping
    BY <2>1 DEF RowKey, TypeOK, Settings
  <2> QED
    BY <2>1, <2>2 DEF RowKey, LayoutIsCurrent, update_bytes_per_line
<1>4. CASE UNCHANGED <<size, linked, window, settings, layout>>
  BY <1>4 DEF LayoutIsCurrent
<1> QED
  BY <1>1, <1>2, <1>3, <1>4, StepKinds

\* No key, resize or copied setting leaves a stale row length behind, whatever
\* is typed and however the terminal is resized.
THEOREM LayoutStaysCurrent == Spec => []LayoutIsCurrent
<1>1. Init => LayoutIsCurrent
  BY DEF Init, LayoutIsCurrent
<1> QED
  BY <1>1, TypeCorrect, NextLayoutIsCurrent, PTL DEF Spec

-----------------------------------------------------------------------------
\* A place in a row is one of the places the layout has room for.
LEMMA PlacesFit ==
  ASSUME TypeOK, NEW x \in 0 .. bytes - 1
  PROVE  x \in Nat /\ x < layout.bytes_per_row
<1>1. layout.bytes_per_row \in Int /\ settings.set_bytes_per_row \in Nat
  BY DEF TypeOK, Layout, Settings
<1>2. bytes \in Int /\ bytes <= layout.bytes_per_row
  BY <1>1 DEF bytes, Smaller
<1> QED
  BY <1>1, <1>2

\* A row paints within the columns between its location and the border, and a
\* byte left of the bytes after it.
LEMMA CellsFitHere == TypeOK /\ LayoutIsCurrent => CellsFit
<1> SUFFICES ASSUME TypeOK, LayoutIsCurrent, NEW x \in 0 .. bytes - 1
             PROVE  /\ Column(x) \subseteq 3 + layout.bytes_in_location .. window.width - 2
                    /\ \A z \in 0 .. x - 1 : Column(x) \cap Column(z) = {}
  BY DEF CellsFit
<1> DEFINE i == settings.display_mode
           mode == display_list[i]
           g == settings.byte_grouping
           d == layout.bytes_in_location
           w == layout.remaining_bytes_per_row
           b == layout.bytes_per_row
           m == mode.width_multiple
           k == mode.cell
           c == mode.width_constant
           free == IF mode.fixed THEN 0 ELSE c
           twice == mode.name = "Hex8+ASCII"
           step == IF twice THEN 3 ELSE m
           gaps(y) == Gaps(mode, g, y)
           at(y) == 3 + d + y * step + gaps(y)
           text(y) == 3 + d + (w - 1) - b + y
<1>1. i \in DOMAIN display_list /\ g \in Int /\ d \in Nat /\ w \in Int /\ b \in Int
  BY DEF TypeOK, Layout, Settings
<1>2. b = bytes_per_line(mode, w, g) /\ window.width = w + (d + 4)
  <2>1. layout = update_bytes_per_line(size, window, settings)
    BY DEF LayoutIsCurrent
  <2>2. b = bytes_per_line(mode, w, g) /\ w = window.width - (d + 4)
    BY <2>1 DEF update_bytes_per_line, BYTES_FOR_BORDER
  <2>3. window.width \in Nat
    BY DEF TypeOK, Window
  <2> QED
    BY <1>1, <2>2, <2>3
<1>3. x \in Nat /\ x < b
  BY PlacesFit
<1>4. m \in 1 .. 9 /\ c \in 0 .. 1 /\ k \in 1 .. m
  BY <1>1, ModeFacts
<1>5. gaps(x) \in Nat
  BY <1>1, <1>3, GapsGrow
<1>6. ASSUME NEW z \in 0 .. x - 1
      PROVE  gaps(z) \in Nat /\ gaps(z) <= gaps(x)
  <2>1. z \in Nat /\ z <= x
    BY <1>3
  <2> QED
    BY <1>1, <1>3, <2>1, GapsGrow
<1>7. b * m + gaps(x) + free <= w
  BY <1>1, <1>2, <1>3, RowHasRoom
<1>8. twice => m = 4 /\ c = 1 /\ k = 2 /\ free = 1
  BY <1>1, HexAndAscii
<1>9. \A y : Column(y) = (at(y) .. at(y) + k - 1) \cup (IF twice THEN {text(y)} ELSE {})
  BY DEF Column
<1>10. free \in 0 .. 1
  BY <1>4
<1> HIDE DEF i, mode, g, d, w, b, m, k, c, free, twice, gaps
\* In the unit the layout calculates with.
<1>11. (x + 1) * m <= b * m
  BY <1>1, <1>3, <1>4
<1>12. \A z \in 0 .. x - 1 : (z + 1) * m <= x * m
  BY <1>3, <1>4
<1>13. CASE twice
  <2>1. Column(x) = {at(x), at(x) + 1, text(x)}
    <3>1. at(x) \in Int
      BY <1>1, <1>3, <1>5, <1>13
    <3>2. at(x) .. at(x) + k - 1 = {at(x), at(x) + 1}
      BY <1>8, <1>13, <3>1
    <3> QED
      BY <1>9, <1>13, <3>2
  <2>2. \A z \in 0 .. x - 1 : Column(z) = {at(z), at(z) + 1, text(z)}
    <3> SUFFICES ASSUME NEW z \in 0 .. x - 1
                 PROVE  Column(z) = {at(z), at(z) + 1, text(z)}
      OBVIOUS
    <3>1. at(z) \in Int
      BY <1>1, <1>3, <1>6, <1>13
    <3>2. at(z) .. at(z) + k - 1 = {at(z), at(z) + 1}
      BY <1>8, <1>13, <3>1
    <3> QED
      BY <1>9, <1>13, <3>2
  <2>3. b * 4 + gaps(x) + 1 <= w
    BY <1>7, <1>8, <1>13
  <2>4. /\ at(x) >= 3 + d
        /\ at(x) + 1 < 3 + d + (w - 1) - b
        /\ text(x) >= 3 + d
        /\ text(x) <= w + d + 2
    BY <1>1, <1>3, <1>5, <1>13, <2>3
  <2>5. ASSUME NEW z \in 0 .. x - 1
        PROVE  /\ at(z) + 1 < at(x)
               /\ text(z) < text(x)
               /\ text(z) >= 3 + d + (w - 1) - b
    BY <1>1, <1>3, <1>5, <1>6, <1>13
  <2>6. at(x) \in Int /\ text(x) \in Int
    BY <1>1, <1>3, <1>5, <1>13
  <2>7. \A z \in 0 .. x - 1 : at(z) \in Int /\ text(z) \in Int
    BY <1>1, <1>3, <1>6, <1>13
  <2> HIDE DEF at, text
  <2>8. Column(x) \subseteq 3 + d .. window.width - 2
    BY <1>1, <1>2, <1>3, <2>1, <2>4, <2>6
  <2>9. \A z \in 0 .. x - 1 : Column(x) \cap Column(z) = {}
    <3> SUFFICES ASSUME NEW z \in 0 .. x - 1
                 PROVE  Column(x) \cap Column(z) = {}
      OBVIOUS
    <3>1. /\ at(z) + 1 < at(x)
          /\ text(z) < text(x)
          /\ at(x) + 1 < text(z)
          /\ at(x) < text(x)
      BY <1>1, <1>3, <2>4, <2>5, <2>6, <2>7
    <3> QED
      BY <2>1, <2>2, <2>6, <2>7, <3>1
  <2> QED
    BY <2>8, <2>9 DEF d
<1>14. CASE ~twice
  <2>1. Column(x) = at(x) .. at(x) + k - 1
    BY <1>9, <1>14
  <2>2. \A z : Column(z) = at(z) .. at(z) + k - 1
    BY <1>9, <1>14
  <2>3. x * m \in Int /\ b * m \in Int
    BY <1>1, <1>3, <1>4
  <2>4. at(x) = 3 + d + x * m + gaps(x)
    BY <1>14
  <2>5. at(x) \in Int /\ at(x) >= 3 + d
    BY <1>1, <1>3, <1>4, <1>5, <2>4
  <2>6. (x + 1) * m = x * m + m
    BY <1>3, <1>4
  <2>7. at(x) + k - 1 <= w + d + 2
    BY <1>1, <1>4, <1>5, <1>7, <1>10, <1>11, <2>3, <2>4, <2>6
  <2>8. ASSUME NEW z \in 0 .. x - 1
        PROVE  at(z) \in Int /\ at(z) + k - 1 < at(x)
    <3>1. z * m \in Int /\ (z + 1) * m = z * m + m
      BY <1>3, <1>4
    <3>2. at(z) = 3 + d + z * m + gaps(z)
      BY <1>14
    <3> QED
      BY <1>1, <1>4, <1>5, <1>6, <1>12, <2>3, <2>4, <3>1, <3>2
  <2> HIDE DEF at
  <2>9. Column(x) \subseteq 3 + d .. window.width - 2
    BY <1>1, <1>2, <1>4, <2>1, <2>5, <2>7
  <2>10. \A z \in 0 .. x - 1 : Column(x) \cap Column(z) = {}
    BY <1>4, <2>2, <2>5, <2>8
  <2> QED
    BY <2>9, <2>10 DEF d
<1> QED
  BY <1>13, <1>14

\* In every mode, grouping and width, however long the rows and whatever the
\* size of the file, a row has columns for each of its bytes.
THEOREM RowsFit == Spec => []CellsFit
BY TypeCorrect, LayoutStaysCurrent, CellsFitHere, PTL

-----------------------------------------------------------------------------
\* What the geometry of a screen is built from.
LEMMA ScreenType ==
  ASSUME TypeOK
  PROVE  /\ rows \in Int /\ bytes \in Int /\ stride \in Int /\ screen \in Int
         /\ offset \in Nat /\ size \in Nat
         /\ settings.set_bytes_per_row <= layout.bytes_per_row => bytes = stride
         /\ settings.set_bytes_per_row <= layout.bytes_per_row => bytes >= 0
<1>1. /\ layout.bytes_per_row \in Int /\ settings.set_bytes_per_row \in Nat
      /\ window.height \in Int /\ offset \in 0 .. size /\ size \in Nat
  BY LayoutAssumption DEF TypeOK, Layout, Settings, Window
<1>2. rows \in Int /\ bytes \in Int /\ stride \in Int
  BY <1>1 DEF rows, bytes, stride, Smaller
<1>3. screen \in Int
  BY <1>2 DEF screen
<1>4. settings.set_bytes_per_row <= layout.bytes_per_row => bytes = stride /\ bytes >= 0
  BY <1>1 DEF bytes, stride, Smaller
<1> QED
  BY <1>1, <1>2, <1>3, <1>4

\* The screen is filled row by row.
LEMMA CellsOfScreen ==
  ASSUME NEW r \in Int, NEW b \in Int, b >= 0,
         NEW y \in 0 .. r - 1, NEW x \in 0 .. b - 1
  PROVE  x + b * y \in 0 .. r * b - 1
<1>1. b * y >= 0 /\ b * y \in Int
  OBVIOUS
<1>2. b * (y + 1) <= b * r
  OBVIOUS
<1>3. b * (y + 1) = b * y + b
  OBVIOUS
<1>4. b * r = r * b /\ r * b \in Int
  OBVIOUS
<1> QED
  BY <1>1, <1>2, <1>3, <1>4

\* Every place of a screen is in one of its rows.
LEMMA ScreenIsCovered ==
  ASSUME NEW r \in Int, NEW b \in Int, b >= 0, NEW n \in 0 .. r * b - 1
  PROVE  \E y \in 0 .. r - 1, x \in 0 .. b - 1 : n = x + b * y
<1>1. b > 0
  <2>1. b = 0 => r * b = 0
    OBVIOUS
  <2> QED
    BY <2>1
<1> DEFINE y == n \div b
           x == n % b
<1>2. y \in Nat /\ x \in 0 .. b - 1 /\ n = b * y + x
  BY <1>1
<1> HIDE DEF x, y
<1>3. y < r
  <2>1. b * y < r * b /\ b * y \in Int
    BY <1>2
  <2>2. r * b = b * r
    OBVIOUS
  <2> QED
    BY <1>1, <1>2, <2>1, <2>2
<1>4. y \in 0 .. r - 1 /\ n = x + b * y
  <2>1. b * y \in Int
    BY <1>2
  <2> QED
    BY <1>2, <1>3, <2>1
<1> QED
  BY <1>2, <1>4

\* Two cells of a screen are two places of it.
LEMMA CellsDiffer ==
  ASSUME NEW b \in Int, NEW y \in Int, NEW v \in Int, NEW x \in 0 .. b - 1,
         NEW u \in 0 .. b - 1, x + b * y = u + b * v
  PROVE  x = u /\ y = v
<1>1. b * (y - v) = u - x
  <2>1. b * (y - v) = b * y - b * v
    OBVIOUS
  <2>2. b * y \in Int /\ b * v \in Int
    OBVIOUS
  <2> QED
    BY <2>1, <2>2
<1>2. b > 0 /\ u - x < b /\ x - u < b
  OBVIOUS
<1>3. y - v >= 1 => b * (y - v) >= b
  BY <1>2
<1>4. v - y >= 1 => b * (v - y) >= b
  BY <1>2
<1>5. b * (v - y) = x - u
  <2>1. b * (v - y) = 0 - b * (y - v)
    OBVIOUS
  <2> QED
    BY <1>1, <2>1
<1> QED
  BY <1>1, <1>2, <1>3, <1>4, <1>5

\* The screen is the bytes from the offset on, from the geometry alone.
LEMMA ShowsEachByteOnceHere == TypeOK => ShowsEachByteOnce
<1> SUFFICES ASSUME TypeOK, settings.set_bytes_per_row <= layout.bytes_per_row
             PROVE  /\ {DrawnAt(cell) : cell \in Drawn}
                         = offset .. Smaller(offset + screen, size) - 1
                    /\ \A c, d \in Drawn : DrawnAt(c) = DrawnAt(d) => c = d
  BY DEF ShowsEachByteOnce
<1>1. /\ rows \in Int /\ bytes \in Int /\ bytes >= 0 /\ stride = bytes
      /\ offset \in Nat /\ size \in Nat /\ screen \in Int
  BY ScreenType
<1>2. screen = rows * bytes
  BY DEF screen
<1>3. \A cell : DrawnAt(cell) = offset + cell[2] + bytes * cell[1]
  BY <1>1 DEF DrawnAt
<1>4. Drawn = {cell \in (0 .. rows - 1) \X (0 .. bytes - 1) : DrawnAt(cell) < size}
  BY DEF Drawn
<1>5. ASSUME NEW c \in (0 .. rows - 1) \X (0 .. bytes - 1)
      PROVE  /\ c = <<c[1], c[2]>> /\ c[1] \in 0 .. rows - 1 /\ c[2] \in 0 .. bytes - 1
             /\ bytes * c[1] \in Int
             /\ DrawnAt(c) \in offset .. offset + screen - 1
  <2>1. c = <<c[1], c[2]>> /\ c[1] \in 0 .. rows - 1 /\ c[2] \in 0 .. bytes - 1
    OBVIOUS
  <2>2. c[2] + bytes * c[1] \in 0 .. rows * bytes - 1
    BY <1>1, <2>1, CellsOfScreen
  <2>3. bytes * c[1] \in Int
    BY <1>1, <2>1
  <2> QED
    BY <1>1, <1>2, <1>3, <2>1, <2>2, <2>3
<1>6. ASSUME NEW o \in offset .. Smaller(offset + screen, size) - 1
      PROVE  \E cell \in Drawn : o = DrawnAt(cell)
  <2>1. o \in Int /\ o >= offset /\ o < size /\ o - offset \in 0 .. rows * bytes - 1
    BY <1>1, <1>2 DEF Smaller
  <2>2. PICK y \in 0 .. rows - 1, x \in 0 .. bytes - 1 : o - offset = x + bytes * y
    BY <1>1, <2>1, ScreenIsCovered
  <2>3. DrawnAt(<<y, x>>) = offset + x + bytes * y
    BY <1>3
  <2>4. bytes * y \in Int
    BY <1>1
  <2>5. DrawnAt(<<y, x>>) = o
    BY <1>1, <2>1, <2>2, <2>3, <2>4
  <2> QED
    BY <1>4, <2>1, <2>5
<1>7. ASSUME NEW cell \in Drawn
      PROVE  DrawnAt(cell) \in offset .. Smaller(offset + screen, size) - 1
  BY <1>1, <1>4, <1>5 DEF Smaller
<1>8. {DrawnAt(cell) : cell \in Drawn} = offset .. Smaller(offset + screen, size) - 1
  BY <1>6, <1>7
<1>9. ASSUME NEW c \in Drawn, NEW d \in Drawn, DrawnAt(c) = DrawnAt(d)
      PROVE  c = d
  <2>1. /\ c = <<c[1], c[2]>> /\ d = <<d[1], d[2]>>
        /\ c[1] \in Int /\ d[1] \in Int
        /\ c[2] \in 0 .. bytes - 1 /\ d[2] \in 0 .. bytes - 1
        /\ bytes * c[1] \in Int /\ bytes * d[1] \in Int
    BY <1>1, <1>4, <1>5
  <2>2. c[2] + bytes * c[1] = d[2] + bytes * d[1]
    BY <1>1, <1>3, <1>9, <2>1
  <2>3. c[2] = d[2] /\ c[1] = d[1]
    BY <1>1, <2>1, <2>2, CellsDiffer
  <2> QED
    BY <2>1, <2>3
<1> QED
  BY <1>8, <1>9

\* A screen shows the bytes from the offset on once each, for every width,
\* height and row length that fits.
THEOREM ScreenIsComplete == Spec => []ShowsEachByteOnce
BY TypeCorrect, ShowsEachByteOnceHere, PTL

-----------------------------------------------------------------------------
\* What a fault is blamed on.
Explained ==
  \/ /\ highlight \in {"ctype", "mpeg2-video"}
     /\ screen < 0 \/ offset + screen > Mapped([size |-> size])
  \/ settings.set_bytes_per_row > layout.bytes_per_row

\* The mapping holds the file.
LEMMA MappedBound ==
  ASSUME NEW n \in Nat
  PROVE  Mapped([size |-> n]) \in Int /\ Mapped([size |-> n]) >= n
<1> DEFINE q == (n + PageSize - 1) \div PageSize
<1>1. PageSize \in Nat /\ PageSize > 0
  BY FileAssumption
<1>2. q \in Int /\ PageSize * q <= n + PageSize - 1 /\ n + PageSize - 1 < PageSize * q + PageSize
  BY <1>1
<1>3. Mapped([size |-> n]) = PageSize * q
  BY DEF Mapped
<1> HIDE DEF q
<1>4. PageSize * q \in Int
  BY <1>1, <1>2
<1> QED
  BY <1>1, <1>2, <1>3, <1>4

\* The accesses that do not depend on a highlighter reading ahead stay in bounds.
LEMMA FaultIsExplained == TypeOK /\ (OutOfBounds \/ WritesNull) => Explained
<1> SUFFICES ASSUME TypeOK, OutOfBounds \/ WritesNull,
                    settings.set_bytes_per_row <= layout.bytes_per_row
             PROVE  /\ highlight \in {"ctype", "mpeg2-video"}
                    /\ screen < 0 \/ offset + screen > Mapped([size |-> size])
  BY DEF Explained, TypeOK, Layout, Settings
<1> DEFINE limit == Mapped([size |-> size])
<1>1. /\ rows \in Int /\ bytes \in Int /\ bytes >= 0 /\ stride = bytes
      /\ offset \in Nat /\ size \in Nat /\ screen \in Int
  BY ScreenType
<1>2. limit \in Int /\ limit >= size
  BY <1>1, MappedBound
<1>3. CASE WritesNull
  BY <1>3 DEF WritesNull
<1>4. ASSUME NEW cell \in Drawn
      PROVE  DrawnAt(cell) \in offset .. Smaller(offset + screen, size) - 1
  BY ShowsEachByteOnceHere DEF ShowsEachByteOnce
<1>5. ASSUME NEW cell \in Drawn
      PROVE  DrawnAt(cell) \in Int /\ DrawnAt(cell) < size /\ DrawnAt(cell) - offset < screen
  BY <1>1, <1>4 DEF Smaller
<1>6. \A o \in ByteReads : o \in Int /\ o < limit
  <2>1. \A cell \in Drawn : \A o \in MpegReads(DrawnAt(cell)) : o \in Int /\ o < limit
    BY <1>1, <1>2, <1>5 DEF MpegReads
  <2>2. \A cell \in Drawn : DrawnAt(cell) \in Int /\ DrawnAt(cell) < limit
    BY <1>1, <1>2, <1>5
  <2> QED
    BY <2>1, <2>2 DEF ByteReads
<1>7. \A o \in RulerReads : o \in Int /\ o < limit
  BY <1>1, <1>2 DEF RulerReads
<1>8. \A i \in ColourReads : i \in Int /\ i < screen
  BY <1>1, <1>5 DEF ColourReads
<1>9. \A i \in StartCodes : i \in Nat /\ i + 4 < screen
  BY <1>1 DEF StartCodes
<1>10. \A i \in Writes : i \in Int /\ i < screen
  <2>1. \A i \in 0 .. screen - 1 : i \in Int /\ i < screen
    BY <1>1
  <2>2. \A i \in StartCodes : \A k \in i .. i + 3 : k \in Int /\ k < screen
    BY <1>1, <1>9
  <2> QED
    BY <2>1, <2>2 DEF Writes
<1>11. \A o \in BlockReads : o < offset + screen /\ o \in Int
  <2>1. \A i \in 0 .. screen - 1 : offset + i < offset + screen /\ offset + i \in Int
    BY <1>1
  <2>2. \A i \in StartCodes : \A k \in offset + i .. offset + i + 3 :
          k < offset + screen /\ k \in Int
    BY <1>1, <1>9
  <2> QED
    BY <2>1, <2>2 DEF BlockReads
<1>12. CASE OutOfBounds
  <2>1. PICK o \in BlockReads : o >= limit
    <3>1. \A i \in Writes \cup ColourReads : ~(i >= screen)
      BY <1>1, <1>8, <1>10
    <3>2. \A o \in ByteReads \cup RulerReads : ~(o >= limit)
      BY <1>2, <1>6, <1>7
    <3> QED
      BY <1>12, <3>1, <3>2 DEF OutOfBounds, Reads
  <2>2. offset + screen > limit
    BY <1>1, <1>2, <1>11, <2>1
  <2>3. highlight \in {"ctype", "mpeg2-video"}
    BY <2>1 DEF BlockReads
  <2> QED
    BY <2>2, <2>3
<1> QED
  BY <1>3, <1>12

\* Once the program has faulted nothing changes any more.
LEMMA NextFaultsExplained == TypeOK /\ FaultsExplained /\ [Next]_vars => FaultsExplained'
<1> SUFFICES ASSUME TypeOK, FaultsExplained, [Next]_vars, pc' = "fault"
             PROVE  Explained'
  BY DEF FaultsExplained, Explained
<1>1. CASE RedrawFault
  <2>1. Explained
    BY <1>1, FaultIsExplained DEF RedrawFault
  <2> QED
    BY <1>1, <2>1 DEF RedrawFault, Explained, highlight, screen, rows, bytes
<1>2. CASE Faulted \/ UNCHANGED vars
  BY <1>2 DEF Faulted, vars, FaultsExplained, Explained, highlight, screen, rows, bytes
<1>3. CASE Redraw
  BY <1>3 DEF Redraw
<1>4. CASE \E terminal \in Terminals : Resize(terminal)
  BY <1>4 DEF Resize
<1>5. CASE ModeKey
  BY <1>5 DEF ModeKey, Set
<1>6. CASE \E buffer_val \in BufferValues :
             \/ GroupingKey(buffer_val) \/ RowKey(buffer_val) \/ NextPage(buffer_val)
             \/ PreviousPage(buffer_val) \/ Arrow(buffer_val)
  BY <1>6 DEF GroupingKey, Set, RowKey, NextPage, PreviousPage, Arrow, MoveTo
<1>7. CASE SlaveKey \/ Jump \/ LinkedMove
  BY <1>7 DEF SlaveKey, Set, Jump, MoveTo, LinkedMove
<1> QED
  BY <1>1, <1>2, <1>3, <1>4, <1>5, <1>6, <1>7 DEF Next

\* A redraw faults in the named cases only, whatever the sizes of the file, of a
\* page of memory and of the terminal.
THEOREM FaultsAreExplained == Spec => []FaultsExplained
<1>1. Init => FaultsExplained
  BY DEF Init, FaultsExplained
<1> QED
  BY <1>1, TypeCorrect, NextFaultsExplained, PTL DEF Spec
=============================================================================
