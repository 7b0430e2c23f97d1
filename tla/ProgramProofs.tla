--------------------------- MODULE ProgramProofs ---------------------------
(***************************************************************************)
(* Proofs about the whole program: what a step of the main loop keeps,     *)
(* whatever the length of the key buffer and of the help, the width of the *)
(* terminal and the files, and, put together with those steps, what        *)
(* opening the files and main keep.                                        *)
(***************************************************************************)
EXTENDS Program, SequenceTheorems, TLAPS

Char == {"number", "other"}

\* The buffer as a sequence: of digits while no search is typed.
KeyboardInv ==
  /\ mode \in {"MODE_NORMAL", "MODE_REGEX"}
  /\ buffer \in Seq(Char)
  /\ mode = "MODE_NORMAL" => buffer \in Seq({"number"})
  /\ Len(buffer) < KEYBUFFER_LEN

\* Escape leaves the help and the search, and until the next key it is so.
HelpInv ==
  /\ show_help \in BOOLEAN
  /\ help_win_line \in 0 .. help_lines - 1 \cup {Unset}
  /\ HelpInRange
  /\ newch \in {"escape", "q", "none"}
  /\ newch = "escape" => ~show_help /\ mode = "MODE_NORMAL"

\* A resize is laid out, pending or swallowed, and none is pending while a key
\* is read.
DisplayInv ==
  /\ pc \in {"start", "redraw", "key", "walk", "quit", "fault"}
  /\ diff \in BOOLEAN
  /\ need_resize \in BOOLEAN /\ missed \in BOOLEAN
  /\ terminal \in Terminals /\ width \in Terminals
  /\ width = terminal \/ need_resize \/ missed
  /\ pc = "key" => ~need_resize

ViewInv ==
  /\ error \in Message
  /\ offset \in Places
  /\ focused \in Pagers

LoopInv == KeyboardInv /\ HelpInv /\ DisplayInv /\ ViewInv

-----------------------------------------------------------------------------
\* The operations on the key buffer leave a key buffer.
LEMMA TypedKeeps ==
  ASSUME NEW S, NEW char \in S, buffer \in Seq(S), Len(buffer) < KEYBUFFER_LEN
  PROVE  Typed(char) \in Seq(S) /\ Len(Typed(char)) < KEYBUFFER_LEN
<1>1. Append(buffer, char) \in Seq(S) /\ Len(Append(buffer, char)) = Len(buffer) + 1
  BY AppendProperties
<1> QED
  BY <1>1 DEF Typed

\* Backspace shortens a buffer that is not empty.
LEMMA BackspaceKeeps ==
  ASSUME NEW S, buffer \in Seq(S), buffer # << >>, Len(buffer) < KEYBUFFER_LEN
  PROVE  /\ SubSeq(buffer, 1, Len(buffer) - 1) \in Seq(S)
         /\ Len(SubSeq(buffer, 1, Len(buffer) - 1)) < KEYBUFFER_LEN
<1>1. Len(buffer) \in Nat /\ Len(buffer) >= 1
  BY EmptySeq, LenProperties
<1>2. KEYBUFFER_LEN \in Nat
  BY LoopAssumption
<1> DEFINE n == Len(buffer) - 1
<1>3. n \in Int /\ \A i \in 1 .. n : buffer[i] \in S
  <2>1. \A i \in 1 .. Len(buffer) : buffer[i] \in S
    BY ElementOfSeq
  <2> QED
    BY <1>1, <2>1
<1> HIDE DEF n
<1>4. SubSeq(buffer, 1, n) \in Seq(S) /\ Len(SubSeq(buffer, 1, n)) = IF 1 <= n THEN n - 1 + 1 ELSE 0
  BY <1>3, SubSeqProperties
<1>5. Len(SubSeq(buffer, 1, n)) < KEYBUFFER_LEN
  BY <1>1, <1>2, <1>3, <1>4 DEF n
<1> QED
  BY <1>4, <1>5 DEF n

\* The buffer that Escape leaves.
LEMMA EmptyBuffer ==
  << >> \in Seq(Char) /\ << >> \in Seq({"number"}) /\ Len(<< >>) < KEYBUFFER_LEN
BY LoopAssumption

\* A step types, deletes or empties, or leaves the keyboard alone.
LEMMA KeyboardStep ==
  ASSUME LoopNext
  PROVE  \/ UNCHANGED keyboard
         \/ buffer' = << >> /\ mode' \in {mode, "MODE_NORMAL"}
         \/ buffer # << >> /\ buffer' = SubSeq(buffer, 1, Len(buffer) - 1) /\ mode' = mode
         \/ buffer' = Typed("number") /\ mode' = mode
         \/ mode = "MODE_REGEX" /\ buffer' = Typed("other") /\ mode' = mode
         \/ mode = "MODE_NORMAL" /\ mode' = "MODE_REGEX" /\ buffer' = buffer
<1> USE DEF keyboard
<1>1. ASSUME NEW key \in Key, hi_ncurses_help_key_event(key) \/ OtherKey(key)
      PROVE  UNCHANGED keyboard
  BY <1>1 DEF hi_ncurses_help_key_event, OtherKey
<1>2. ASSUME NEW key \in Key, RegexKey(key)
      PROVE  /\ mode = "MODE_REGEX" /\ mode' = mode
             /\ buffer' = Typed("number") \/ buffer' = Typed("other")
  BY <1>2 DEF RegexKey, Regex
<1>3. ASSUME NEW key \in Key, MoveKey(key) \/ SettingKey(key)
      PROVE  mode' = mode /\ buffer' \in {buffer, << >>}
  BY <1>3 DEF MoveKey, SettingKey
<1>4. CASE Redraw \/ GotoNothing \/ WalkOn \/ MoveFault \/ SwitchKey \/ ResizeKey
             \/ HelpKey \/ QuitKey \/ Interrupt
  BY <1>4 DEF Redraw, GotoNothing, WalkOn, MoveFault, SwitchKey, ResizeKey, HelpKey,
              QuitKey, Interrupt
<1>5. CASE Escape \/ Search
  BY <1>5 DEF Escape, Search
<1>6. CASE Backspace
  BY <1>6 DEF Backspace
<1>7. CASE HunkKey \/ WalkDone
  BY <1>7 DEF HunkKey, WalkDone
<1>8. CASE NumberKey
  BY <1>8 DEF NumberKey
<1>9. CASE SlashKey
  BY <1>9 DEF SlashKey, Normal
<1> QED
  BY <1>1, <1>2, <1>3, <1>4, <1>5, <1>6, <1>7, <1>8, <1>9 DEF LoopNext

\* The pattern of a search never stays in the buffer of a number.
LEMMA KeyboardKept ==
  ASSUME KeyboardInv, LoopNext
  PROVE  KeyboardInv'
<1> USE DEF KeyboardInv
<1>1. CASE UNCHANGED keyboard
  BY <1>1 DEF keyboard
<1>2. CASE buffer' = << >> /\ mode' \in {mode, "MODE_NORMAL"}
  BY <1>2, EmptyBuffer
<1>3. CASE buffer # << >> /\ buffer' = SubSeq(buffer, 1, Len(buffer) - 1) /\ mode' = mode
  BY <1>3, BackspaceKeeps
<1>4. CASE buffer' = Typed("number") /\ mode' = mode
  <2>1. Typed("number") \in Seq(Char) /\ Len(Typed("number")) < KEYBUFFER_LEN
    BY TypedKeeps DEF Char
  <2>2. mode = "MODE_NORMAL" => Typed("number") \in Seq({"number"})
    BY TypedKeeps
  <2> QED
    BY <1>4, <2>1, <2>2
<1>5. CASE mode = "MODE_REGEX" /\ buffer' = Typed("other") /\ mode' = mode
  <2>1. Typed("other") \in Seq(Char) /\ Len(Typed("other")) < KEYBUFFER_LEN
    BY TypedKeeps DEF Char
  <2> QED
    BY <1>5, <2>1
<1>6. CASE mode = "MODE_NORMAL" /\ mode' = "MODE_REGEX" /\ buffer' = buffer
  BY <1>6
<1> QED
  BY <1>1, <1>2, <1>3, <1>4, <1>5, <1>6, KeyboardStep

-----------------------------------------------------------------------------
\* The help opens at its first line and is scrolled within its lines.
LEMMA LinesKept ==
  ASSUME help_win_line \in 0 .. help_lines - 1
  PROVE  LineAbove \in 0 .. help_lines - 1 /\ LineBelow \in 0 .. help_lines - 1
BY LoopAssumption DEF LineAbove, LineBelow

\* What a step does to the help, the mode and the key read last: the help is
\* shown and takes the key, Escape has ended everything, or the help is not shown.
LEMMA HelpStep ==
  ASSUME LoopNext
  PROVE  \/ UNCHANGED <<help, mode, newch>>
         \/ /\ show_help
            /\ help_win_line' \in {help_win_line, LineAbove, LineBelow}
            /\ mode' = mode
            /\ newch' \in {"escape", "q", "none"}
            /\ show_help' \in BOOLEAN
            /\ newch' = "escape" => ~show_help'
         \/ /\ ~show_help /\ newch' = "escape"
            /\ mode' = "MODE_NORMAL" /\ UNCHANGED help
         \/ /\ ~show_help /\ newch' \in {"q", "none"}
            /\ UNCHANGED help
         \/ /\ mode = "MODE_NORMAL" /\ mode' = mode /\ newch' = "none"
            /\ show_help' = TRUE /\ help_win_line' = 0
<1> USE DEF keyboard, help
<1>1. ASSUME NEW key \in Key, hi_ncurses_help_key_event(key)
      PROVE  /\ show_help
             /\ help_win_line' \in {help_win_line, LineAbove, LineBelow}
             /\ mode' = mode
             /\ newch' \in {"escape", "q", "none"}
             /\ show_help' \in BOOLEAN
             /\ newch' = "escape" => ~show_help'
  <2>1. newch' = (IF key \in {"escape", "q"} THEN key ELSE "none") /\ show_help' = ~RemovesHelp(key)
    BY <1>1 DEF hi_ncurses_help_key_event, getch
  <2>2. newch' = "escape" => key = "escape"
    BY <2>1
  <2> QED
    BY <1>1, <2>1, <2>2 DEF hi_ncurses_help_key_event, RemovesHelp
<1>2. ASSUME NEW key \in Key \ {"escape"}, getch(key)
      PROVE  newch' \in {"q", "none"}
  BY <1>2 DEF getch
<1>3. ASSUME NEW key \in Key, RegexKey(key)
      PROVE  ~show_help /\ newch' \in {"q", "none"} /\ UNCHANGED help
  BY <1>2, <1>3 DEF RegexKey, Regex
<1>4. ASSUME NEW key \in Key, MoveKey(key) \/ SettingKey(key) \/ OtherKey(key)
      PROVE  ~show_help /\ newch' \in {"q", "none"} /\ UNCHANGED help
  <2>1. key # "escape" /\ getch(key)
    BY <1>4 DEF MoveKey, ToGo, SettingKey, OtherKey
  <2> QED
    BY <1>2, <1>4, <2>1 DEF MoveKey, SettingKey, OtherKey, Normal
<1>5. CASE Redraw \/ WalkOn \/ WalkDone \/ Interrupt
  BY <1>5 DEF Redraw, WalkOn, WalkDone, Interrupt
<1>6. CASE Escape
  BY <1>6 DEF Escape, getch
<1>7. CASE Backspace \/ Search \/ GotoNothing \/ HunkKey \/ NumberKey \/ SwitchKey
             \/ SlashKey \/ ResizeKey \/ QuitKey
  <2>1. ~show_help /\ UNCHANGED help
    BY <1>7 DEF Backspace, Search, GotoNothing, HunkKey, NumberKey, SwitchKey, SlashKey,
                ResizeKey, QuitKey, Normal, Regex
  <2>2. \E key \in Key \ {"escape"} : getch(key)
    BY <1>7 DEF Backspace, Search, GotoNothing, HunkKey, NumberKey, SwitchKey, SlashKey,
                ResizeKey, QuitKey, Key
  <2> QED
    BY <1>2, <2>1, <2>2
<1>8. CASE MoveFault
  <2>1. ~show_help /\ UNCHANGED help
    BY <1>8 DEF MoveFault, Normal, Regex
  <2>2. \E key \in Key \ {"escape"} : getch(key)
    BY <1>8 DEF MoveFault, ToGo, Key
  <2> QED
    BY <1>2, <2>1, <2>2
<1>9. CASE HelpKey
  BY <1>9 DEF HelpKey, Normal, getch
<1> QED
  BY <1>1, <1>3, <1>4, <1>5, <1>6, <1>7, <1>8, <1>9 DEF LoopNext

\* The line of the help is set before it is shown, and Escape ends it.
LEMMA HelpKept ==
  ASSUME KeyboardInv, HelpInv, LoopNext
  PROVE  HelpInv'
<1> USE DEF HelpInv, HelpInRange
<1>1. CASE UNCHANGED <<help, mode, newch>>
  BY <1>1 DEF help
<1>2. CASE /\ show_help
           /\ help_win_line' \in {help_win_line, LineAbove, LineBelow}
           /\ mode' = mode
           /\ newch' \in {"escape", "q", "none"}
           /\ show_help' \in BOOLEAN
           /\ newch' = "escape" => ~show_help'
  <2>1. help_win_line' \in 0 .. help_lines - 1
    BY <1>2, LinesKept
  <2> QED
    BY <1>2, <2>1
<1>3. CASE /\ ~show_help /\ newch' = "escape"
           /\ mode' = "MODE_NORMAL" /\ UNCHANGED help
  BY <1>3 DEF help
<1>4. CASE /\ ~show_help /\ newch' \in {"q", "none"}
           /\ UNCHANGED help
  BY <1>4 DEF help
<1>5. CASE /\ mode = "MODE_NORMAL" /\ mode' = mode /\ newch' = "none"
           /\ show_help' = TRUE /\ help_win_line' = 0
  BY <1>5, LoopAssumption
<1> QED
  BY <1>1, <1>2, <1>3, <1>4, <1>5, HelpStep

-----------------------------------------------------------------------------
\* A key gives the terminal another size only if it is KEY_RESIZE.
LEMMA GetchKeeps ==
  ASSUME NEW key \in Key, getch(key), terminal \in Terminals
  PROVE  terminal' \in Terminals /\ (key # "resize" => terminal' = terminal)
BY DEF getch

\* Whoever claims a key, KEY_RESIZE included, keeps account of it.
LEMMA ClaimedKeeps ==
  ASSUME DisplayInv, NEW key \in Key, getch(key), Claimed(key)
  PROVE  DisplayInv'
<1>1. terminal' \in Terminals /\ (key # "resize" => terminal' = terminal)
  BY GetchKeeps DEF DisplayInv
<1>2. missed' \in BOOLEAN /\ (missed => missed') /\ (key = "resize" => missed')
  BY DEF Claimed, DisplayInv
<1> QED
  BY <1>1, <1>2 DEF Claimed, DisplayInv

\* No resize is forgotten.
LEMMA DisplayKept ==
  ASSUME DisplayInv, LoopNext
  PROVE  DisplayInv'
<1> USE DEF display
<1>1. ASSUME NEW key \in Key,
             \/ hi_ncurses_help_key_event(key) \/ RegexKey(key) \/ MoveKey(key)
             \/ SettingKey(key) \/ OtherKey(key)
      PROVE  DisplayInv'
  <2>1. getch(key) /\ Claimed(key)
    BY <1>1 DEF hi_ncurses_help_key_event, RegexKey, MoveKey, SettingKey, OtherKey
  <2> QED
    BY <2>1, ClaimedKeeps
<1>2. CASE Escape \/ Backspace \/ Search \/ GotoNothing \/ NumberKey \/ SwitchKey
             \/ SlashKey \/ HelpKey
  <2>1. \E key \in Key : getch(key) /\ Claimed(key)
    BY <1>2 DEF Escape, Backspace, Search, GotoNothing, NumberKey, SwitchKey, SlashKey,
                HelpKey, Key
  <2> QED
    BY <2>1, ClaimedKeeps
<1>3. CASE Redraw
  <2>1. need_resize \in BOOLEAN /\ missed \in BOOLEAN
    BY DEF DisplayInv
  <2>2. CASE need_resize
    BY <1>3, <2>2 DEF Redraw, DisplayInv
  <2>3. CASE ~need_resize
    BY <1>3, <2>1, <2>3 DEF Redraw, DisplayInv
  <2> QED
    BY <2>2, <2>3
<1>4. CASE ResizeKey
  <2>1. terminal' \in Terminals
    BY <1>4, GetchKeeps DEF ResizeKey, DisplayInv, Key
  <2> QED
    BY <1>4, <2>1 DEF ResizeKey, DisplayInv
<1>5. CASE HunkKey
  <2>1. terminal' = terminal
    BY <1>5, GetchKeeps DEF HunkKey, DisplayInv, Key
  <2> QED
    BY <1>5, <2>1 DEF HunkKey, DisplayInv
<1>6. CASE QuitKey
  <2>1. terminal' = terminal
    BY <1>6, GetchKeeps DEF QuitKey, DisplayInv, Key
  <2> QED
    BY <1>6, <2>1 DEF QuitKey, DisplayInv
<1>7. CASE MoveFault
  <2>1. \E key \in Key \ {"resize"} : getch(key)
    BY <1>7 DEF MoveFault, ToGo, Key
  <2>2. terminal' = terminal
    BY <2>1, GetchKeeps DEF DisplayInv
  <2> QED
    BY <1>7, <2>2 DEF MoveFault, DisplayInv
<1>8. CASE WalkOn
  BY <1>8 DEF WalkOn, DisplayInv
<1>9. CASE WalkDone
  BY <1>9 DEF WalkDone, DisplayInv
<1>10. CASE Interrupt
  BY <1>10 DEF Interrupt, DisplayInv
<1> QED
  BY <1>1, <1>2, <1>3, <1>4, <1>5, <1>6, <1>7, <1>8, <1>9, <1>10 DEF LoopNext

-----------------------------------------------------------------------------
\* A step reports, moves within the file, switches, shows, or does nothing to
\* the pagers.
LEMMA ViewStep ==
  ASSUME LoopNext
  PROVE  \/ UNCHANGED view
         \/ \E message \in Message : Report(message)
         \/ \E o : GoTo(o)
         \/ Switch
         \/ Show
<1> USE DEF view
<1>1. ASSUME NEW key \in Key, MoveKey(key)
      PROVE  \E o : GoTo(o)
  BY <1>1 DEF MoveKey, set_offset
<1>2. ASSUME NEW key \in Key,
             hi_ncurses_help_key_event(key) \/ RegexKey(key) \/ SettingKey(key) \/ OtherKey(key)
      PROVE  UNCHANGED view
  BY <1>2 DEF hi_ncurses_help_key_event, RegexKey, SettingKey, OtherKey
<1>3. CASE Search
  BY <1>3 DEF Search, set_offset, Message
<1>4. CASE GotoNothing
  BY <1>4 DEF GotoNothing, Message
<1>5. CASE WalkOn
  BY <1>5 DEF WalkOn, set_offset
<1>6. CASE SwitchKey
  BY <1>6 DEF SwitchKey
<1>7. CASE Redraw
  BY <1>7 DEF Redraw
<1>8. CASE Escape \/ Backspace \/ HunkKey \/ WalkDone \/ MoveFault \/ NumberKey \/ SlashKey
             \/ ResizeKey \/ HelpKey \/ QuitKey \/ Interrupt
  BY <1>8 DEF Escape, Backspace, HunkKey, WalkDone, MoveFault, NumberKey, SlashKey,
              ResizeKey, HelpKey, QuitKey, Interrupt
<1> QED
  BY <1>1, <1>2, <1>3, <1>4, <1>5, <1>6, <1>7, <1>8 DEF LoopNext

\* The offset of a pager never leaves its file by more than the place behind the
\* end, and the files stay the same.
LEMMA ViewKept ==
  ASSUME ViewInv, LoopNext
  PROVE  ViewInv' /\ UNCHANGED size
<1> USE DEF ViewInv
<1>1. CASE UNCHANGED view
  BY <1>1 DEF view, Places, Pagers
<1>2. CASE \E message \in Message : Report(message)
  BY <1>2 DEF Report, Places, Pagers
<1>3. ASSUME NEW o, GoTo(o)
      PROVE  ViewInv' /\ UNCHANGED size
  <2>1. UNCHANGED <<size, focused>> /\ error' \in Message /\ offset' \in Places
    BY <1>3 DEF GoTo, Message
  <2> QED
    BY <2>1 DEF Places, Pagers
<1>4. CASE Switch
  BY <1>4 DEF Switch, Places, Pagers
<1>5. CASE Show
  BY <1>5 DEF Show, Places, Pagers, Message
<1> QED
  BY <1>1, <1>2, <1>3, <1>4, <1>5, ViewStep

-----------------------------------------------------------------------------
\* The steps of the loop keep the invariant of the loop.
LEMMA LoopKept ==
  ASSUME LoopInv, LoopNext
  PROVE  LoopInv' /\ UNCHANGED size
BY KeyboardKept, HelpKept, DisplayKept, ViewKept DEF LoopInv

\* A step that leaves the loop alone does too.
LEMMA LoopUntouched ==
  ASSUME LoopInv, UNCHANGED loop
  PROVE  LoopInv' /\ UNCHANGED size
BY DEF LoopInv, KeyboardInv, HelpInv, HelpInRange, DisplayInv, ViewInv, Places, Pagers,
       loop, view, keyboard, help, display

\* The types are part of the invariant.
LEMMA LoopInvTypes == LoopInv => LoopTypeOK
BY DEF LoopInv, KeyboardInv, HelpInv, DisplayInv, ViewInv, LoopTypeOK, Char

\* So are the properties of the loop.
LEMMA LoopInvSafety == LoopInv => BufferIsNumber /\ HelpInRange /\ LaidOut
<1> SUFFICES ASSUME LoopInv
             PROVE  BufferIsNumber /\ HelpInRange /\ LaidOut
  OBVIOUS
<1>1. ASSUME mode = "MODE_NORMAL", NEW i \in DOMAIN buffer
      PROVE  buffer[i] # "other"
  <2>1. buffer \in Seq({"number"})
    BY <1>1 DEF LoopInv, KeyboardInv
  <2> QED
    BY <2>1
<1>2. BufferIsNumber
  BY <1>1 DEF BufferIsNumber, LoopInv, KeyboardInv
<1>3. HelpInRange /\ LaidOut
  BY DEF LoopInv, HelpInv, DisplayInv, LaidOut
<1> QED
  BY <1>2, <1>3

\* Wherever Escape was read, q is read by the loop.
LEMMA QuitsAfterEscape ==
  ASSUME LoopInv, LoopNext, newch = "escape", pc = "key", newch' = "q"
  PROVE  pc' = "quit"
<1>1. ~show_help /\ mode = "MODE_NORMAL"
  BY DEF LoopInv, HelpInv
<1>2. ASSUME NEW key \in Key,
             hi_ncurses_help_key_event(key) \/ RegexKey(key) \/ MoveKey(key)
               \/ SettingKey(key) \/ OtherKey(key)
      PROVE  FALSE
  <2>1. ~hi_ncurses_help_key_event(key) /\ ~RegexKey(key)
    BY <1>1 DEF hi_ncurses_help_key_event, RegexKey, Regex
  <2>2. key # "q" /\ getch(key)
    BY <1>2, <2>1 DEF MoveKey, ToGo, SettingKey, OtherKey
  <2> QED
    BY <2>2 DEF getch
<1>3. CASE QuitKey \/ Interrupt
  BY <1>3 DEF QuitKey, Interrupt
<1>4. ASSUME NEW key \in Key \ {"q"}, getch(key)
      PROVE  FALSE
  BY <1>4 DEF getch
<1>5. CASE Escape \/ Backspace \/ Search \/ GotoNothing \/ HunkKey \/ NumberKey \/ SwitchKey
             \/ SlashKey \/ ResizeKey \/ HelpKey
  BY <1>4, <1>5 DEF Escape, Backspace, Search, GotoNothing, HunkKey, NumberKey, SwitchKey,
                    SlashKey, ResizeKey, HelpKey, Key
<1>6. CASE MoveFault
  BY <1>4, <1>6 DEF MoveFault, ToGo, Key
<1>7. CASE Redraw \/ WalkOn \/ WalkDone
  BY <1>7 DEF Redraw, WalkOn, WalkDone
<1> QED
  BY <1>2, <1>3, <1>5, <1>6, <1>7 DEF LoopNext

-----------------------------------------------------------------------------
\* What hi_file_open has acquired, by where it is.
HeldAt(place) ==
  CASE place \in {"closed", "open", "failed"} -> {}
    [] place \in {"calloc", "close_fd"} -> {"fd"}
    [] place \in {"lseek", "strdup", "free_structure"} -> {"fd", "structure"}
    [] place \in {"mmap", "free_filename"} -> {"fd", "structure", "filename"}
    [] place = "close" -> {"fd", "structure", "filename", "memory"}
    [] place = "opened" -> {"structure", "filename", "memory"}

Place == {"closed", "open", "calloc", "lseek", "strdup", "mmap", "close",
          "free_filename", "free_structure", "close_fd", "opened", "failed"}

FileInv ==
  /\ at \in [File -> Place]
  /\ held \in [File -> SUBSET Resource]
  /\ \A f \in File : held[f] = HeldAt(at[f])

\* A file that is not named is not opened, and main waits for those that are.
MainInv ==
  /\ main \in {"options", "open", "calculate", "hi_ncurses_main", "exited"}
  /\ "src" \in Pagers /\ Pagers \subseteq File
  /\ main = "options" => at["src"] = "closed"
  /\ \A f \in File \ Pagers : at[f] = "closed"
  /\ main \in {"calculate", "hi_ncurses_main"} => \A f \in Pagers : at[f] = "opened"

ProgramInv == LoopInv /\ FileInv /\ MainInv

-----------------------------------------------------------------------------
\* Each call and each label of hi_file_open leaves what its next place expects.
LEMMA AcquireKeeps ==
  ASSUME FileInv, NEW f \in File, NEW call \in Place, NEW resource \in SUBSET Resource,
         NEW next \in Place, NEW label \in Place,
         HeldAt(next) = HeldAt(call) \cup resource, HeldAt(label) = HeldAt(call),
         Acquire(f, call, resource, next, label)
  PROVE  FileInv'
<1> USE DEF FileInv, Acquire
<1>1. CASE at' = [at EXCEPT ![f] = next] /\ held' = [held EXCEPT ![f] = @ \cup resource]
  BY <1>1
<1>2. CASE at' = [at EXCEPT ![f] = label] /\ UNCHANGED held
  BY <1>2
<1> QED
  BY <1>1, <1>2

\* So does a label.
LEMMA ReleaseKeeps ==
  ASSUME FileInv, NEW f \in File, NEW label \in Place, NEW resource \in Resource,
         NEW next \in Place, HeldAt(next) = HeldAt(label) \ {resource},
         Release(f, label, resource, next)
  PROVE  FileInv'
BY DEF FileInv, Release

\* HeldAt, place by place.
LEMMA HeldFacts ==
  /\ HeldAt("open") = {} /\ HeldAt("failed") = {}
  /\ HeldAt("calloc") = {"fd"} /\ HeldAt("close_fd") = {"fd"}
  /\ HeldAt("lseek") = {"fd", "structure"} /\ HeldAt("strdup") = {"fd", "structure"}
  /\ HeldAt("free_structure") = {"fd", "structure"}
  /\ HeldAt("mmap") = {"fd", "structure", "filename"}
  /\ HeldAt("free_filename") = {"fd", "structure", "filename"}
  /\ HeldAt("close") = {"fd", "structure", "filename", "memory"}
  /\ HeldAt("opened") = {"structure", "filename", "memory"}
BY DEF HeldAt

\* Opening a file keeps the account of what it holds and leaves the other file alone.
LEMMA OpenKeeps ==
  ASSUME FileInv, NEW f \in File, hi_file_open(f)
  PROVE  FileInv' /\ \A g \in File \ {f} : at'[g] = at[g]
<1>1. ASSUME Acquire(f, "open", {"fd"}, "calloc", "failed")
      PROVE  FileInv'
  <2>1. HeldAt("calloc") = HeldAt("open") \cup {"fd"} /\ HeldAt("failed") = HeldAt("open")
    BY HeldFacts
  <2>2. {"open", "calloc", "failed"} \subseteq Place /\ {"fd"} \in SUBSET Resource
    BY DEF Place, Resource
  <2> QED
    BY <1>1, <2>1, <2>2, AcquireKeeps
<1>2. ASSUME Acquire(f, "calloc", {"structure"}, "lseek", "close_fd")
      PROVE  FileInv'
  <2>1. HeldAt("lseek") = HeldAt("calloc") \cup {"structure"} /\ HeldAt("close_fd") = HeldAt("calloc")
    BY HeldFacts
  <2>2. {"calloc", "lseek", "close_fd"} \subseteq Place /\ {"structure"} \in SUBSET Resource
    BY DEF Place, Resource
  <2> QED
    BY <1>2, <2>1, <2>2, AcquireKeeps
<1>3. ASSUME Acquire(f, "lseek", {}, "strdup", "free_structure")
      PROVE  FileInv'
  <2>1. HeldAt("strdup") = HeldAt("lseek") \cup {} /\ HeldAt("free_structure") = HeldAt("lseek")
    BY HeldFacts
  <2>2. {"lseek", "strdup", "free_structure"} \subseteq Place /\ {} \in SUBSET Resource
    BY DEF Place, Resource
  <2> QED
    BY <1>3, <2>1, <2>2, AcquireKeeps
<1>4. ASSUME Acquire(f, "strdup", {"filename"}, "mmap", "free_structure")
      PROVE  FileInv'
  <2>1. HeldAt("mmap") = HeldAt("strdup") \cup {"filename"} /\ HeldAt("free_structure") = HeldAt("strdup")
    BY HeldFacts
  <2>2. {"strdup", "mmap", "free_structure"} \subseteq Place /\ {"filename"} \in SUBSET Resource
    BY DEF Place, Resource
  <2> QED
    BY <1>4, <2>1, <2>2, AcquireKeeps
<1>5. ASSUME mmap(f)
      PROVE  FileInv'
  <2>1. HeldAt("close") = HeldAt("mmap") \cup {"memory"} /\ HeldAt("free_filename") = HeldAt("mmap")
    BY HeldFacts
  <2>2. {"mmap", "close", "free_filename"} \subseteq Place /\ {"memory"} \in SUBSET Resource
    BY DEF Place, Resource
  <2> QED
    BY <1>5, <2>1, <2>2, AcquireKeeps DEF mmap
<1>6. ASSUME Release(f, "close", "fd", "opened")
      PROVE  FileInv'
  <2>1. HeldAt("opened") = HeldAt("close") \ {"fd"}
    BY HeldFacts
  <2>2. {"close", "opened"} \subseteq Place /\ "fd" \in Resource
    BY DEF Place, Resource
  <2> QED
    BY <1>6, <2>1, <2>2, ReleaseKeeps
<1>7. ASSUME Release(f, "free_filename", "filename", "free_structure")
      PROVE  FileInv'
  <2>1. HeldAt("free_structure") = HeldAt("free_filename") \ {"filename"}
    BY HeldFacts
  <2>2. {"free_filename", "free_structure"} \subseteq Place /\ "filename" \in Resource
    BY DEF Place, Resource
  <2> QED
    BY <1>7, <2>1, <2>2, ReleaseKeeps
<1>8. ASSUME Release(f, "free_structure", "structure", "close_fd")
      PROVE  FileInv'
  <2>1. HeldAt("close_fd") = HeldAt("free_structure") \ {"structure"}
    BY HeldFacts
  <2>2. {"free_structure", "close_fd"} \subseteq Place /\ "structure" \in Resource
    BY DEF Place, Resource
  <2> QED
    BY <1>8, <2>1, <2>2, ReleaseKeeps
<1>9. ASSUME Release(f, "close_fd", "fd", "failed")
      PROVE  FileInv'
  <2>1. HeldAt("failed") = HeldAt("close_fd") \ {"fd"}
    BY HeldFacts
  <2>2. {"close_fd", "failed"} \subseteq Place /\ "fd" \in Resource
    BY DEF Place, Resource
  <2> QED
    BY <1>9, <2>1, <2>2, ReleaseKeeps
<1>10. FileInv'
  BY <1>1, <1>2, <1>3, <1>4, <1>5, <1>6, <1>7, <1>8, <1>9 DEF hi_file_open
<1>11. \A g \in File \ {f} : at'[g] = at[g]
  <2>1. \E place : at' = [at EXCEPT ![f] = place]
    BY DEF hi_file_open, mmap, Acquire, Release
  <2> QED
    BY <2>1 DEF FileInv
<1> QED
  BY <1>10, <1>11

\* A file that is closed, or that has been dealt with, is not worked on.
LEMMA OpenIsBusy ==
  ASSUME NEW f \in File, hi_file_open(f)
  PROVE  Opening(f)
BY DEF hi_file_open, mmap, Acquire, Release, Opening

-----------------------------------------------------------------------------
\* The program starts with nothing open.
LEMMA InitProgramInv == ProgramInit => ProgramInv
<1> SUFFICES ASSUME ProgramInit
             PROVE  ProgramInv
  OBVIOUS
<1>1. FileInv
  BY DEF ProgramInit, FileInit, FileInv, HeldAt, Place
<1>2. "src" \in Pagers /\ Pagers \subseteq File
  BY DEF ProgramInit, Init, Pagers, File
<1>3. MainInv
  BY <1>2 DEF ProgramInit, FileInit, MainInv
<1>4. ViewInv
  <2>1. \A pager \in Pagers : size[pager] \in 1 .. MaxSize
    BY DEF ProgramInit, Init, Pagers
  <2>2. offset = [pager \in Pagers |-> 0] /\ focused = "src" /\ error = "none"
    BY DEF ProgramInit, Init
  <2>3. offset \in Places
    BY <2>1, <2>2, LinkedAssumption DEF Places
  <2> QED
    BY <1>2, <2>2, <2>3 DEF ViewInv, Message
<1>5. KeyboardInv
  BY EmptyBuffer DEF ProgramInit, LoopInit, KeyboardInv
<1>6. HelpInv /\ DisplayInv
  BY DEF ProgramInit, LoopInit, HelpInv, HelpInRange, DisplayInv
<1> QED
  BY <1>1, <1>3, <1>4, <1>5, <1>6 DEF ProgramInv, LoopInv

\* What main does to the files.
LEMMA FilesKept ==
  ASSUME FileInv, MainInv, UNCHANGED size, [ProgramNext]_programVars
  PROVE  FileInv' /\ MainInv'
<1> USE DEF MainInv, Pagers
<1>1. CASE UNCHANGED <<files, main>>
  BY <1>1 DEF FileInv, files
<1>2. CASE Usage \/ CouldNotOpen \/ Finish
  BY <1>2 DEF Usage, CouldNotOpen, Finish, FileInv, files
<1>3. CASE OptionsAccepted
  <2>1. at' = [at EXCEPT !["src"] = "open"] /\ at["src"] = "closed" /\ held' = held
        /\ main' = "open"
    BY <1>3 DEF OptionsAccepted
  <2>2. HeldAt("open") = HeldAt("closed")
    BY DEF HeldAt
  <2>3. FileInv'
    BY <2>1, <2>2 DEF FileInv, Place
  <2> QED
    BY <2>1, <2>3 DEF FileInv
<1>4. CASE OpenFile
  <2>1. PICK f \in File : hi_file_open(f)
    BY <1>4 DEF OpenFile
  <2>2. main = "open" /\ main' = "open"
    BY <1>4 DEF OpenFile
  <2>3. at[f] # "closed"
    BY <2>1, OpenIsBusy DEF Opening
  <2>4. FileInv' /\ \A g \in File \ {f} : at'[g] = at[g]
    BY <2>1, OpenKeeps
  <2> QED
    BY <2>2, <2>3, <2>4
<1>5. CASE OpenSecond
  <2>1. at' = [at EXCEPT !["dst"] = "open"] /\ at["dst"] = "closed" /\ held' = held
        /\ main = "open" /\ main' = "open" /\ "dst" \in Pagers
    BY <1>5 DEF OpenSecond, linked
  <2>2. HeldAt("open") = HeldAt("closed")
    BY DEF HeldAt
  <2>3. FileInv'
    BY <2>1, <2>2 DEF FileInv, Place
  <2> QED
    BY <2>1, <2>3 DEF FileInv
<1>6. CASE Opened
  BY <1>6 DEF Opened, FileInv, files
<1>7. CASE Calculate
  BY <1>7 DEF Calculate, FileInv, files
<1>8. CASE Browse
  BY <1>1, <1>8 DEF Browse
<1>9. CASE Ended \/ UNCHANGED programVars
  BY <1>1, <1>9 DEF Ended, programVars
<1> QED
  BY <1>2, <1>3, <1>4, <1>5, <1>6, <1>7, <1>8, <1>9 DEF ProgramNext

\* What the program does to the loop.
LEMMA NextLoopInv ==
  ASSUME LoopInv, MainInv, [ProgramNext]_programVars
  PROVE  LoopInv' /\ UNCHANGED size
<1>1. CASE UNCHANGED loop
  BY <1>1, LoopUntouched
<1>2. CASE Usage \/ OptionsAccepted \/ OpenFile \/ OpenSecond \/ CouldNotOpen \/ Opened
             \/ Finish \/ Ended \/ UNCHANGED programVars
  BY <1>1, <1>2 DEF Usage, OptionsAccepted, OpenFile, OpenSecond, CouldNotOpen, Opened,
                    Finish, Ended, programVars
<1>3. CASE Calculate
  <2>1. UNCHANGED <<view, keyboard, help, display, newch>> /\ pc' = "redraw" /\ diff' \in BOOLEAN
    BY <1>3 DEF Calculate
  <2>2. KeyboardInv' /\ HelpInv' /\ ViewInv' /\ UNCHANGED size
    BY <2>1 DEF LoopInv, KeyboardInv, HelpInv, HelpInRange, ViewInv, Places, Pagers,
                view, keyboard, help
  <2>3. DisplayInv'
    BY <2>1 DEF LoopInv, DisplayInv, display
  <2> QED
    BY <2>2, <2>3 DEF LoopInv
<1>4. CASE Browse
  BY <1>4, LoopKept DEF Browse
<1> QED
  BY <1>2, <1>3, <1>4 DEF ProgramNext

\* Every step of the program keeps the invariants of the files, of main and of
\* the loop.
LEMMA NextProgramInv == ProgramInv /\ [ProgramNext]_programVars => ProgramInv'
BY FilesKept, NextLoopInv DEF ProgramInv

\* The inductive invariant holds of every behaviour.
LEMMA ProgramInvariant == ProgramSpec => []ProgramInv
BY InitProgramInv, NextProgramInv, PTL DEF ProgramSpec

-----------------------------------------------------------------------------
\* The types are part of the invariant.
LEMMA InvTypes == ProgramInv => ProgramTypeOK
BY LoopInvTypes DEF ProgramInv, ProgramTypeOK, FileTypeOK, FileInv, MainInv, Place

\* The variables keep their types, for files, key buffers, helps and terminals
\* of every size.
THEOREM ProgramTypeCorrect == ProgramSpec => []ProgramTypeOK
BY ProgramInvariant, InvTypes, PTL

\* What holds of the files follows from where they are.
LEMMA InvFiles == ProgramInv => FailureReleasesAll /\ BrowsesMapped
<1> SUFFICES ASSUME ProgramInv
             PROVE  FailureReleasesAll /\ BrowsesMapped
  OBVIOUS
<1>1. \A f \in File : held[f] = HeldAt(at[f])
  BY DEF ProgramInv, FileInv
<1>2. FailureReleasesAll
  <2>1. HeldAt("closed") = {}
    BY DEF HeldAt
  <2> QED
    BY <1>1, HeldFacts DEF FailureReleasesAll
<1>3. BrowsesMapped
  <2>1. HeldAt("closed") = {} /\ "memory" \in HeldAt("opened")
    BY HeldFacts DEF HeldAt
  <2> QED
    BY <1>1, <2>1 DEF BrowsesMapped, ProgramInv, MainInv
<1> QED
  BY <1>2, <1>3

\* Opening a file that fails at any call leaves nothing behind.
THEOREM NothingLeaks == ProgramSpec => []FailureReleasesAll
BY ProgramInvariant, InvFiles, PTL

\* The loop runs over mapped files only.
THEOREM LoopHasItsFiles == ProgramSpec => []BrowsesMapped
BY ProgramInvariant, InvFiles, PTL

\* What holds of the loop is part of its invariant.
LEMMA InvLoop == ProgramInv => BufferIsNumber /\ HelpInRange /\ LaidOut
BY LoopInvSafety DEF ProgramInv

\* No pattern is ever read as a number, and the buffer has room for its zero.
THEOREM BufferStaysNumber == ProgramSpec => []BufferIsNumber
BY ProgramInvariant, InvLoop, PTL

\* The line of the help that malloc leaves unset is never used.
THEOREM HelpStaysInRange == ProgramSpec => []HelpInRange
BY ProgramInvariant, InvLoop, PTL

\* No resize is lost between the key and the redraw that lays out again.
THEOREM ResizeIsLaidOut == ProgramSpec => []LaidOut
BY ProgramInvariant, InvLoop, PTL

\* Only the loop reads q, and after Escape it quits.
LEMMA StepQuits ==
  ProgramInv /\ [ProgramNext]_programVars
    => [newch = "escape" /\ pc = "key" /\ newch' = "q" => pc' = "quit"]_loop
<1> SUFFICES ASSUME ProgramInv, ProgramNext, newch = "escape", pc = "key", newch' = "q"
             PROVE  pc' = "quit"
  BY DEF programVars
<1>1. CASE Browse
  BY <1>1, QuitsAfterEscape DEF ProgramInv, Browse
<1>2. CASE Calculate
  BY <1>2 DEF Calculate
<1>3. CASE Usage \/ OptionsAccepted \/ OpenFile \/ OpenSecond \/ CouldNotOpen \/ Opened
             \/ Finish \/ Ended
  BY <1>3 DEF Usage, OptionsAccepted, OpenFile, OpenSecond, CouldNotOpen, Opened,
              Finish, Ended, programVars, loop
<1> QED
  BY <1>1, <1>2, <1>3 DEF ProgramNext

\* Escape and q quit, out of a help and a search as well.
THEOREM EscapeAndQuit == ProgramSpec => EscapeThenQuit
BY ProgramInvariant, StepQuits, PTL DEF ProgramSpec, EscapeThenQuit
=============================================================================
