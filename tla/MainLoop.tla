------------------------------ MODULE MainLoop ------------------------------
(***************************************************************************)
(* The loop of hi_ncurses_main (src/src/hi_ncurses_main.c): redraw, read a *)
(* key, offer it to the help (src/src/hi_ncurses_help.c), the search that  *)
(* is being typed, the pagers and the key buffer in turn.  Where the       *)
(* pagers go is that of LinkedView: DiffSession has the hunks and          *)
(* FilePager the layout.                                                   *)
(***************************************************************************)
EXTENDS LinkedView, Sequences

CONSTANTS KEYBUFFER_LEN,  \* 256 in the code
          help_lines,     \* the lines of help_data
          Terminals,      \* the widths of the terminal
          Unset           \* what malloc leaves in a field

ASSUME LoopAssumption ==
  /\ KEYBUFFER_LEN \in Nat \ {0}
  /\ help_lines \in Nat \ {0}
  /\ Terminals \subseteq Nat
  /\ Unset \notin Nat

\* The keys, by what the loop and the pagers do with them: number is a hex digit,
\* x or -, row a comma or a point, other a key that nobody knows.
Key == {"escape", "backspace", "enter", "number", "q", "p", "/", "resize", "?", "ERR",
        "other", "=", "up", "down", "page", "home", "end", "mode", "row", "hunk", "g"}

VARIABLES
  pc,             \* "start", "redraw", "key", "walk" in move_to_next_diff,
                  \* "quit" or "fault"
  diff,           \* the diff of two files was calculated and not NULL
  buffer,         \* the characters in the key buffer: number or other
  mode,           \* MODE_NORMAL or MODE_REGEX
  show_help, help_win_line,
  need_resize,
  terminal,       \* COLS
  width,          \* COLS when the pagers were laid out
  newch,          \* auxiliary: the key read last, if it was escape or q
  missed          \* auxiliary: a KEY_RESIZE was taken for something else

keyboard == <<buffer, mode>>
help == <<show_help, help_win_line>>
display == <<need_resize, terminal, width, missed>>
view == <<size, offset, focused, error>>
loop == <<view, pc, diff, keyboard, help, display, newch>>

LoopTypeOK ==
  /\ pc \in {"start", "redraw", "key", "walk", "quit", "fault"}
  /\ diff \in BOOLEAN
  /\ buffer \in Seq({"number", "other"})
  /\ mode \in {"MODE_NORMAL", "MODE_REGEX"}
  /\ show_help \in BOOLEAN
  /\ help_win_line \in 0 .. help_lines - 1 \cup {Unset}
  /\ need_resize \in BOOLEAN /\ missed \in BOOLEAN
  /\ terminal \in Terminals /\ width \in Terminals
  /\ newch \in {"escape", "q", "none"}
  /\ error \in Message
  /\ offset \in Places
  /\ focused \in Pagers

\* hi_ncurses_main up to the loop.  The structure comes from malloc, and what is
\* not assigned is Unset.
LoopInit ==
  /\ pc = "start"
  /\ buffer = << >>
  /\ mode = "MODE_NORMAL"
  /\ show_help = FALSE /\ help_win_line = Unset
  /\ need_resize = FALSE
  /\ terminal \in Terminals
  /\ width = terminal
  /\ newch = "none"
  /\ missed = FALSE

linked == "dst" \in Pagers

-----------------------------------------------------------------------------
\* Bug: need_resize is reset before it is looked at.
RedrawUnresized ==
  /\ pc = "redraw"
  /\ need_resize' = FALSE
  /\ Show
  /\ pc' = "key"
  /\ UNCHANGED <<diff, keyboard, help, terminal, width, missed, newch>>

Redraw ==
  /\ pc = "redraw"
  /\ width' = IF need_resize THEN terminal ELSE width
  /\ missed' = (missed /\ ~need_resize)
  /\ need_resize' = FALSE
  /\ Show
  /\ pc' = "key"
  /\ UNCHANGED <<diff, keyboard, help, terminal, newch>>

\* getch, which gives the terminal its new size before it returns KEY_RESIZE.
getch(key) ==
  /\ pc = "key"
  /\ newch' = IF key \in {"escape", "q"} THEN key ELSE "none"
  /\ terminal' \in IF key = "resize" THEN Terminals ELSE {terminal}

\* The key is done with; unless it is KEY_RESIZE and claimed here.
Claimed(key) ==
  /\ pc' = "redraw"
  /\ missed' = (missed \/ key = "resize")
  /\ UNCHANGED <<diff, need_resize, width>>

LineBelow == IF help_win_line + 1 >= help_lines - 1 THEN help_lines - 1
             ELSE help_win_line + 1

LineAbove == IF help_win_line = 0 THEN 0 ELSE help_win_line - 1

\* Bug: Escape does not remove the help.
RemovesHelpByQuestion(key) == key = "?"

RemovesHelp(key) == key \in {"escape", "?"}

\* hi_ncurses_help_key_event claims every key while the help is shown.
hi_ncurses_help_key_event(key) ==
  /\ show_help /\ getch(key) /\ Claimed(key)
  /\ show_help' = ~RemovesHelp(key)
  /\ help_win_line' = CASE key = "up" -> LineAbove
                        [] key = "down" -> LineBelow
                        [] OTHER -> help_win_line
  /\ UNCHANGED <<view, keyboard>>

\* Bug: only the mode is reset.
EscapeKeepsBuffer ==
  /\ ~show_help /\ getch("escape") /\ Claimed("escape")
  /\ mode' = "MODE_NORMAL"
  /\ UNCHANGED <<view, buffer, help>>

Escape ==
  /\ ~show_help /\ getch("escape") /\ Claimed("escape")
  /\ buffer' = << >> /\ mode' = "MODE_NORMAL"
  /\ UNCHANGED <<view, help>>

Backspace ==
  /\ ~show_help /\ getch("backspace") /\ Claimed("backspace")
  /\ buffer' = IF buffer = << >> THEN << >> ELSE SubSeq(buffer, 1, Len(buffer) - 1)
  /\ UNCHANGED <<view, mode, help>>

\* The buffer with one more character, if there is room for it.
Typed(char) == IF Len(buffer) + 1 < KEYBUFFER_LEN THEN Append(buffer, char) ELSE buffer

Regex == ~show_help /\ mode = "MODE_REGEX"

\* Any key that is typed goes into the pattern, KEY_RESIZE cut down to a char.
RegexKey(key) ==
  /\ Regex /\ key \notin {"escape", "backspace", "enter"}
  /\ getch(key) /\ Claimed(key)
  /\ buffer' = Typed(IF key = "number" THEN key ELSE "other")
  /\ UNCHANGED <<view, mode, help>>

-----------------------------------------------------------------------------
\* Keys that move the pager with the focus.

\* set_offset follows a link by way of the diff, whether there is one or not.
Follows(o) == linked /\ 0 <= o /\ o < size[focused]

set_offset(o) ==
  /\ Follows(o) => diff
  /\ GoTo(o)

SetOffsetFault(o) == Follows(o) /\ ~diff

\* hi_ncurses_fpager_search: the match is at or after the offset.  An empty
\* pattern, a bad one and a failed match all leave a message.
Search ==
  /\ Regex /\ getch("enter") /\ Claimed("enter")
  /\ \/ Report("Search failed")
     \/ buffer # << >> /\ \E o \in offset[focused] .. size[focused] : set_offset(o)
  /\ buffer' = << >> /\ mode' = "MODE_NORMAL"
  /\ UNCHANGED help

Normal == ~show_help /\ mode = "MODE_NORMAL"

\* Where a key can go: any number may be in the buffer.
Reach(key) == CASE key = "home" -> {0}
                [] key = "end" -> {size[focused]}
                [] OTHER -> -1 .. size[focused]

\* The key moves the pager: g only if a number has been typed.
ToGo(key) == \/ key \in {"up", "down", "page", "home", "end"}
             \/ key = "g" /\ buffer # << >>

MoveKey(key) ==
  /\ Normal /\ ToGo(key) /\ getch(key) /\ Claimed(key)
  /\ \E o \in Reach(key) : set_offset(o)
  /\ buffer' = IF key \in {"home", "end"} THEN buffer ELSE << >>
  /\ UNCHANGED <<mode, help>>

GotoNothing ==
  /\ Normal /\ buffer = << >> /\ getch("g") /\ Claimed("g")
  /\ Report("No buffer")
  /\ UNCHANGED <<keyboard, help>>

\* move_to_next_diff returns at once without a diff; otherwise it calls
\* set_offset any number of times.
HunkKey ==
  /\ Normal /\ getch("hunk")
  /\ pc' = IF diff THEN "walk" ELSE "redraw"
  /\ buffer' = IF diff THEN buffer ELSE << >>
  /\ UNCHANGED <<view, diff, mode, help, need_resize, width, missed>>

WalkOn ==
  /\ pc = "walk"
  /\ \E o \in -1 .. size[focused] : set_offset(o)
  /\ UNCHANGED <<pc, diff, keyboard, help, need_resize, terminal, width, missed, newch>>

WalkDone ==
  /\ pc = "walk"
  /\ pc' = "redraw"
  /\ buffer' = << >>
  /\ UNCHANGED <<view, diff, mode, help, display, newch>>

MoveFault ==
  /\ \/ Regex /\ buffer # << >> /\ getch("enter")
          /\ \E o \in offset[focused] .. size[focused] : SetOffsetFault(o)
     \/ \E key \in Key : /\ Normal /\ ToGo(key) /\ getch(key)
                         /\ \E o \in Reach(key) : SetOffsetFault(o)
  /\ pc' = "fault"
  /\ UNCHANGED <<view, diff, keyboard, help, need_resize, width, missed>>

\* The settings of the pager; = is for the one that has not the focus.
SettingKey(key) ==
  /\ Normal /\ key \in {"mode", "row"} \cup (IF linked THEN {"="} ELSE {})
  /\ getch(key) /\ Claimed(key)
  /\ buffer' = IF key = "row" THEN << >> ELSE buffer
  /\ UNCHANGED <<view, mode, help>>

-----------------------------------------------------------------------------
\* What is left for the loop itself.

NumberKey ==
  /\ Normal /\ getch("number") /\ Claimed("number")
  /\ buffer' = Typed("number")
  /\ UNCHANGED <<view, mode, help>>

SwitchKey ==
  /\ Normal /\ getch("p") /\ Claimed("p")
  /\ IF linked THEN Switch ELSE UNCHANGED view
  /\ UNCHANGED <<keyboard, help>>

SlashKey ==
  /\ Normal /\ getch("/") /\ Claimed("/")
  /\ mode' = "MODE_REGEX"
  /\ UNCHANGED <<view, buffer, help>>

ResizeKey ==
  /\ Normal /\ getch("resize")
  /\ need_resize' = TRUE
  /\ pc' = "redraw"
  /\ UNCHANGED <<view, diff, keyboard, help, width, missed>>

\* Bug: the help opens where it was left.
HelpKeyKeepsLine ==
  /\ Normal /\ getch("?") /\ Claimed("?")
  /\ show_help' = TRUE
  /\ UNCHANGED <<view, keyboard, help_win_line>>

HelpKey ==
  /\ Normal /\ getch("?") /\ Claimed("?")
  /\ show_help' = TRUE /\ help_win_line' = 0
  /\ UNCHANGED <<view, keyboard>>

OtherKey(key) ==
  /\ Normal /\ key \in {"ERR", "other", "enter"} \cup (IF linked THEN {} ELSE {"="})
  /\ getch(key) /\ Claimed(key)
  /\ UNCHANGED <<view, keyboard, help>>

QuitKey ==
  /\ Normal /\ getch("q")
  /\ pc' = "quit"
  /\ UNCHANGED <<view, diff, keyboard, help, need_resize, width, missed>>

\* SIGINT calls finish whatever the loop is doing.
Interrupt ==
  /\ pc \in {"redraw", "key", "walk"}
  /\ pc' = "quit"
  /\ UNCHANGED <<view, diff, keyboard, help, display, newch>>

LoopNext ==
  \/ Redraw
  \/ \E key \in Key :
       hi_ncurses_help_key_event(key) \/ RegexKey(key) \/ MoveKey(key)
         \/ SettingKey(key) \/ OtherKey(key)
  \/ Escape \/ Backspace \/ Search \/ GotoNothing \/ HunkKey \/ WalkOn \/ WalkDone
  \/ MoveFault \/ NumberKey \/ SwitchKey \/ SlashKey \/ ResizeKey \/ HelpKey
  \/ QuitKey \/ Interrupt

-----------------------------------------------------------------------------
\* Outside of a search the key buffer holds a number and nothing else, whatever
\* was typed into a pattern before, and there is always room for its zero.
BufferIsNumber ==
  /\ Len(buffer) < KEYBUFFER_LEN
  /\ mode = "MODE_NORMAL" => "other" \notin {buffer[i] : i \in DOMAIN buffer}

\* While it is shown the help starts at one of its lines, which nothing sets
\* before it is first opened, and no search is being typed behind it.
HelpInRange ==
  show_help => help_win_line \in 0 .. help_lines - 1 /\ mode = "MODE_NORMAL"

\* Before a key is read the pagers have been laid out for the terminal, but for
\* a KEY_RESIZE that the help or a pattern has swallowed.
LaidOut == pc = "key" => width = terminal \/ missed

\* From wherever the user is, Escape and q quit.
EscapeThenQuit == [][newch = "escape" /\ pc = "key" /\ newch' = "q" => pc' = "quit"]_loop
=============================================================================
