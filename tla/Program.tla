------------------------------ MODULE Program ------------------------------
(***************************************************************************)
(* main of src/src/hi.c: the options, one or two files opened, the diff of *)
(* two, and the main loop, out of which the program only goes by exit.     *)
(***************************************************************************)
EXTENDS MainLoop, HiFile

VARIABLE main  \* where main is: "options", "open", "calculate", "hi_ncurses_main"
               \* or "exited"

programVars == <<loop, files, main>>

ProgramTypeOK ==
  /\ LoopTypeOK
  /\ FileTypeOK
  /\ main \in {"options", "open", "calculate", "hi_ncurses_main", "exited"}

\* The files named are those of the pagers; diff is NULL.
ProgramInit ==
  /\ Init
  /\ LoopInit
  /\ FileInit
  /\ diff = FALSE
  /\ main = "options"

\* help and version exit, for what they are asked for, for an option out of
\* range and for a missing file name.
Usage ==
  /\ main = "options"
  /\ main' = "exited"
  /\ UNCHANGED <<loop, files>>

OptionsAccepted ==
  /\ main = "options"
  /\ main' = "open"
  /\ at' = [at EXCEPT !["src"] = "open"]
  /\ UNCHANGED <<loop, held>>

OpenFile ==
  /\ main = "open"
  /\ \E f \in File : hi_file_open(f)
  /\ UNCHANGED <<loop, main>>

OpenSecond ==
  /\ main = "open" /\ linked
  /\ at["src"] = "opened" /\ at["dst"] = "closed"
  /\ at' = [at EXCEPT !["dst"] = "open"]
  /\ UNCHANGED <<loop, held, main>>

CouldNotOpen ==
  /\ main = "open"
  /\ \E f \in File : at[f] = "failed"
  /\ main' = "exited"
  /\ UNCHANGED <<loop, files>>

\* Bug: the second file is not waited for.
OpenedFirst ==
  /\ main = "open" /\ at["src"] = "opened"
  /\ main' = "calculate"
  /\ UNCHANGED <<loop, files>>

Opened ==
  /\ main = "open"
  /\ \A pager \in Pagers : at[pager] = "opened"
  /\ main' = "calculate"
  /\ UNCHANGED <<loop, files>>

\* hi_diff_calculate returns NULL when memory runs out, and main goes on.
Calculate ==
  /\ main = "calculate"
  /\ main' = "hi_ncurses_main"
  /\ pc' = "redraw"
  /\ diff' \in IF linked THEN BOOLEAN ELSE {FALSE}
  /\ UNCHANGED <<view, keyboard, help, display, newch, files>>

Browse ==
  /\ main = "hi_ncurses_main"
  /\ LoopNext
  /\ UNCHANGED <<files, main>>

\* finish: hi_ncurses_main does not return and the files are not closed.
Finish ==
  /\ main = "hi_ncurses_main" /\ pc = "quit"
  /\ main' = "exited"
  /\ UNCHANGED <<loop, files>>

Ended == (main = "exited" \/ pc = "fault") /\ UNCHANGED programVars

ProgramNext ==
  \/ Usage \/ OptionsAccepted
  \/ OpenFile \/ OpenSecond \/ CouldNotOpen \/ Opened
  \/ Calculate \/ Browse \/ Finish \/ Ended

ProgramSpec == ProgramInit /\ [][ProgramNext]_programVars

-----------------------------------------------------------------------------
\* The loop runs over files that are mapped, both of them if there are two.
BrowsesMapped ==
  main = "hi_ncurses_main" =>
    \A f \in File : IF f \in Pagers THEN "memory" \in held[f] ELSE held[f] = {}
=============================================================================
