---------------------------- MODULE DiffSession ----------------------------
(***************************************************************************)
(* A session of src/src/hi.c with two files: RKDiff calculates the diff    *)
(* and the pagers show it until the user quits.                            *)
(***************************************************************************)
EXTENDS RKDiff, Pager

sessionVars == <<vars, screen>>

SessionInit == Init /\ PagerInit

Calculate == Next /\ pc \notin {"done", "fault", "failed"} /\ UNCHANGED screen

\* The tree is complete; hi_ncurses_main sets up the pagers.
Open ==
  /\ pc = "done"
  /\ pc' = "redraw"
  /\ shape' = FinalShape
  /\ UNCHANGED <<src, dst, working_hunks, tail, cursor, cached, offset, focused,
                 error, walk>>

Browse ==
  /\ pc \in {"redraw", "key", "next"}
  /\ pagers
  /\ UNCHANGED <<src, dst, working_hunks, tail, cursor>>

\* Also without a diff: the pagers over two files without one are Program's.
Stopped == pc \in {"quit", "fault", "failed"} /\ UNCHANGED sessionVars

SessionNext == Calculate \/ Open \/ Browse \/ Stopped

\* move_to_next_diff runs on once a key has started it.
SessionSpec ==
  /\ SessionInit
  /\ [][SessionNext]_sessionVars
  /\ WF_sessionVars(pc = "next" /\ Browse)

-----------------------------------------------------------------------------
\* Whatever hunks the lookups return, the pagers keep to LinkedView, on which the
\* main loop is built: a key takes the focused pager to a byte of its file or
\* leaves both where they are with a message, and a link ends in the file.
View == INSTANCE LinkedView WITH size <- [pager \in Side |-> Size(pager)]
RefinesLinkedView == View!Spec

\* ] and } only go forward, although a lookup may return a hunk that does not
\* hold the byte, and a turn that does not count goes on.
NextGoesForward ==
  [][pc = "next" /\ walk.left > 0 /\ walk.forwards =>
       LET step == offset'[focused] - offset[focused]
       IN  step >= 0 /\ (step > 0 \/ walk'.left < walk.left)]_sessionVars

\* Every key is done at some time: { and }, which go past small hunks without
\* counting them, do not go round in a circle.
KeysReturn == pc = "next" ~> pc = "redraw"

\* "Previous or next hunk" (README:66): [ does not move the pager forward.
PreviousGoesBack ==
  [][pc = "next" /\ walk.left > 0 /\ ~walk.forwards =>
       offset'[focused] <= offset[focused]]_sessionVars
=============================================================================
