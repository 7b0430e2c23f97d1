----------------------------- MODULE LinkedView -----------------------------
(***************************************************************************)
(* What two linked pagers promise, without hunks: the pager with the focus *)
(* goes to a byte of its file or stays and says why, and the other one is  *)
(* taken along to some place in its file or just behind its end.           *)
(* DiffSession implements it over a calculated diff; MainLoop builds on    *)
(* it.  A program with one file has one pager and takes none along.        *)
(***************************************************************************)
EXTENDS Integers

CONSTANT MaxSize  \* bound: the longest file

ASSUME LinkedAssumption == MaxSize \in Nat

VARIABLES
  size,     \* of the file of each pager
  offset,   \* of each pager
  focused,  \* the pager the keys act on
  error     \* the message for the ruler

Pagers == DOMAIN size

Message == {"none", "Reached EOF", "Reached BOF", "No buffer", "Search failed"}

Init ==
  /\ size \in [{"src"} -> 1 .. MaxSize] \cup [{"src", "dst"} -> 1 .. MaxSize]
  /\ offset = [pager \in Pagers |-> 0]
  /\ focused = "src"
  /\ error = "none"

Places == {places \in [Pagers -> 0 .. MaxSize] : \A pager \in Pagers : places[pager] <= size[pager]}

\* set_offset for the pager with the focus.
GoTo(o) ==
  /\ \/ o < 0 /\ error' = "Reached BOF" /\ UNCHANGED offset
     \/ o >= size[focused] /\ error' = "Reached EOF" /\ UNCHANGED offset
     \/ /\ 0 <= o /\ o < size[focused]
        /\ offset' \in {places \in Places : places[focused] = o}
        /\ UNCHANGED error
  /\ UNCHANGED <<size, focused>>

\* A key finds nothing to go to.
Report(message) == error' = message /\ UNCHANGED <<size, offset, focused>>

\* The key p.
Switch == focused' \in Pagers \ {focused} /\ UNCHANGED <<size, offset, error>>

\* A redraw shows the message and forgets it.
Show == error' = "none" /\ UNCHANGED <<size, offset, focused>>

Next ==
  \/ \E o \in -1 .. MaxSize : GoTo(o)
  \/ \E message \in Message : Report(message)
  \/ Switch
  \/ Show

Spec == Init /\ [][Next]_<<size, offset, focused, error>>
=============================================================================
