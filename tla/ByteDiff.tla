------------------------------ MODULE ByteDiff ------------------------------
(***************************************************************************)
(* What the simple algorithm promises: every byte both files have is, once *)
(* and for all, called the same or different, and rightly so.  Bytes are   *)
(* decided in any order and any number at a time.                          *)
(***************************************************************************)
EXTENDS FileImage

VARIABLES src, dst, verdict

\* The bytes that both files have.
Common(file1, file2) ==
  0 .. (IF file1.size < file2.size THEN file1.size ELSE file2.size) - 1

Truth(i) == IF src.memory[i] = dst.memory[i] THEN "same" ELSE "diff"

Init ==
  /\ src \in Files /\ dst \in Files
  /\ verdict = [i \in Common(src, dst) |-> "unknown"]

\* The bytes of a set that are still open get their verdict.
Decide(bytes) ==
  /\ \A i \in bytes : verdict[i] = "unknown"
  /\ verdict' = [i \in DOMAIN verdict |->
                   IF i \in bytes THEN Truth(i) ELSE verdict[i]]
  /\ UNCHANGED <<src, dst>>

Next == \E bytes \in SUBSET DOMAIN verdict : Decide(bytes)

Spec == Init /\ [][Next]_<<src, dst, verdict>>
=============================================================================
