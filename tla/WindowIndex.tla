---------------------------- MODULE WindowIndex ----------------------------
(***************************************************************************)
(* What hi_hash_generate promises whatever its threads do: the table only  *)
(* grows, for one hash of one block of the file at a time, by all the      *)
(* windows of the block that have the hash and by nothing else.            *)
(***************************************************************************)
EXTENDS HashTable

VARIABLES
  file,  \* the file being hashed
  index  \* the set of the offsets listed under each hash

Init == file \in Files /\ index = [h \in Hash |-> {}]

\* The windows of a block that have a hash go into the index.
Enter(block, h) ==
  /\ index' = [index EXCEPT ![h] = @ \cup ToSet(LocalTable(file, block)[h])]
  /\ UNCHANGED file

Next == \E block \in Jobs(file), h \in Hash : Enter(block, h)

Spec == Init /\ [][Next]_<<file, index>>
=============================================================================
