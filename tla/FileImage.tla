----------------------------- MODULE FileImage -----------------------------
(***************************************************************************)
(* The mapped file of src/src/hi_file.c: a size and the bytes of memory.   *)
(* hi_file_open maps the file with mmap, which fails for an empty file, so *)
(* a file the program holds has at least one byte.  The mapping is a whole *)
(* number of pages: the bytes between the end of the file and the end of   *)
(* its last page read as zero, and what lies past that page is either      *)
(* unmapped (the read faults) or some other mapping of the process.        *)
(***************************************************************************)
EXTENDS Integers

CONSTANTS Byte,      \* the values of an unsigned char
          MaxSize,   \* bound: the longest file
          PageSize,  \* the page of the mapping
          Unmapped,  \* what a faulting read yields
          Beyond     \* what may lie past the last page: bytes, Unmapped

ASSUME FileAssumption ==
  /\ Byte \subseteq Nat /\ 0 \in Byte
  /\ MaxSize \in Nat \ {0}
  /\ PageSize \in Nat \ {0}
  /\ Unmapped \notin Byte
  /\ Beyond \subseteq Byte \cup {Unmapped}

Files ==
  UNION {[size : {n}, memory : [0 .. n - 1 -> Byte], beyond : Beyond] :
           n \in 1 .. MaxSize}

\* The length of the mapping: the size rounded up to a page.
Mapped(file) == PageSize * ((file.size + PageSize - 1) \div PageSize)

\* What file->memory[i] yields, in bounds or not.
Peek(file, i) ==
  IF i < file.size THEN file.memory[i]
  ELSE IF i < Mapped(file) THEN 0
  ELSE file.beyond

Faults(file, i) == Peek(file, i) = Unmapped
=============================================================================
