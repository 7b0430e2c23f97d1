------------------------------- MODULE HiFile -------------------------------
(***************************************************************************)
(* hi_file_open of src/src/hi_file.c for the files named on the command    *)
(* line: it acquires a descriptor, a structure, a name and a mapping, any  *)
(* of which may fail, and goes back through its labels when one does.      *)
(***************************************************************************)

File == {"src", "dst"}

Resource == {"fd", "structure", "filename", "memory"}

VARIABLES
  at,   \* of each file: "closed", the call that hi_file_open is at, its label,
        \* or what it has returned, "opened" or "failed"
  held  \* of each file: what hi_file_open has acquired and not released

files == <<at, held>>

FileTypeOK ==
  /\ at \in [File -> {"closed", "open", "calloc", "lseek", "strdup", "mmap", "close",
                      "free_filename", "free_structure", "close_fd", "opened", "failed"}]
  /\ held \in [File -> SUBSET Resource]

FileInit ==
  /\ at = [f \in File |-> "closed"]
  /\ held = [f \in File |-> {}]

\* A call that acquires a resource, the place after it, and the label it goes to
\* when it fails.
Acquire(f, call, resource, next, label) ==
  /\ at[f] = call
  /\ \/ /\ at' = [at EXCEPT ![f] = next]
        /\ held' = [held EXCEPT ![f] = @ \cup resource]
     \/ /\ at' = [at EXCEPT ![f] = label]
        /\ UNCHANGED held

Release(f, label, resource, next) ==
  /\ at[f] = label
  /\ at' = [at EXCEPT ![f] = next]
  /\ held' = [held EXCEPT ![f] = @ \ {resource}]

\* Bug: a failed mmap goes to the label after its own.
mmapMislabelled(f) == Acquire(f, "mmap", {"memory"}, "close", "free_structure")

\* It fails for an empty file, for one.
mmap(f) == Acquire(f, "mmap", {"memory"}, "close", "free_filename")

hi_file_open(f) ==
  \/ Acquire(f, "open", {"fd"}, "calloc", "failed")
  \/ Acquire(f, "calloc", {"structure"}, "lseek", "close_fd")
  \/ Acquire(f, "lseek", {}, "strdup", "free_structure")
  \/ Acquire(f, "strdup", {"filename"}, "mmap", "free_structure")
  \/ mmap(f)
  \/ Release(f, "close", "fd", "opened")
  \/ Release(f, "free_filename", "filename", "free_structure")
  \/ Release(f, "free_structure", "structure", "close_fd")
  \/ Release(f, "close_fd", "fd", "failed")

Opening(f) == at[f] \notin {"closed", "opened", "failed"}

-----------------------------------------------------------------------------
\* Wherever opening a file fails, nothing it had acquired is left over, and no
\* label releases what was not acquired; a file that was opened has its mapping
\* and its name and no descriptor.
FailureReleasesAll ==
  \A f \in File :
    /\ at[f] = "failed" => held[f] = {}
    /\ at[f] = "opened" => held[f] = {"structure", "filename", "memory"}
    /\ at[f] = "free_filename" => "filename" \in held[f]
    /\ at[f] = "free_structure" => "structure" \in held[f]
    /\ at[f] \in {"close", "close_fd"} => "fd" \in held[f]
=============================================================================
