# A verification project for hexinspector

hexinspector (`src/src/*.[ch]`, C, about 4000 lines) shows one file, or the
differences of two, in a curses hex viewer. This directory holds TLA+ modules of
its core, the TLC configurations that check them on small files, and TLAPS proofs
of what holds for every file and every option.

Line numbers below are of the files under `src/src/` unless a path is given.

## 1. The system

    hi.c  main: options -> hi_file_open x2 -> hi_diff_calculate -> hi_ncurses_main
                               |                     |                    |
    hi_file.c  mapped file ----+                     |                    |
    hi_buzhash.c  table of window hashes <-- rabinkarp diff               |
    rabinkarp.h   rolling hash           <--/    or simple diff           |
    hi_diff.c     working_hunks -> backtrack_hunks -> tree -> get_hunk <--+
    hi_ncurses_main.c  help, search, key buffer <-- keys                  |
    hi_ncurses_file_pager.c  two linked pagers: offsets, layout, redraw --+

| component | state | operations | what makes it correct |
|---|---|---|---|
| mapped file (`hi_file.c`) | descriptor, name, mapping | open, with a label for every failure | nothing leaks, nothing is released twice; a read past the last page may fault |
| rolling hash (`rabinkarp.h`) | hash, pop value | add, remove, roll | a rolled hash is the hash of the window |
| hash table (`hi_buzhash.c`) | `file->buzhashes`, `M_Mutex`, the pool | push, hash a block, merge | nothing lost or repeated, the result does not depend on races, arrays ordered |
| rabinkarp diff (`hi_diff.c:683`) | mode, two pointers, hash, `working_hunk`, `last_hunk` | SYNC, NEAR, FAR, roll, end of file | listed hunks follow one another, SAME means same, it ends |
| simple diff (`hi_diff.c:557`) | blocks, the pool, lists of hunks | push, compare a block word by word, concatenate | every byte decided once and rightly, maximal hunks |
| hunk list (`hi_diff.c:180`) | `working_hunks`, the tree | insert, backtrack, coalesce | order kept, no byte lost |
| lookup (`hi_diff.c:319`) | `last_hunk`, the tree | get a hunk by byte | the hunk holds the byte, the cache changes nothing |
| pager (`hi_ncurses_file_pager.c`) | offset, linked pager, settings, layout | move, goto, hunk keys, settings, redraw | offsets within the files, ] forward, keys return; the layout fits the window and the screen the mapping |
| modes, highlighters (`hi_ncurses_display.c`, `_location.c`, `_highlight.c`) | tables | bytes per line, paint a byte, colour a screen | each byte has its columns; what is read and written is in bounds |
| main loop, help, search (`hi_ncurses_main.c`, `_help.c`, `hi_search.c`) | focus, buffer, mode, help, pending resize | redraw, key | keys reach who they are for, none is lost unnoticed |

Hard behaviours: two thread pools (merging under a mutex; blocks joined in
order), pointers and a hash carried through modes and the end of either file,
reads past the end of a mapping, hunks edited in place after they were listed or
put into the tree, a cache in front of a tree whose keys may overlap, loops over
lookups that have to end, a layout derived from settings that four places
change, and modes in which a key means something else. `PROJECT.json` lists each
hazard at its line with the properties that watch it.

## 2. Modules

| module | models | extends |
|---|---|---|
| `FileImage` | the mapped file and what a read yields | |
| `RabinKarp` | `rabinkarp.h`, modulo `UINT` (2^32 scaled down) and `PRIME` | |
| `HashTable` | the table of `hi_buzhash.c` as functions: blocks, windows, merge, every possible outcome | FileImage, RabinKarp |
| `WindowIndex` | abstract: a table that gets the windows of one hash of one block at a time | HashTable |
| `HashGenerate` | `hi_hash_generate` with its pool, thread by thread | HashTable |
| `HunkList` | `insert_hunk`, `backtrack_hunks`, the tree as an ordered sequence | FileImage |
| `RKDiff` | `hi_diff_calculate_rabinkarp` | HunkList, HashTable |
| `SimpleDiff` | `hi_diff_calculate_simple` and its threads | HunkList |
| `WordScan` | `hi_diff_memcmp_ptr` and `hi_diff_memdiff_ptr`, word by word | |
| `ByteDiff` | abstract: what the simple diff promises of each byte | FileImage |
| `HunkLookup` | `hi_diff_get_hunk`, with the AVL tree of glib | HunkList |
| `Pager` | the two linked pagers and their keys, over real hunks | HunkLookup |
| `LinkedView` | abstract: what two linked pagers promise, without hunks | |
| `DiffSession` | calculate a diff, then browse it | RKDiff, Pager |
| `FilePager` | one pager: settings, layout, what a redraw reads, writes and paints | FileImage |
| `HiFile` | `hi_file_open` call by call, with its labels | |
| `MainLoop` | `hi_ncurses_main`, the help, the search, the key buffer | LinkedView |
| `Program` | `main`: options, open, diff, loop, exit | MainLoop, HiFile |
| `HashTableProofs`, `HunkListProofs` | lemmas about the table as a function, and about backtracking | the module of that name |
| `RKDiffProofs` | the theorems of section 5 about `RKDiff` and `DiffSession` | DiffSession, HunkListProofs, HashTableProofs |
| `SimpleDiffProofs`, `HashGenerateProofs`, `WordScanProofs`, `FilePagerProofs`, `ProgramProofs` | the theorems of section 5 | the module of that name and the lemmas it needs |

Definitions named after a function of the code (`merge_hashes`, `rabinkarp_roll`,
`set_offset`, `update_bytes_per_line`, ...) are that function; other actions are
one outcome of a function, and `map` in `PROJECT.json` gives the lines. Variables
have the names of the code. The ones that have none:

* `pc` is where the program is. In `RKDiff`: `popvalue` and `prelude` (the first
  hash), `loop` (the head of the main loop), `roll` (the `while` that rolls the
  hash up to `srcptr_new`), `backtrack` and `tree` (the two loops of
  `backtrack_hunks`), `done`, `fault` (a read of an unmapped page),
  `failed` (no memory: NULL is returned). `DiffSession`
  and `MainLoop` have `redraw`, `key`, `next` or `walk` (inside
  `move_to_next_diff`), `quit`. `main` in `Program` is where `main` is.
* `at`, `job`, `queue`, `root` in the pool modules: a thread's place and job, the
  queue of `GThreadPool`, the list of each block. glib's pool takes jobs in the
  order they were pushed, and `g_thread_pool_free(pool, FALSE, TRUE)` waits for
  all of them: this is modelled from how the code uses it.
* `at` and `held` in `HiFile`: the call or label a file is at, and what has been
  acquired for it.
* A pointer to a hunk is its index in `working_hunks`, NULL is 0. `g_list_prepend`
  followed by one `g_list_reverse` is an append.
* `hunks` is the tree as the sequence of its nodes in key order; `shape` is the
  AVL tree's shape, a function from each node to the set of the nodes of its
  subtree, computed when the tree is finished. It matters only to lookups, so only
  the session carries it. A search comes to a node if it turns toward it at every
  node above it (`Visits`); a rotation of either kind raises one node to the
  place of the lowest unbalanced one (`Rotated`). `value` is kept apart from `key`
  because `g_tree_insert` replaces only the value of an equal key.
* `walk` in `Pager` holds the locals of `move_to_next_diff`; each turn of its loop
  is a step, so that its end can be stated as liveness.
* `newch` and `missed` in `MainLoop`, `read` in `WordScan` are auxiliary.
* A byte in `WordScan` is a function from its bits to 0 and 1, a word one from the
  bits of all its bytes, lowest first. `Xor` is bitwise; `Borrow` says when a
  subtraction borrows from a bit, by the bits below it.

How the pieces fit.

* `HashGenerate` shows (`PossibleTable`) that whatever the pool does, it leaves a
  table of the set `HashTables(file)`; `RKDiff` then takes the call of
  `hi_hash_generate` as the choice of a member of this set, over every file and
  every merge order.
* `SimpleDiff` compares with `StopsAt`, byte by byte; `WordScan` shows
  (`FirstHitReturned`) that the functions that do it word by word compute the same.
* `DiffSession` browses only diffs that `RKDiff` really makes, with the
  overlapping hunks they contain, and implements `LinkedView`. `MainLoop` is built
  on `LinkedView` alone: which key goes where does not depend on the hunks.
* `FilePager` is about one pager and takes the linked one as its environment: =
  hands over any settings, and a link leaves any offset that `LinkedView` allows.

The three refinements: `HashGenerate` implements `WindowIndex` with the index
being the sets of offsets of the table; `SimpleDiff` implements `ByteDiff`, the
verdict on a byte being the type of the listed hunk that covers it; `DiffSession`
implements `LinkedView`, whose sizes are those of the mapped files.

Abstractions. Hunks keep their types and four ends, bytes are 0 and 1, hash
arithmetic is scaled. The double ratio of `set_offset` is an exact fraction,
truncated as the cast truncates: where the true product is an integer the double
may fall just below it, one byte less; so is the quotient of
`gen8mode_bytes_per_line`. `diff_jump_percent` is a float in the code and an integer
here; what its product with a size rounds to is left out, and the proofs use only
that `bytes_jump` is an integer. The walk ends without a diff (`NoDiff`) when the
diff, its tree or the table of hashes cannot be made; a session ends there too, and
the pagers over two files without a diff belong to `Program`. The subtraction that
`compare_diff_hunks` returns as a `gint` is exact, so files are below 2 GiB. File offsets beyond the last page yield
`Beyond`: `Unmapped` (a fault) or a byte of some other mapping. In `FilePager` the
bytes of the file are left out and a highlighter may read and write whatever it
can for some file; what lies outside of the mapping or of `highlight_colours` may
fault or not. In `MainLoop` a digit and any other character are all the buffer
tells apart, and a match of a search is any offset from the present one on. Colours, texts, the bell
and the help's own text are left out.

## 3. Runs

Each passing run explores all its states. "Files" means every pair of files of
the given sizes over the bytes 0 and 1 (for `hash_generate`, every file).

| run | bounds | checks |
|---|---|---|
| `hash_generate` | files up to 5 bytes, windows of 1, blocks of 2: up to 3 jobs on 2 threads | `TypeOK`, `OffsetsConserved`, `FoundIsCurrent`, `FirstIsLeast`, `PossibleTable`, `RefinesWindowIndex`, `Completes` |
| `rkdiff` | files up to 5 bytes, windows of 2, minimum_same 2, page of 4 | `TypeOK`, `HashTracksWindow`, `LastHunkIsNewest`, `SyncedBytesMatch`, `ListedSameMatches`, `HunksFollow`, `ForwardOnly`, `Terminates` |
| `rkdiff_backtrack` | files up to 7 bytes, windows of 2, parity as the hash, minimum_same 3, jump 100 % | `StartsInOrder`, `EveryByteListed`, `TreeInOrder`, `SrcInTree` |
| `simple_diff` | files up to 5 bytes, blocks of 2, 2 threads | `TypeOK`, `ListsOwnBlock`, `MaximalHunks`, `TreeTiles`, `RefinesByteDiff`, `Terminates` |
| `word_scan` | bytes of 2 bits, words of 3 and of 2 bytes, blocks up to 5 bytes | `FirstHitReturned`, `ReadsInside` |
| `diff_session` | files up to 4 bytes, two rows of one byte with or without a gap, moves and counts of 1 | `NextGoesForward`, `RefinesLinkedView`, `KeysReturn` |
| `file_pager` | files of 8 and 9 bytes, pages of 8, three terminals, counts -1 and 2 | `LayoutIsCurrent`, `CellsFit`, `ShowsEachByteOnce`, `FaultsExplained` |
| `program` | one file or two of up to 2 bytes, a buffer of 3, a help of 3 lines, two widths | `FailureReleasesAll`, `BrowsesMapped`, `BufferIsNumber`, `HelpInRange`, `LaidOut`, `EscapeThenQuit` |

Why the bounds are enough to be interesting. A file of 5 bytes with blocks of 2
has three jobs for two threads: jobs merge out of order, a thread takes a second
job, and the last block reaches past the file. In `rkdiff` windows of 2 in files
of 5 allow a hash match, a jump, a roll past it and a second mismatch; a page of
4 puts the end of a file of 4 bytes at the end of its mapping, so the near search
does fault in some behaviours; `PRIME` 5 makes different windows collide. In
`rkdiff_backtrack` the hash is the parity of a window of two bytes, so that windows
match at nearly every offset and the lists have several indexed hunks in a row,
which backtracking removes, cuts and coalesces. Blocks of 2 in files of 5 give
stretches that cross two block boundaries and a rest that only one file has.
Words of 3 and 2 bytes in blocks of up to 5 have a block that is shorter than a
word, as long, one byte longer and of several words; the bit trick has borrows
between bytes of 2 bits as between bytes of 8. The sessions contain clamped,
overlapping and inverted hunks, hunks with equal keys and trees of three levels; a
longer count of a hunk key repeats the turn that a count of 1 takes
(`diff_session_back` has counts of 2). In `file_pager` one file ends with its
mapping and one a byte after a page, and the terminals are one that shows several
rows, one too narrow for a row and one too low for a line, alone and halved by
the linked pager. In `program` a buffer of 3 is full after two characters.

`MaxSize`, `MaxMove`, `MaxTimes`, `MaxLen`, `Counts` and `Sizes` are bounds of the
checking only; `bytes_per_row`, `Rows` and `Strides` (the row lengths the user may
have set, any of them in any redraw) stand for the screen of a session. `PRIME`, `BASE`, `UINT`,
`hashbytes`, `BlockWindows`, `blocksize`, `MaxThreads`, `minimum_same`,
`diff_jump_percent`, `PageSize`, `big_hunk_size`, `BITS`, `OPSIZ`, `OP4SIZ`,
`RULERCOLS_32BIT`, `KEYBUFFER_LEN` and `help_lines` are constants of the code or
its options, scaled.

What the properties say, beyond their comments in the modules:

* `FoundIsCurrent` and `OffsetsConserved`: the reason for `M_Mutex`. Without the
  lock a store overwrites another thread's.
* `HashTracksWindow`: the rolled hash is the hash `hi_hash_generate` would file
  the window under; otherwise far mode silently finds nothing.
* `ListedSameMatches`: a hunk the walk lists as the same is equal byte by byte,
  although an indexed one starts from a hash match that was never compared; it is
  listed only once SYNC has compared its bytes.
* `StartsInOrder`, `EveryByteListed`, `SrcInTree`: three stages at which
  backtracking could lose a byte. For dst the last one is false: an equal key
  replaces a hunk that has the same bytes of src but other bytes of dst.
  `StartsInOrder` has an exception, which its proof brought out: where a window
  past the end of dst has the hash (`hi_buzhash.c:166` files such windows), the hunk
  opened there starts past the file, the first comparison of `backtrack_hunks` fails
  at once, and the "start" it moves back to is one byte ahead (`hi_diff.c:199-225`).
* `NextGoesForward`, `KeysReturn`: lookups may return a hunk that does not hold
  the byte, and { and } do not count the turns that pass a small hunk, so that the
  loop goes forward and ends is not plain from its text. (With overlapping hunks a
  lookup can also return NULL for a byte of src that a hunk of the tree holds, and
  its result can depend on `last_hunk`: `NoHunk` is a step of these runs.)
* `CellsFit`: how many bytes fit in a row and where each is painted are two sets of
  functions that have to agree, in seven modes and every grouping.
* `FaultsExplained`: a redraw does leave its buffers, in three cases: a block
  highlighter on the last screen of a file reads past the mapping; a row length
  set by hand that is longer than the window makes it read colours it has not
  allocated; a window without room makes the length of the colours negative. The
  property says that there is no fourth.
* `LaidOut`: a resize while the help is shown or a pattern is typed is taken for a
  key and lost until the next one; there is no other way to lose it.

The runs that find a violation, each against a line of the repository:

| run | what the code does |
|---|---|
| `hash_generate_order` | merging blocks in the order 1, 3, 2 leaves an array out of order (`hi_buzhash.c:115`) |
| `simple_diff_uninitialised` | `root` and the last `next` are read uninitialised (`hi_diff.c:622`) |
| `diff_session_back` | [ moves forward after an equal key has replaced a hunk (`hi_diff.c:263`, `src/README:66`) |
| `file_pager_page` | page down goes further than the last line shown (`hi_ncurses_file_pager.c:433`) |

In `SimpleDiff` the uninitialised memory is a choice: it is zero, and the diff
goes on, or it is not, and the program may fault (`PrependFault`, `ConcatFault`).
The properties of `simple_diff` hold for both outcomes; `Terminates` allows the
fault, `Completes` does not.

Seen while modelling, and steps of the modules without a run of their own:

* the near search accepts `minimum_same - 1` equal bytes (`hi_diff.c:822`);
* a SAME hunk can be cut to different lengths in the two files (`hi_diff.c:226`);
* the linked offset can be the size of the file (`hi_ncurses_file_pager.c:305`);
* with two files and no diff (`hi_diff_calculate` returned NULL) the first key
  that moves dereferences it (`hi_ncurses_file_pager.c:255`; `MoveFault`);
* = does not copy the row length (`hi_ncurses_file_pager.c:410`);
* KEY_END asks for the offset `file->size`, which is refused
  (`hi_ncurses_file_pager.c:447`);
* the files are never closed: the loop is left by `exit` (`Finish`).

## 4. Fairness

* `HashGenerate`, `SimpleDiff`: weak fairness of the caller and of each thread.
  The operating system runs every thread of the pool and no step can be disabled
  for ever by another one: a thread at the mutex waits for one that always
  unlocks, and can be passed over only as often as there are jobs, which are
  finitely many, so weak fairness is enough.
* `RKDiff`: weak fairness of the whole step; the program is sequential and does
  not wait for anything.
* `DiffSession`: weak fairness only inside `move_to_next_diff`. Nobody makes the
  user press a key, and nothing is assumed of the rest.
* `WordScan`, `FilePager`, `Program`: none, and no liveness is stated.

## 5. Proofs

All are checked by `tlapm` for every value of the constants that satisfies the
named assumptions (`FileAssumption`, `HashAssumption`, `TableAssumption`,
`WordAssumption`, `OptionAssumption`, `PoolAssumption`, `PagerAssumption`, `ScanAssumption`,
`LayoutAssumption`, `LoopAssumption`, `LinkedAssumption`), which TLC evaluates on the runs. `WordAssumption` says that with `GOOD_PRIME` below
2^23 and `GOOD_BASE` 256 no intermediate result of `rabinkarp.h` exceeds a `uint32_t`:
the hash of a rolled window is that of the window only then.

| theorem | states | module |
|---|---|---|
| `TypeCorrect` | `Spec => []TypeOK` of `RKDiff` | `RKDiffProofs` |
| `LastHunkCorrect` | `Spec => []LastHunkIsNewest` | `RKDiffProofs` |
| `PointersGoForward` | `Spec => ForwardOnly` | `RKDiffProofs` |
| `SyncStaysOnDiagonal` | `Spec => []SyncedBytesMatch` | `RKDiffProofs` |
| `SameHunksMatch` | `Spec => []ListedSameMatches` | `RKDiffProofs` |
| `HunksGoOn` | `Spec => []HunksFollow` | `RKDiffProofs` |
| `HunksInOrder` | `Spec => []StartsInOrder` | `RKDiffProofs` |
| `NoByteLost` | `Spec => []EveryByteListed` | `RKDiffProofs` |
| `TreeStaysInOrder` | `Spec => []TreeInOrder` | `RKDiffProofs` |
| `NoByteOfSrcLost` | `Spec => []SrcInTree` | `RKDiffProofs` |
| `HashFollowsWalk` | `Spec => []HashTracksWindow` | `RKDiffProofs` |
| `SessionIsLinkedView` | `SessionSpec => RefinesLinkedView` | `RKDiffProofs` |
| `KeysGoForward` | `SessionSpec => NextGoesForward` | `RKDiffProofs` |
| `TypeCorrect` | `Spec => []TypeOK` of `SimpleDiff` | `SimpleDiffProofs` |
| `JobsKeepToBlocks` | `Spec => []ListsOwnBlock` | `SimpleDiffProofs` |
| `TreeShowsNoBlocks` | `Spec => []MaximalHunks` | `SimpleDiffProofs` |
| `TreeTilesFiles` | `Spec => []TreeTiles` | `SimpleDiffProofs` |
| `ImplementsByteDiff` | `Spec => RefinesByteDiff` | `SimpleDiffProofs` |
| `TypeCorrect` | `Spec => []TypeOK` of `HashGenerate` | `HashGenerateProofs` |
| `MergeIsAtomic` | `Spec => []FoundIsCurrent` | `HashGenerateProofs` |
| `OffsetsKept` | `Spec => []OffsetsConserved` | `HashGenerateProofs` |
| `LeastFirst` | `Spec => []FirstIsLeast` | `HashGenerateProofs` |
| `ImplementsWindowIndex` | `Spec => RefinesWindowIndex` | `HashGenerateProofs` |
| `TablesArePossible` | `Spec => []PossibleTable` | `HashGenerateProofs` |
| `FirstByteFound` | `Spec => []FirstHitReturned` | `WordScanProofs` |
| `NoReadBehind` | `Spec => []ReadsInside` | `WordScanProofs` |
| `TypeCorrect` | `Spec => []TypeOK` of `FilePager` | `FilePagerProofs` |
| `LayoutStaysCurrent` | `Spec => []LayoutIsCurrent` | `FilePagerProofs` |
| `RowsFit` | `Spec => []CellsFit` | `FilePagerProofs` |
| `ScreenIsComplete` | `Spec => []ShowsEachByteOnce` | `FilePagerProofs` |
| `FaultsAreExplained` | `Spec => []FaultsExplained` | `FilePagerProofs` |
| `ProgramTypeCorrect` | `ProgramSpec => []ProgramTypeOK` | `ProgramProofs` |
| `NothingLeaks` | `ProgramSpec => []FailureReleasesAll` | `ProgramProofs` |
| `LoopHasItsFiles` | `ProgramSpec => []BrowsesMapped` | `ProgramProofs` |
| `BufferStaysNumber` | `ProgramSpec => []BufferIsNumber` | `ProgramProofs` |
| `HelpStaysInRange` | `ProgramSpec => []HelpInRange` | `ProgramProofs` |
| `ResizeIsLaidOut` | `ProgramSpec => []LaidOut` | `ProgramProofs` |
| `EscapeAndQuit` | `ProgramSpec => EscapeThenQuit` | `ProgramProofs` |

**The rabinkarp diff.** `TypeOK` of `RKDiff` is not inductive. `FarMatch` may write
`srcptr - 1` and `offset - 1` into the ends of `last_hunk`, which would be -1 at the
start of the files; it cannot be, because the branch that edits `last_hunk` ("Edit
last hunk", `hi_diff.c:930`) is never taken. That in turn needs to know when
`last_hunk` is set. So the invariant is
`Inv == TypeOK /\ HunkListInv /\ LastHunkInv /\ RollInv`:

* `LastHunkInv`: outside SYNC, either no hash has matched since a byte has, and
  `last_hunk` is NULL, or it is the newest hunk of the list; in SYNC it may be
  stale only where the next turn finds equal bytes and resets it.
* `HunkListInv` (`HunkListProofs`): what the two loops of `backtrack_hunks` keep
  of `list`, `otherhunk` and the tree relative to the list, the starts and
  ends of the hunks being natural numbers after every cut.
* `RollInv`: while the hash rolls, the pointers are not past where they go.

`HunkListProofs` proves the steps of `HunkList` once; `RKDiffProofs` has a step per
action and cites them. `ForwardOnly` follows from `Inv`.

The next invariants are each inductive on top of `Inv` and those before them.

* `WalkInv`, while the walk goes on: the pointers are past the start of the working
  hunk by the same number of bytes, all equal in SYNC (`OnDiagonal`); what is listed
  as the same has no byte that differs (`ListedSame`); every hunk goes on where the
  one before it ends (`Chained`). This gives `SyncedBytesMatch`, `ListedSameMatches`
  and `HunksFollow`. A hash match is never verified by the code; the proof shows why
  that is harmless: a hunk that one opens enters the list only from SYNC, which has
  compared it.
* `BackInv`, from the end of the walk: the list is in order but for the exception of
  `StartsInOrder`, covers both files without a gap, and the hunks behind the one that
  is being backtracked are done (`Passed`). `WalkInv` gives it when the walk ends. In
  `BacktrackKeepsBack` an indexed hunk moves back along its diagonal to a start that
  some earlier hunk begins at or before, the first hunk at the latest, because it
  starts at 0 in both files and is never indexed itself.
* `MoveInv`, until the hunks go into the tree: each hunk meets the next in src, that
  is, the next starts at its last byte or just after it, or has moved back and has cut
  it there (`Meets`). Only the last hunk, which the end of the files may have
  opened past the end of dst, can start before its predecessor.
* `TreeInv`, while they do and after: what `MoveInv` says of the hunks still to come;
  no key is after the newest hunk of the tree, and when that has moved back and is a
  key it is the last (`Newest`). So only the last key is ever extended in place
  (`OnlyLastKeyExtended`), and extending it keeps it last: `TreeInOrder`. A hunk that
  replaces an equal one takes the place of its value only and reaches as far as its
  key (`Nodes`); it may take bytes out of the tree, but only bytes from its own
  start on, which it holds itself or which the hunks still to come hold. So the
  tree holds what is before the end of its newest hunk (`Reached`), and at the end
  all of src: `SrcInTree`. The same is false of dst, as the comparison is by the
  source alone.
* `HashInv`: `popvalue` is BASE to the power of the window less one, modulo PRIME,
  said without the power (`Removes`: what it takes away is what the first byte has
  added), and the hash is that of the bytes counted so far, later that of the window
  at `srcptr`. The arithmetic is by congruences (`ModCongruent` to `PrefixSteps`).

**The session.** Until the pagers open, a session keeps the invariants above; from
then on the hunks and their tree stay as they are, and `SessionInv` says that every
pointer to a hunk, the cache included, is to one of the list or NULL, and every
offset in its file or just behind it. That needs no more of the tree than that a
lookup yields the value of one of its nodes or nothing, so it holds whatever glib's
rotations make of it. The linked offset is clamped by `set_offset`, whatever the
rounding of its ratio (`LinkedOffset`), and each step of the pagers is a step of
`LinkedView`: `SessionIsLinkedView`. A redraw looks up the hunk of each byte shown,
which is the recursive function of `Drawn`, for any rows and gaps between them.

`KeysGoForward` needs more. A lookup compares keys and returns a value, and ] goes
to the byte behind that value: that is not behind the present byte only if a value
reaches as far as its key. In src `TreeInv` says so. In dst nothing is in order by
itself: an equal key replaces a hunk that has the same bytes of src and other ones of
dst. `DstInv` says what is true there: in the list no hunk begins before the start or
the end of the one before it (`Precedes`), save the last one, which the end of the
files may have opened past the end of dst; no hunk is inverted once backtracking is
over; and the value of a node ends no earlier in dst than its key, but for a byte, or
reaches the end of the file (`NodesInDst`). Backtracking keeps it
(`BacktrackPrecedes`), and so do extending a key (`CoalescePrecedes`) and inserting
(`InsertPrecedes`). When the pagers open, `Forward` is left of it, which no key
changes. So a turn goes to a later byte or stays, and one that stays looks the same
hunk up again from the cache, which ends the loop of } and counts for ]
(`LeavesForward`). The same is false of [: `diff_session_back`.

**The scans by words.** `ScanInv`: the bytes passed over and those left are the
whole block, and none passed over is a hit. A step of one byte is plain; a step of a
word is `PassedOver`. Equal words have equal bytes. For the other function,
`ZeroByteFound`: where the two blocks have an equal byte the XOR has a zero byte,
subtracting one from that borrows at its lowest bit and from there up to its
highest, whatever is borrowed from below, and so the highest bit comes out as 1
where the XOR has 0. It is one proof for bytes of any number of bits above one.

**The simple diff.** `Inv == TypeInv /\ RootInv /\ PoolInv /\ ConcatInv /\ SoundInv /\
EndInv`. While the threads run, each block is unlisted, in the queue, in one thread
with its list up to where the thread is, or complete (`PoolInv`); then the lists up
to `data` are joined (`ConcatInv`), by `ListingJoin`: two lists that tile adjacent
stretches make one that tiles both. `EndInv` says what is left of the list and what
the tree already has. `SoundInv` is that a hunk has the type of its bytes.
`MaximalHunks` and `TreeTiles` are read off in the final state. For `ByteDiff` the
verdict on a byte is shown to be the truth once the byte is in some hunk, and
"unknown" before (`VerdictIs`), and no step makes a byte unknown again
(`KnownKept`); so each step decides a set of bytes, or none. The blocks are taken from
`startpos` and `endpos` as the code calculates them, for any block size.

**The hash table.** `FoundIsCurrent` is proved with `MutexInv`: a thread that is
merging holds the mutex, and what it has looked up is what the table holds; two
merging threads would hold it both. With it, `Inv` of `HashGenerateProofs` is
inductive: a pushed job is in the queue once or in one thread (`JobsInv`); a thread
has under a key what its block has there until it has merged it (`LocalInv`); a
window is once in the global table when it is merged and not there before
(`PlacedInv`); every array begins with its least offset (`LeastInv`). What the windows
of a block make of an empty table is in `HashTableProofs` (`LocalArrays`: each window
once under its hash, ascending, and no window of another block, because
`BlocksDisjoint`), as is the effect of `merge_hashes` (`MergedHolds`). The only step
that changes the index of `WindowIndex` is `Insert`, and it is `Enter`.
`PossibleTable` compares the table with one that is built from a whole order of the
jobs, which exists only at the end. `OrderInv` says what there is of it before: some
sequence of the jobs that are done, such that the table is what merging them in
this order makes (`MergedTable`), and while a thread merges, with its table as well
for the keys it no longer has. Each unlocking appends its job. That fewer than
`MaxThreads` earlier jobs are missing then is because the queue is in order: an
earlier job that is not done is in one of the other threads (`FewOvertaken`).

**The pager.** `StepKinds` sorts the steps into those that set the layout with what
it depends on, the one that sets the row length, and those that leave all of it
alone; `TypeOK` and `LayoutIsCurrent` together are inductive. `CellsFit` and
`ShowsEachByteOnce` then follow in every state. `CellsFit` comes down to
`RowHasRoom`: the quotient that gives the bytes of a row, taken toward zero,
leaves room for the gaps in front of any of them, `b * m + x \div g + c <= w` for
`x < b`, which follows from `b * (m * g + 1) <= (w - c) * g` by multiplying out.
`ShowsEachByteOnce` is the division of a place of the screen by the length of its
rows. `FaultsExplained` needs that a fault is the end: `FaultIsExplained` bounds
every access of a redraw, and no other step leads to `fault`.

**The program.** `ProgramInv` has a part for the files (`FileInv`: what is held is
a function of the call or label `hi_file_open` is at), one for `main` (`MainInv`: a
file that is not named stays closed, and those that are have been opened before
the diff), and `LoopInv` for the loop. `BufferIsNumber`, `HelpInRange` and `LaidOut` are
not inductive: the first needs the buffer as a sequence over the digits, the
second that no search is begun or left behind a help, the third that a
resize is pending, swallowed or laid out and never pending while a key is read.
For `EscapeThenQuit`, `HelpInv` remembers what Escape has ended.
`ProgramProofs` has a lemma for each part of the state, with a case per action, and
puts them together at its end.

**In place of induction.** The induction theorems of the library take an operator
and cannot be used. What they would be used for, a fact about a recursive function
(`WindowHash`, the loop of `LocalTable`, the prefixes of a chain of hunks), is proved
from the least number for which it fails (`LeastNatural` in `HunkListProofs`, from
the library's theorem that every nonempty set has a minimal element). The existence of
a recursive function is proved the same way, by extending it one argument at a time.

Only model-checked are the liveness properties (`Completes`, `Terminates`,
`KeysReturn`): liveness under fairness is outside the prover. That the definitions of
`HunkLookup` keep glib's tree balanced is neither stated nor needed: what is proved
of the lookups holds for every shape.

## 6. Not modelled

* `hi_file_close` and `hi_hash_destroy`: never reached, the program ends by `exit`.
* The options of the command line: their values are constants, an option out of
  range is `Usage`.
* The matching of a pattern (pcre), and the `int` whose address is passed where an
  `off_t` is stored (`hi_search.c:66`): what that overwrites depends on the stack.
* The truncation of a difference of offsets to `gint` (`hi_diff.c:149`), above 2 GiB.
* Failures of curses calls and of the malloc of a pager or of the loop.
* Failures of the malloc of a hunk: `insert_hunk` and `insert_hunk_threaded`
  (`hi_diff.c:295`) leave such a hunk out without a word, and its bytes are then in
  no hunk. What the properties say of coverage is about runs that have the memory.
* In the simple diff, a diff, tree or pool that cannot be made: NULL is returned
  before any thread runs, which `Program` has as an outcome of `Calculate`. In both
  pools, the allocations whose result is used unchecked: of a block
  (`hi_diff.c:622`), of the start offsets and the arrays of the table
  (`hi_buzhash.c:256`, `187`).
* Colours, texts, the bell; the help's message in a narrow terminal.
* The rolling hash of `buzhash.h`, which nothing calls.

## 7. Plan

Done: everything in sections 2 to 5. What is left, in this order:

1. `NarrowCompare`: the comparison modulo 2^w and what it does to the tree.
2. An abstract alignment (a list of pairs of stretches that tile both files) that
   `RKDiff` is shown to implement up to the end of the walk.
3. The pagers of two files without a diff, up to the key that dereferences NULL.
