----------------------------- MODULE HunkLookup -----------------------------
(***************************************************************************)
(* hi_diff_get_hunk of src/src/hi_diff.c: the hunk that holds a byte of    *)
(* one of the files, from the cache diff->last_hunk or else from the tree. *)
(* Hunks may overlap or be out of order, and then the answer depends on    *)
(* the shape of the tree.  So the AVL tree of glib is modelled: its nodes  *)
(* are the positions of the sequence hunks, and its shape is a function    *)
(* from a node to the set of the nodes below it, itself included.          *)
(***************************************************************************)
EXTENDS HunkList, SequencesExt

VARIABLES
  cached,  \* diff->last_hunk, 0 for NULL
  shape    \* the shape of the tree diff->hunks

-----------------------------------------------------------------------------
\* GTree.

\* A search comes to node n, where order says how what is searched for compares
\* with each node: it goes left below a node that is greater, right below one
\* that is smaller, and no further below one that is equal.
Visits(tree, order, n) ==
  \A a \in DOMAIN tree \ {n} :
    n \in tree[a] => IF n < a THEN order[a] < 0 ELSE order[a] > 0

\* The tree with node as a new leaf.
Planted(tree, node) ==
  LET order == [n \in DOMAIN tree |-> node - n]
  IN  [n \in DOMAIN tree \cup {node} |->
         IF n = node THEN {node}
         ELSE IF Visits(tree, order, n) THEN tree[n] \cup {node} ELSE tree[n]]

Left(tree, node) == {n \in tree[node] : n < node}
Right(tree, node) == {n \in tree[node] : n > node}

\* The most nodes of a subtree that are on the way down to one of them.
Height(tree, subtree) ==
  Max({0} \cup {Cardinality({a \in subtree : n \in tree[a]}) : n \in subtree})

Balanced(tree, node) ==
  Height(tree, Left(tree, node)) - Height(tree, Right(tree, node)) \in -1 .. 1

\* The child of top on the way down to node.
Child(tree, top, node) ==
  CHOOSE child \in tree[top] \ {top} :
    /\ node \in tree[child]
    /\ \A n \in tree[top] \ {top} : node \in tree[n] => n \in tree[child]

\* raised comes up to the place of top; what was on the way keeps its side of it.
Rotated(tree, top, raised) ==
  [n \in DOMAIN tree |->
     IF n = raised THEN tree[top]
     ELSE IF n \in tree[top] THEN {m \in tree[n] \ {raised} : m < raised <=> n < raised}
     ELSE tree[n]]

\* If a new leaf unbalances the tree, the child of the lowest unbalanced node
\* rotates to its place, or the grandchild if the way down to the leaf turns.
g_tree_insert_node(tree, node) ==
  LET leaf == Planted(tree, node)
      unbalanced == {n \in DOMAIN leaf : node \in leaf[n] /\ ~Balanced(leaf, n)}
  IN  IF unbalanced = {} THEN leaf
      ELSE LET top == CHOOSE n \in unbalanced : \A m \in unbalanced : n \in leaf[m]
               child == Child(leaf, top, node)
               straight == (child < top) = (node < child)
           IN  Rotated(leaf, top, IF straight THEN child ELSE Child(leaf, child, node))

\* The shape of the finished tree: keys have gone in in the order of the list.
FinalShape ==
  FoldLeft(g_tree_insert_node, << >>,
           SetToSortSeq(DOMAIN hunks, LAMBDA n, m : hunks[n].key < hunks[m].key))

-----------------------------------------------------------------------------
Holds(side, pos, hunk) ==
  IF side = "src" THEN hunk.src_start <= pos /\ pos <= hunk.src_end
  ELSE hunk.dst_start <= pos /\ pos <= hunk.dst_end

\* compare_diff_hunks for a search hunk, whose ends are 0, and a hunk.
CompareSearch(side, pos, hunk) ==
  LET start == IF side = "src" THEN hunk.src_start ELSE hunk.dst_start
      end == IF side = "src" THEN hunk.src_end ELSE hunk.dst_end
  IN  IF Holds(side, pos, hunk) THEN 0
      ELSE IF pos = start THEN 0 - end
      ELSE pos - start

\* The value of the first node on the way down whose key compares as equal.
g_tree_lookup(side, pos) ==
  LET order == [n \in DOMAIN hunks |->
                  CompareSearch(side, pos, working_hunks[hunks[n].key])]
      found == {n \in DOMAIN hunks : order[n] = 0 /\ Visits(shape, order, n)}
  IN  IF found = {} THEN 0 ELSE hunks[CHOOSE n \in found : TRUE].value

\* The hunk hi_diff_get_hunk returns when last_hunk is last, 0 for NULL.
hi_diff_get_hunk(last, side, pos) ==
  IF last # 0 /\ CompareSearch(side, pos, working_hunks[last]) = 0
  THEN last
  ELSE g_tree_lookup(side, pos)

\* What it leaves in last_hunk.
LastHunk(last, side, pos) ==
  LET hunk == hi_diff_get_hunk(last, side, pos)
  IN  IF hunk = 0 THEN last ELSE hunk
=============================================================================
