------------------------------ MODULE RbTreeUse ------------------------------
(***************************************************************************)
(* A red-black tree from rb_init() to its end.  Two ends occur: close_task *)
(* destroys a tree of symbols with rb_destroy(), and erases the areas of a *)
(* task one by one, in the order of their list, freeing each.  An area the *)
(* tree refused (it overlaps another) is in the list all the same, so that *)
(* it is erased from a tree it is not in.                                  *)
(***************************************************************************)
EXTENDS RbTree, FiniteSets

VARIABLES
    tree,    \* the tree and all nodes
    in,      \* the nodes that were inserted and not erased
    phase,   \* "use", then "destroy" or "unlink"
    cur,     \* the node rb_destroy() is at
    freed,   \* nodes whose memory was freed
    read     \* nodes the last step of rb_destroy() read after its callback

vars == <<tree, in, phase, cur, freed, read>>

(* A comparison as the contract of rb_cmp_fn_t demands it.                 *)
CmpKey(k) == [n \in Node |-> k - n]

Init ==
    /\ tree = RbInit
    /\ in = {}
    /\ phase = "use"
    /\ cur = NULL
    /\ freed = {}
    /\ read = {}

InsertNode(k) ==
    /\ phase = "use"
    /\ tree' = RbInsert(tree, k, CmpKey(k))
    /\ in' = in \cup {k}
    /\ UNCHANGED <<phase, cur, freed, read>>

(* The memory of k is given back, and the next node there is cleared.      *)
Cleared(t, k) ==
    [t EXCEPT !.kid[k] = RbInit.kid[k], !.parent[k] = NULL, !.color[k] = "red"]

EraseNode(k) ==
    /\ phase = "use"
    /\ k \in in
    /\ tree' = Cleared(RbErase(tree, k), k)
    /\ in' = in \ {k}
    /\ UNCHANGED <<phase, cur, freed, read>>

(* rb_destroy() begins.                                                    *)
Destroy ==
    /\ phase = "use"
    /\ phase' = "destroy"
    /\ cur' = RbFirst(tree)
    /\ UNCHANGED <<tree, in, freed, read>>

DestroyStep ==
    /\ phase = "destroy"
    /\ cur # NULL
    /\ freed' = freed \cup {cur}
    /\ LET round == DestroyRound(tree, cur)
       IN  tree' = round.tree /\ cur' = round.next /\ read' = round.reads
    /\ UNCHANGED <<in, phase>>

(* free_task_vmas() begins.                                                *)
Unlink ==
    /\ phase = "use"
    /\ phase' = "unlink"
    /\ UNCHANGED <<tree, in, cur, freed, read>>

(* unlink_vma() and free_vma(), also of a node outside the tree, which     *)
(* has only been cleared.                                                  *)
UnlinkStep(k) ==
    /\ phase = "unlink"
    /\ k \notin freed
    /\ tree' = Cleared(RbErase(tree, k), k)
    /\ in' = in \ {k}
    /\ freed' = freed \cup {k}
    /\ UNCHANGED <<phase, cur, read>>

Next ==
    \/ \E k \in Node : InsertNode(k) \/ EraseNode(k) \/ UnlinkStep(k)
    \/ Destroy
    \/ DestroyStep
    \/ Unlink

Spec == Init /\ [][Next]_vars

-----------------------------------------------------------------------------
(* The black nodes on the way from n to the root.                          *)
RECURSIVE BlackHeight(_, _)
BlackHeight(t, n) ==
    IF n = NULL THEN 0
    ELSE (IF IsRed(t, n) THEN 0 ELSE 1) + BlackHeight(t, t.parent[n])

(* rbtree.c's five properties, after any insertions and erasures: the root *)
(* is black, no red node has a red child, and every path from the root to  *)
(* a missing child has as many black nodes as any other.  Parents and      *)
(* children agree.                                                         *)
RedBlack ==
    phase = "use" =>
      /\ ~IsRed(tree, tree.root)
      /\ \A n \in in, s \in Side :
           LET c == tree.kid[n][s]
           IN  c # NULL => tree.parent[c] = n /\ ~(IsRed(tree, n) /\ IsRed(tree, c))
      /\ Cardinality({BlackHeight(tree, n) :
            n \in {m \in in : \E s \in Side : tree.kid[m][s] = NULL}}) <= 1

(* The nodes that a walk with rb_next() or rb_prev() visits.               *)
RECURSIVE Walk(_, _, _)
Walk(t, n, s) == IF n = NULL THEN <<>> ELSE <<n>> \o Walk(t, RbStep(t, n, s), s)

(* Whatever was rotated, the walks visit exactly the nodes inserted, in    *)
(* increasing and in decreasing order, and a search finds those and no     *)
(* others.                                                                 *)
WalkSorted ==
    phase = "use" =>
      LET up == Walk(tree, RbFirst(tree), "right")
          down == Walk(tree, RbLast(tree), "left")
      IN  /\ {up[i] : i \in DOMAIN up} = in
          /\ \A i, j \in DOMAIN up : i < j => up[i] < up[j]
          /\ Len(up) = Len(down)
          /\ \A i \in DOMAIN up : down[i] = up[Len(up) + 1 - i]
          /\ \A k \in Node : RbSearch(tree, CmpKey(k)) =
                                (IF k \in in THEN k ELSE NULL)

(* No node is read after it is freed.  rb_destroy() frees each node of the *)
(* tree once, reads none that its callback has freed, and ends when all    *)
(* are freed.  A node erased from a tree it was never in takes the root    *)
(* away and does no other harm: no node in memory points to one that was   *)
(* freed, so that the erasures that follow read none (unlink_vma()).       *)
FreedUnread ==
    /\ phase = "destroy" =>
         /\ read \cap freed = {}
         /\ cur \notin freed
         /\ cur = NULL => freed = in
    /\ phase = "unlink" =>
         /\ tree.root \notin freed
         /\ \A n \in in :
              /\ tree.parent[n] \notin freed
              /\ \A s \in Side : tree.kid[n][s] \notin freed

=============================================================================
