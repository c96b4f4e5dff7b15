-------------------------------- MODULE RbTree --------------------------------
(***************************************************************************)
(* The red-black tree of utils/rbtree.[ch], as operators on a tree.        *)
(*                                                                         *)
(* A tree is a record: its root and, for every node, its two children,     *)
(* its parent and its color.  The functions of rbtree.c have a branch and  *)
(* its mirror image; here one definition has the side as a parameter.      *)
(* The loops are recursive operators, each call one iteration.             *)
(***************************************************************************)
EXTENDS Integers, Sequences

CONSTANTS
    Node,   \* what holds a struct rb_node
    NULL    \* the null pointer

Side == {"left", "right"}
Other(s) == IF s = "left" THEN "right" ELSE "left"

(* rb_init(), and every node as memset() leaves it.                        *)
RbInit ==
    [ root   |-> NULL,
      kid    |-> [n \in Node |-> [s \in Side |-> NULL]],
      parent |-> [n \in Node |-> NULL],
      color  |-> [n \in Node |-> "red"] ]

IsRed(t, n) == n # NULL /\ t.color[n] = "red"

SetParentColor(t, n, p, c) ==
    IF n = NULL THEN t ELSE [t EXCEPT !.parent[n] = p, !.color[n] = c]

SetParent(t, n, p) == IF n = NULL THEN t ELSE [t EXCEPT !.parent[n] = p]

ChangeChild(t, old, new, p) ==
    IF p = NULL THEN [t EXCEPT !.root = new]
    ELSE IF t.kid[p]["left"] = old THEN [t EXCEPT !.kid[p]["left"] = new]
    ELSE [t EXCEPT !.kid[p]["right"] = new]

(* The color and the parent of old go to new, which becomes its parent.    *)
RotateSetParents(t, old, new, c) ==
    LET p == t.parent[old]
        moved == SetParentColor(t, new, p, t.color[old])
    IN  ChangeChild(SetParentColor(moved, old, new, c), old, new, p)

(* The stores to rb_left and rb_right of a rotation: the child of n on     *)
(* side s takes n as its child, and n takes what the child had there.      *)
Turn(t, n, s) ==
    LET c == t.kid[n][s]
    IN  [t EXCEPT !.kid[n][s] = t.kid[c][Other(s)], !.kid[c][Other(s)] = n]

-----------------------------------------------------------------------------
(* __rb_insert(): node is red and may have a red parent.                   *)

(* Case 2 makes node the outer one, case 3 rotates at the grandparent.     *)
InsertRotate(t, node, parent, gparent, s) ==
    LET inner == node = t.kid[parent][Other(s)]
        tmp   == t.kid[node][s]
        t2    == SetParentColor(
                   SetParentColor(Turn(t, parent, Other(s)), tmp, parent, "black"),
                   parent, node, "red")
        u     == IF inner THEN t2 ELSE t
        top   == IF inner THEN node ELSE parent
        out   == u.kid[top][Other(s)]
        v     == [u EXCEPT !.kid[gparent][s] = out, !.kid[top][Other(s)] = gparent]
    IN  RotateSetParents(SetParentColor(v, out, gparent, "black"), gparent, top, "red")

RECURSIVE InsertColor(_, _)
InsertColor(t, node) ==
    LET parent  == t.parent[node]
        gparent == t.parent[parent]
        s       == IF parent # t.kid[gparent]["right"] THEN "left" ELSE "right"
        uncle   == t.kid[gparent][Other(s)]
        flipped == SetParentColor(SetParentColor(t, uncle, gparent, "black"),
                                  parent, gparent, "black")
    IN  IF parent = NULL THEN SetParentColor(t, node, NULL, "black")
        ELSE IF ~IsRed(t, parent) THEN t
        ELSE IF IsRed(t, uncle)
        THEN InsertColor([flipped EXCEPT !.color[gparent] = "red"], gparent)
        ELSE InsertRotate(t, node, parent, gparent, s)

-----------------------------------------------------------------------------
(* ____rb_erase_color(): the paths through node, a child of parent, have   *)
(* one black node too few.                                                 *)

(* Case 1: a red sibling on side s goes up.                                *)
EraseCase1(t, parent, s) ==
    LET sibling == t.kid[parent][s]
        tmp     == t.kid[sibling][Other(s)]
        u       == SetParentColor(Turn(t, parent, s), tmp, parent, "black")
    IN  IF IsRed(t, sibling) THEN RotateSetParents(u, parent, sibling, "red") ELSE t

(* Case 3: the red inner child of the sibling goes up.                     *)
EraseCase3(t, parent, s) ==
    LET sibling == t.kid[parent][s]
        inner   == t.kid[sibling][Other(s)]
        tmp     == t.kid[inner][s]
        u       == [Turn(t, sibling, Other(s)) EXCEPT !.kid[parent][s] = inner]
    IN  SetParentColor(u, tmp, sibling, "black")

(* Case 4: the sibling goes up and outer, its red child, becomes black.    *)
EraseCase4(t, parent, s, outer) ==
    LET sibling == t.kid[parent][s]
        tmp     == t.kid[sibling][Other(s)]
        u       == SetParentColor(Turn(t, parent, s), outer, sibling, "black")
    IN  RotateSetParents(SetParent(u, tmp, parent), parent, sibling, "black")

RECURSIVE EraseColor(_, _, _)
EraseColor(t0, parent, node) ==
    LET s       == IF node # t0.kid[parent]["right"] THEN "right" ELSE "left"
        t       == EraseCase1(t0, parent, s)
        sibling == t.kid[parent][s]
        outer   == t.kid[sibling][s]
        flipped == SetParentColor(t, sibling, parent, "red")
    IN  IF IsRed(t, outer) THEN EraseCase4(t, parent, s, outer)
        ELSE IF IsRed(t, t.kid[sibling][Other(s)])
        THEN EraseCase4(EraseCase3(t, parent, s), parent, s, sibling)
        ELSE IF IsRed(t, parent) THEN [flipped EXCEPT !.color[parent] = "black"]
        ELSE IF t.parent[parent] # NULL
        THEN EraseColor(flipped, t.parent[parent], parent)
        ELSE flipped

-----------------------------------------------------------------------------
(* rb_first() and rb_last() of a subtree.                                  *)
RECURSIVE Deepest(_, _, _)
Deepest(t, n, s) == IF t.kid[n][s] = NULL THEN n ELSE Deepest(t, t.kid[n][s], s)

RbFirst(t) == IF t.root = NULL THEN NULL ELSE Deepest(t, t.root, "left")
RbLast(t) == IF t.root = NULL THEN NULL ELSE Deepest(t, t.root, "right")

(* rb_next() for side "right", rb_prev() for side "left".                  *)
RECURSIVE Climb(_, _, _)
Climb(t, n, s) ==
    LET p == t.parent[n]
    IN  IF p # NULL /\ n = t.kid[p][s] THEN Climb(t, p, s) ELSE p

RbStep(t, n, s) ==
    IF t.kid[n][s] # NULL THEN Deepest(t, t.kid[n][s], Other(s)) ELSE Climb(t, n, s)

(* Mutant: a black leaf is erased without rebalancing.                     *)
EraseSimpleUnbalanced(t, node) ==
    LET child == IF t.kid[node]["left"] = NULL THEN t.kid[node]["right"]
                 ELSE t.kid[node]["left"]
        p     == t.parent[node]
    IN  SetParentColor(ChangeChild(t, node, child, p), child, p, t.color[node])

(* __rb_erase() of a node with less than two children.                     *)
EraseSimple(t, node) ==
    LET child == IF t.kid[node]["left"] = NULL THEN t.kid[node]["right"]
                 ELSE t.kid[node]["left"]
        p     == t.parent[node]
        u     == SetParentColor(ChangeChild(t, node, child, p), child, p, t.color[node])
    IN  IF child = NULL /\ ~IsRed(t, node) /\ p # NULL
        THEN EraseColor(u, p, NULL) ELSE u

(* Mutant: a successor that is not a child does not take over the right    *)
(* subtree.                                                                *)
EraseInnerLost(t, node) ==
    LET child  == t.kid[node]["right"]
        succ   == Deepest(t, child, "left")
        child2 == t.kid[succ]["right"]
        parent == IF succ = child THEN succ ELSE t.parent[succ]
        far    == [t EXCEPT !.kid[parent]["left"] = child2]
        u      == IF succ = child THEN t ELSE SetParent(far, child, succ)
        left   == t.kid[node]["left"]
        v      == SetParent([u EXCEPT !.kid[succ]["left"] = left], left, succ)
        p      == t.parent[node]
        w      == SetParentColor(ChangeChild(v, node, succ, p), succ, p, t.color[node])
    IN  IF child2 # NULL THEN SetParentColor(w, child2, parent, "black")
        ELSE IF ~IsRed(t, succ) THEN EraseColor(w, parent, NULL) ELSE w

(* __rb_erase() of a node with two: its successor takes its place.         *)
EraseInner(t, node) ==
    LET child  == t.kid[node]["right"]
        succ   == Deepest(t, child, "left")
        child2 == t.kid[succ]["right"]
        parent == IF succ = child THEN succ ELSE t.parent[succ]
        far    == [t EXCEPT !.kid[parent]["left"] = child2, !.kid[succ]["right"] = child]
        u      == IF succ = child THEN t ELSE SetParent(far, child, succ)
        left   == t.kid[node]["left"]
        v      == SetParent([u EXCEPT !.kid[succ]["left"] = left], left, succ)
        p      == t.parent[node]
        w      == SetParentColor(ChangeChild(v, node, succ, p), succ, p, t.color[node])
    IN  IF child2 # NULL THEN SetParentColor(w, child2, parent, "black")
        ELSE IF ~IsRed(t, succ) THEN EraseColor(w, parent, NULL) ELSE w

RbErase(t, node) ==
    IF \E s \in Side : t.kid[node][s] = NULL THEN EraseSimple(t, node)
    ELSE EraseInner(t, node)

-----------------------------------------------------------------------------
(* rb_search_node() below n, with the node above where it ends.  cmp[n] is *)
(* what the comparison of node n with the key sought returns.              *)
Toward(cmp, n) == IF cmp[n] < 0 THEN "left" ELSE "right"

RECURSIVE Descend(_, _, _, _)
Descend(t, n, above, cmp) ==
    IF n = NULL \/ cmp[n] = 0 THEN <<n, above>>
    ELSE Descend(t, t.kid[n][Toward(cmp, n)], n, cmp)

RbSearch(t, cmp) == Descend(t, t.root, NULL, cmp)[1]

(* rb_link_node(), where the search ended.                                 *)
LinkNode(t, new, p, cmp) ==
    LET u == [SetParentColor(t, new, p, "red") EXCEPT
                !.kid[new] = [s \in Side |-> NULL]]
    IN  IF p = NULL THEN [u EXCEPT !.root = new]
        ELSE [u EXCEPT !.kid[p][Toward(cmp, p)] = new]

(* rb_insert_node(): the tree is unchanged when a node compares equal.     *)
RbInsert(t, new, cmp) ==
    LET end == Descend(t, t.root, NULL, cmp)
    IN  IF end[1] # NULL THEN t ELSE InsertColor(LinkNode(t, new, end[2], cmp), new)

-----------------------------------------------------------------------------
(* The nodes that going up from n, or going down left from n, reads.       *)
RECURSIVE ReadUp(_, _)
ReadUp(t, n) ==
    LET p == t.parent[n]
    IN  IF p = NULL THEN {}
        ELSE {p} \cup (IF n = t.kid[p]["right"] THEN ReadUp(t, p) ELSE {})

RECURSIVE ReadDown(_, _)
ReadDown(t, n) == IF n = NULL THEN {} ELSE {n} \cup ReadDown(t, t.kid[n]["left"])

(* Mutant: the right child keeps the node being freed as its parent.       *)
DestroyRoundStale(t, node) ==
    LET right == t.kid[node]["right"]
    IN  IF right = NULL
        THEN [tree |-> t, next |-> Climb(t, node, "right"), reads |-> ReadUp(t, node)]
        ELSE [tree |-> t, next |-> Deepest(t, right, "left"), reads |-> ReadDown(t, right)]

(* One round of the loop of rb_destroy() at node, with the nodes it reads  *)
(* after its callback may have freed node.                                 *)
DestroyRound(t, node) ==
    LET right == t.kid[node]["right"]
        p     == t.parent[node]
    IN  IF right = NULL
        THEN [tree |-> t, next |-> Climb(t, node, "right"), reads |-> ReadUp(t, node)]
        ELSE [tree |-> SetParentColor(t, right, p, "red"),
              next |-> Deepest(t, right, "left"), reads |-> ReadDown(t, right)]

=============================================================================
