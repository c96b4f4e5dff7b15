----------------------------- MODULE TaskSymbols -----------------------------
(***************************************************************************)
(* The symbols of a task (task/symbol.c): a tree by name and a tree by     *)
(* address.  A symbol whose key is in a tree already goes to the list of   *)
(* the node that has it, so that a symbol is a node or a list entry of     *)
(* each tree, and is freed when neither has it any more.                   *)
(*                                                                         *)
(* The functions for names and for addresses are the same but for the key  *)
(* k, "name" or "addr".  A name is a number, its place in the order of     *)
(* strcmp().  The memory a freed symbol had is not used again.             *)
(***************************************************************************)
EXTENDS RbTree, FiniteSets

CONSTANTS
    Symbols,   \* the symbols that files may have: records of name and addr
    Width      \* an int has 2^Width values

Key == {"name", "addr"}
OtherKey(k) == IF k = "name" THEN "addr" ELSE "name"

VARIABLES
    used,      \* symbols allocated so far, in this order: Node is 1..N
    sym,       \* their names and addresses
    tree,      \* rb_syms and rb_addrs
    list,      \* list_name and list_addr of the nodes of the trees
    refcount,
    phase,     \* "load", then the tree being freed, then "closed"
    cur,       \* the node rb_destroy() is at
    freed,
    stale      \* freed symbols that the last step read

vars == <<used, sym, tree, list, refcount, phase, cur, freed, stale>>

Init ==
    /\ used = 0
    /\ sym = [n \in Node |-> [name |-> 0, addr |-> 0]]
    /\ tree = [k \in Key |-> RbInit]
    /\ list = [k \in Key |-> [n \in Node |-> <<>>]]
    /\ refcount = [n \in Node |-> 0]
    /\ phase = "load"
    /\ cur = NULL
    /\ freed = {}
    /\ stale = {}

-----------------------------------------------------------------------------
(* A difference of addresses, returned as an int.                          *)
ToInt(d) ==
    LET m == d % 2^Width IN IF m >= 2^(Width - 1) THEN m - 2^Width ELSE m

(* __cmp_task_sym() and __cmp_task_addr() with symbol x, at every node.    *)
Cmp(s, x, k) ==
    [n \in Node |-> IF k = "name" THEN s[n].name - x.name ELSE ToInt(s[n].addr - x.addr)]

(* What rb_search_node() returns for x, and what it stands for: the node   *)
(* and its list.                                                           *)
Find(k, x) == RbSearch(tree[k], Cmp(sym, x, k))
Entries(k, n) == {n} \cup {list[k][n][i] : i \in DOMAIN list[k][n]}

(* Mutant: a symbol of a known name is put in the list unseen.             *)
LinkSymTwice(s, new, k) ==
    LET cmp  == Cmp(s, s[new], k)
        head == RbSearch(tree[k], cmp)
    IN  IF head = NULL
        THEN [tree |-> RbInsert(tree[k], new, cmp), list |-> list[k], refs |-> {new}]
        ELSE [tree |-> tree[k], list |-> [list[k] EXCEPT ![head] = Append(@, new)],
              refs |-> {new, head}]

(* Mutant: an entry of a list has no reference of its own.                 *)
LinkSymUncounted(s, new, k) ==
    LET cmp  == Cmp(s, s[new], k)
        head == RbSearch(tree[k], cmp)
        o    == OtherKey(k)
    IN  IF head = NULL
        THEN [tree |-> RbInsert(tree[k], new, cmp), list |-> list[k], refs |-> {new}]
        ELSE IF \E n \in Entries(k, head) : s[n][o] = s[new][o]
        THEN [tree |-> tree[k], list |-> list[k], refs |-> {}]
        ELSE [tree |-> tree[k], list |-> [list[k] EXCEPT ![head] = Append(@, new)],
              refs |-> {head}]

(* __link_task_sym_name() and __link_task_sym_addr(): what becomes of the  *)
(* tree, the lists and the references for key k.                           *)
LinkSym(s, new, k) ==
    LET cmp  == Cmp(s, s[new], k)
        head == RbSearch(tree[k], cmp)
        o    == OtherKey(k)
    IN  IF head = NULL
        THEN [tree |-> RbInsert(tree[k], new, cmp), list |-> list[k], refs |-> {new}]
        ELSE IF \E n \in Entries(k, head) : s[n][o] = s[new][o]
        THEN [tree |-> tree[k], list |-> list[k], refs |-> {}]
        ELSE [tree |-> tree[k], list |-> [list[k] EXCEPT ![head] = Append(@, new)],
              refs |-> {new, head}]

(* alloc_task_sym() and link_task_sym() for one symbol of a file.          *)
LoadSym(x) ==
    /\ phase = "load"
    /\ used + 1 \in Node
    /\ used' = used + 1
    /\ sym' = [sym EXCEPT ![used'] = x]
    /\ LET link == [k \in Key |-> LinkSym(sym', used', k)]
       IN  /\ tree' = [k \in Key |-> link[k].tree]
           /\ list' = [k \in Key |-> link[k].list]
           /\ refcount' = [n \in Node |-> refcount[n] +
                             Cardinality({k \in Key : n \in link[k].refs})]
    /\ UNCHANGED <<phase, cur, freed, stale>>

(* rb_destroy() begins with tree k.                                        *)
Begin(k) ==
    /\ phase' = k
    /\ cur' = RbFirst(tree[k])
    /\ stale' = ReadDown(tree[k], tree[k].root) \cap freed
    /\ UNCHANGED <<used, sym, tree, list, refcount, freed>>

FreeTaskSyms == phase = "load" /\ Begin("name")
FreeAddrs == phase = "name" /\ cur = NULL /\ Begin("addr")

(* One round of rb_destroy() with __rb_free_task_sym_name() or _addr().    *)
FreeNode(k) ==
    /\ phase = k
    /\ cur # NULL
    /\ LET entries == Entries(k, cur)
           round   == DestroyRound(tree[k], cur)
       IN  /\ refcount' = [n \in Node |->
                 refcount[n] - (IF n = cur THEN Cardinality(entries)
                                ELSE IF n \in entries THEN 1 ELSE 0)]
           /\ freed' = freed \cup {n \in entries : refcount'[n] = 0}
           /\ stale' = (entries \cap freed) \cup (round.reads \cap freed')
           /\ tree' = [tree EXCEPT ![k] = round.tree]
           /\ cur' = round.next
           /\ list' = [list EXCEPT ![k][cur] = <<>>]
    /\ UNCHANGED <<used, sym, phase>>

FreeDone ==
    /\ phase = "addr"
    /\ cur = NULL
    /\ phase' = "closed"
    /\ UNCHANGED <<used, sym, tree, list, refcount, cur, freed, stale>>

Next ==
    \/ \E x \in Symbols : LoadSym(x)
    \/ FreeTaskSyms
    \/ FreeAddrs
    \/ \E k \in Key : FreeNode(k)
    \/ FreeDone

Spec == Init /\ [][Next]_vars

-----------------------------------------------------------------------------
(* The symbols loaded that have the same key as x.                         *)
Loaded(k, x) == {n \in 1..used : sym[n][k] = x[k]}

(* find_task_sym() returns the symbol of that name that was loaded first,  *)
(* and with its extras every address that a symbol of that name has, each  *)
(* once; it finds nothing that was not loaded.                             *)
NamesFound ==
    phase = "load" =>
      \A x \in Symbols :
        LET head == Find("name", x)
        IN  IF Loaded("name", x) = {} THEN head = NULL
            ELSE /\ head \in Loaded("name", x)
                 /\ \A n \in Loaded("name", x) : head <= n
                 /\ {sym[n].addr : n \in Entries("name", head)} =
                      {sym[n].addr : n \in Loaded("name", x)}
                 /\ \A m, n \in Entries("name", head) :
                      sym[m].addr = sym[n].addr => m = n

(* The addresses loaded and that of x are less than half the range of an   *)
(* int apart, so that no difference is cut.                                *)
NearAll(x) ==
    LET addrs == {x.addr} \cup {sym[n].addr : n \in 1..used}
    IN  \A a, b \in addrs : ToInt(a - b) = a - b

(* find_task_addr() finds the symbol that was loaded first at an address,  *)
(* and its list has the other names of that address and nothing else; it   *)
(* finds nothing where no symbol is.  That is so while the addresses are   *)
(* near each other.  The symbols of an executable and of its libraries are *)
(* not: then __cmp_task_addr() cuts differences, a symbol may be missed,   *)
(* and what is found, or listed with it, has the address modulo the range  *)
(* of an int and perhaps no more.                                          *)
AddrsFound ==
    phase = "load" =>
      \A x \in Symbols :
        LET head == Find("addr", x)
        IN  /\ head # NULL =>
                 \A n \in Entries("addr", head) : (sym[n].addr - x.addr) % 2^Width = 0
            /\ NearAll(x) =>
                 IF Loaded("addr", x) = {} THEN head = NULL
                 ELSE /\ head \in Loaded("addr", x)
                      /\ \A n \in Loaded("addr", x) : head <= n
                      /\ {sym[n].name : n \in Entries("addr", head)} =
                           {sym[n].name : n \in Loaded("addr", x)}
                      /\ Entries("addr", head) \subseteq Loaded("addr", x)

(* Both lookups: by name always right, also when the tree by address is    *)
(* out of order; by address right for addresses near each other.           *)
LookupsExact == NamesFound /\ AddrsFound

(* free_task_syms() frees each symbol that was linked, when the last of    *)
(* its references is gone, and reads none that it has freed, although each *)
(* symbol is in two trees or lists and the first pass frees some, and also *)
(* when differences of addresses are cut and the tree by address is out of *)
(* order.  What is left was not linked: it has the name and the address of *)
(* an earlier symbol.                                                      *)
SymsFreed ==
    /\ stale = {}
    /\ \A n \in Node : refcount[n] >= 0
    /\ phase = "closed" =>
         /\ \A n \in Node : refcount[n] = 0
         /\ \A n \in (1..used) \ freed : \E m \in 1..(n - 1) : sym[m] = sym[n]

=============================================================================
