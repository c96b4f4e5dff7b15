------------------------------- MODULE VmaTable -------------------------------
(***************************************************************************)
(* The table of areas a session keeps of its target (task/vma.c): read     *)
(* line by line from /proc/PID/maps while the target runs on, searched for *)
(* a place for a patch, and read again after the patch was mapped.         *)
(*                                                                         *)
(* Addresses are page numbers.  The red-black tree of areas is a set: it   *)
(* holds disjoint areas, on which the comparison is an order, and refuses  *)
(* an area that overlaps one it holds.  An entry of vma_list has the place *)
(* of its leader in the list.                                              *)
(***************************************************************************)
EXTENDS Integers, Sequences

CONSTANTS
    Top,          \* the pages of an address space are 0..Top-1
    Size,         \* pages of a patch
    Base,         \* the page of MIN_ULP_START_VMA_ADDR
    Name,         \* names of areas
    UlpName,      \* those of patch files, no two of which have one name
    Layouts,      \* what the areas of the target may be at first
    MaxChanges,   \* bound: how often the target changes its areas
    None

ASSUME TableAssumption ==
    /\ Top \in Nat /\ Size \in Nat \ {0} /\ Base \in Nat \ {0} /\ MaxChanges \in Nat
    /\ UlpName \subseteq Name /\ {"heap", "anon"} \subseteq Name \ UlpName
    /\ None \notin [start : Nat, end : Nat, name : Name]
    /\ \A m \in Layouts : \A a \in m :
         /\ a \in [start : 0..Top, end : 0..Top, name : Name]
         /\ a.start < a.end
         /\ \A b \in m : a = b \/ a.end <= b.start \/ b.end <= a.start

VARIABLES
    maps,      \* the areas of the target
    changes,   \* how often the target changed them
    pc,        \* where the session is
    pos,       \* where the reading of the maps is
    prev,      \* the place in the list of the area inserted last, or 0
    list,      \* vma_list
    tree,      \* vmas_rb
    hint,      \* what find_vma_span_area() returned
    patch      \* the area of the patch, or None

vars == <<maps, changes, pc, pos, prev, list, tree, hint, patch>>
table == <<pos, prev, list, tree>>

Area == {a \in [start : 0..Top, end : 0..Top, name : Name] : a.start < a.end}

Overlap(a, b) == a.start < b.end /\ b.start < a.end

Free(s, a) == \A b \in s : ~Overlap(a, b)

Init ==
    /\ maps \in Layouts
    /\ changes = 0
    /\ pc = "closed"
    /\ pos = 0
    /\ prev = 0
    /\ list = <<>>
    /\ tree = {}
    /\ hint = 0
    /\ patch = None

-----------------------------------------------------------------------------
(* The target, any of whose threads may change its areas at any time.      *)

Change == changes < MaxChanges /\ changes' = changes + 1

AppMmap(a) ==
    /\ Change
    /\ a.name = "anon"
    /\ Free(maps, a)
    /\ maps' = maps \cup {a}
    /\ UNCHANGED <<pc, hint, patch, table>>

AppMunmap(a) ==
    /\ Change
    /\ a.name = "anon"
    /\ maps' = maps \ {a}
    /\ UNCHANGED <<pc, hint, patch, table>>

(* brk(2)                                                                  *)
AppBrk(a) ==
    /\ Change
    /\ a.name = "heap"
    /\ a.end < Top
    /\ LET grown == [a EXCEPT !.end = @ + 1]
       IN  /\ Free(maps \ {a}, grown)
           /\ maps' = (maps \ {a}) \cup {grown}
    /\ UNCHANGED <<pc, hint, patch, table>>

-----------------------------------------------------------------------------
(* find_vma()                                                              *)
FindVma(s, p) == {a \in s : a.start <= p /\ p < a.end}

(* Mutant: only an area with the same start counts as equal.               *)
TreeInsertByStart(s, a) == IF \A b \in s : b.start # a.start THEN s \cup {a} ELSE s

(* rb_insert_node() with __vma_rb_cmp()                                    *)
TreeInsert(s, a) == IF Free(s, a) THEN s \cup {a} ELSE s

(* Mutant: the area before is taken for the leader.                        *)
LeaderOfPrev(a) ==
    IF prev # 0 /\ list[prev].area.name = a.name THEN prev ELSE Len(list) + 1

(* insert_vma(): the leader of an area named as the one inserted before it *)
(* is the leader of that one.                                              *)
LeaderOf(a) ==
    IF prev # 0 /\ list[prev].area.name = a.name THEN list[prev].leader ELSE Len(list) + 1

InsertVma(a) ==
    /\ list' = Append(list, [area |-> a, leader |-> LeaderOf(a)])
    /\ tree' = TreeInsert(tree, a)
    /\ prev' = Len(list) + 1

(* The line that fgets() returns next: the first area that ends after what *)
(* was read.                                                               *)
NextLine(a) == a.end > pos /\ \A b \in maps : b.end > pos => a.start <= b.start

Updates == {"update", "refresh"}

(* One line of read_task_vmas(); an update skips an area it finds in the   *)
(* tree with the same bounds.                                              *)
ReadLine(a) ==
    /\ pc \in {"open"} \cup Updates
    /\ NextLine(a)
    /\ pos' = a.end
    /\ IF pc \in Updates
            /\ \E old \in FindVma(tree, a.start) : old.start = a.start /\ old.end = a.end
       THEN UNCHANGED <<prev, list, tree>>
       ELSE InsertVma(a)
    /\ UNCHANGED <<maps, changes, pc, hint, patch>>

(* The end of read_task_vmas(), and what its caller does next.             *)
ReadEnd ==
    /\ pc \in {"open"} \cup Updates
    /\ \A a \in maps : a.end <= pos
    /\ pc' = CASE pc = "open" -> "ready" [] pc = "update" -> "patched"
               [] pc = "refresh" -> "unpatched"
    /\ UNCHANGED <<maps, changes, hint, patch, table>>

(* Mutant: an update goes on where the reading before it ended.            *)
ReadGoesOn(label) ==
    /\ pc' = label
    /\ pos' = pos
    /\ prev' = 0

(* read_task_vmas() begins.                                                *)
Read(label) ==
    /\ pc' = label
    /\ pos' = 0
    /\ prev' = 0

OpenTask ==
    /\ pc = "closed"
    /\ Read("open")
    /\ UNCHANGED <<maps, changes, list, tree, hint, patch>>

-----------------------------------------------------------------------------
(* rb_first(), and whether b is rb_next() of a.                            *)
First(s, a) == a \in s /\ \A b \in s : a.start <= b.start
Follows(s, a, b) ==
    /\ a \in s /\ b \in s
    /\ a.start < b.start
    /\ \A c \in s : c.start <= a.start \/ b.start <= c.start

(* Mutant: the gap is one page larger than it is.                          *)
RoomOffByOne(s, a, size) == \E b \in s : Follows(s, a, b) /\ b.start - a.end + 1 >= size

(* There is room for size pages after area a.                              *)
Room(s, a, size) == \E b \in s : Follows(s, a, b) /\ b.start - a.end >= size

(* What find_vma_span_area() returns: base when there is room below the   *)
(* first area, or else the end of the first area with room, or else 0.     *)
FindVmaSpanArea(s, size, base) ==
    IF \E a \in s : First(s, a) /\ a.start > base /\ a.start - base >= size THEN {base}
    ELSE IF \E a \in s : Room(s, a, size)
    THEN {a.end : a \in {b \in s : /\ Room(s, b, size)
                                  /\ \A c \in s : Room(s, c, size) => b.start <= c.start}}
    ELSE {0}

(* create_mmap_vma_file() looks for a place.                               *)
FindSpan ==
    /\ pc = "ready"
    /\ hint' \in FindVmaSpanArea(tree, Size, Base)
    /\ pc' = "mmap"
    /\ UNCHANGED <<maps, changes, patch, table>>

PatchAt(p, n) == [start |-> p, end |-> p + Size, name |-> n]

(* There is room for the patch at p.                                       *)
Fits(s, p) == \A a \in s : a.end <= p \/ p + Size <= a.start

(* Mutant: the table is not updated when the patch is mapped at the hint.  *)
MmapPatchNoUpdate(p, n) ==
    /\ pc = "mmap"
    /\ p + Size <= Top
    /\ Fits(maps, p)
    /\ p = hint \/ hint = 0 \/ hint + Size > Top \/ ~Fits(maps, hint)
    /\ \A a \in maps : a.name # n
    /\ maps' = maps \cup {PatchAt(p, n)}
    /\ patch' = PatchAt(p, n)
    /\ pc' = "patched"
    /\ UNCHANGED <<changes, list, tree, hint, pos, prev>>

(* mmap(2) takes a hint that is free, or else a place of its choice.       *)
MmapPatch(p, n) ==
    /\ pc = "mmap"
    /\ p + Size <= Top
    /\ Fits(maps, p)
    /\ p = hint \/ hint = 0 \/ hint + Size > Top \/ ~Fits(maps, hint)
    /\ \A a \in maps : a.name # n
    /\ maps' = maps \cup {PatchAt(p, n)}
    /\ patch' = PatchAt(p, n)
    /\ Read("update")
    /\ UNCHANGED <<changes, list, tree, hint>>

(* It fails when there is none; the error is not noticed here.             *)
MmapFails ==
    /\ pc = "mmap"
    /\ \A p \in 1..Top : p + Size <= Top => ~Fits(maps, p)
    /\ Read("update")
    /\ UNCHANGED <<maps, changes, list, tree, hint, patch>>

(* delete_mmap_vma_file()                                                  *)
MunmapPatch ==
    /\ pc = "patched"
    /\ maps' = maps \ {patch}
    /\ patch' = None
    /\ Read("refresh")
    /\ UNCHANGED <<changes, list, tree, hint>>

(* free_task_vmas() of close_task().                                       *)
CloseTask ==
    /\ pc \in {"ready", "patched", "unpatched"}
    /\ pc' = "closed"
    /\ pos' = 0
    /\ prev' = 0
    /\ list' = <<>>
    /\ tree' = {}
    /\ hint' = 0
    /\ patch' = None
    /\ UNCHANGED <<maps, changes>>

Next ==
    \/ \E a \in Area : AppMmap(a)
    \/ \E a \in maps : AppMunmap(a) \/ AppBrk(a) \/ ReadLine(a)
    \/ OpenTask
    \/ ReadEnd
    \/ FindSpan
    \/ \E p \in 1..Top, n \in UlpName : MmapPatch(p, n)
    \/ MmapFails
    \/ MunmapPatch
    \/ CloseTask

Spec == Init /\ [][Next]_vars

-----------------------------------------------------------------------------
(* The areas and the entries of a session have their types; the target's   *)
(* areas are disjoint.                                                     *)
TypeOK ==
    /\ maps \subseteq Area
    /\ \A a, b \in maps : a = b \/ ~Overlap(a, b)
    /\ changes \in 0..MaxChanges
    /\ pc \in {"closed", "open", "ready", "mmap", "patched", "unpatched"} \cup Updates
    /\ pos \in 0..Top
    /\ prev \in 0..Len(list)
    /\ list \in Seq([area : Area, leader : Nat])
    /\ tree \subseteq Area
    /\ hint \in Nat
    /\ patch \in maps \cup {None}

(* However the target changes its areas between two lines, the areas in    *)
(* the tree are disjoint, so that searches in it are sound, and each is in *)
(* the list, so that free_task_vmas() frees it.                            *)
TreeSound ==
    /\ \A a, b \in tree : a = b \/ ~Overlap(a, b)
    /\ \A a \in tree : \E i \in DOMAIN list : list[i].area = a

(* The leader of an area is an entry of the same name, not after it in the *)
(* list, and its own leader: the ELF headers of the leader stand for all.  *)
LeadersLead ==
    \A i \in DOMAIN list :
      LET l == list[i].leader
      IN  /\ l \in 1..i
          /\ list[l].leader = l
          /\ list[l].area.name = list[i].area.name

(* find_vma_span_area() returns a place that no area of the table touches, *)
(* and 0 only when there is no room between two areas.                     *)
SpanFree ==
    pc = "mmap" =>
      /\ hint # 0 => Fits(tree, hint)
      /\ hint = 0 => \A a, b \in tree : a.end <= b.start /\ b.start - a.end >= Size =>
                       \E c \in tree : a.end <= c.start /\ c.end <= b.start

(* When the kernel put the patch where the session asked for, the session  *)
(* finds it in its tree after the update, whatever the target mapped and   *)
(* unmapped since the first reading.                                       *)
PatchFound ==
    pc = "patched" /\ patch # None /\ patch.start = hint => patch \in tree

(* The table is exact when the target does not change its areas.           *)
TableExact ==
    changes = 0 /\ pc \in {"ready", "mmap", "patched"} => tree = maps

=============================================================================
