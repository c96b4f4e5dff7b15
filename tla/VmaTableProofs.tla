--------------------------- MODULE VmaTableProofs ---------------------------
(***************************************************************************)
(* Proofs about VmaTable, for any layout of the target and any changes it  *)
(* makes to its areas while a session reads them.                          *)
(***************************************************************************)
EXTENDS VmaTable, SequenceTheorems, TLAPS

(* The area of a patch that is where the session asked for is in the tree, *)
(* or its line is still to be read and there is room for it in the tree.   *)
PatchInv ==
    /\ patch # None => patch.name \in UlpName
    /\ pc \in {"closed", "open", "ready", "mmap"} => patch = None
    /\ PatchFound
    /\ pc = "update" /\ patch # None /\ patch.start = hint =>
         patch \in tree \/ (pos <= patch.start /\ Free(tree, patch))

(* What the table has of the areas of a target that does not change them:  *)
(* those whose lines were read.                                            *)
ExactInv ==
    changes = 0 =>
      /\ pc = "closed" => tree = {}
      /\ pc \in {"open", "update"} => tree \subseteq maps
      /\ pc = "open" => \A a \in tree : a.end <= pos
      /\ pc \in {"open", "update"} => \A a \in maps : a.end <= pos => a \in tree
      /\ pc \in {"ready", "mmap", "patched"} => tree = maps

TableInv ==
    /\ TypeOK /\ TreeSound /\ LeadersLead /\ SpanFree /\ PatchInv /\ ExactInv
    /\ pc = "closed" => tree = {} /\ list = <<>>

(* The steps of the target, and those of the session that do not touch its *)
(* table.                                                                  *)
AppStep == \E a \in Area : AppMmap(a) \/ (a \in maps /\ (AppMunmap(a) \/ AppBrk(a)))

-----------------------------------------------------------------------------
LEMMA AreaType ==
    ASSUME NEW a \in Area
    PROVE  /\ a.start \in Nat /\ a.end \in Nat /\ a.name \in Name
           /\ a.start < a.end /\ a.end <= Top /\ a # None
  BY TableAssumption DEF Area

(* Areas with the same bounds, or in one line of the maps, are one area.   *)
LEMMA SameArea ==
    ASSUME NEW s \in SUBSET Area, \A a, b \in s : a = b \/ ~Overlap(a, b),
           NEW a \in s, NEW b \in s, a.start <= b.start, b.end <= a.end
    PROVE  a = b
  BY AreaType DEF Overlap

LEMMA InitInv == Init => TableInv
  <1> SUFFICES ASSUME Init PROVE TableInv
    OBVIOUS
  <1>1. maps \subseteq Area /\ \A a, b \in maps : a = b \/ ~Overlap(a, b)
    BY TableAssumption DEF Init, Area, Overlap
  <1>2. TypeOK
    BY <1>1, TableAssumption DEF Init, TypeOK
  <1>3. QED
    BY <1>2 DEF Init, TableInv, TreeSound, LeadersLead, SpanFree, PatchInv, PatchFound, ExactInv

LEMMA AppStepInv == TableInv /\ AppStep => TableInv'
  <1> SUFFICES ASSUME TableInv, AppStep PROVE TableInv'
    OBVIOUS
  <1> USE DEF table
  <1>1. /\ UNCHANGED <<pc, hint, patch, pos, prev, list, tree>>
        /\ changes \in 0..MaxChanges /\ changes' = changes + 1 /\ changes' \in 0..MaxChanges
    BY TableAssumption DEF AppStep, AppMmap, AppMunmap, AppBrk, Change, TableInv, TypeOK
  <1>2. /\ maps' \subseteq Area
        /\ \A a, b \in maps' : a = b \/ ~Overlap(a, b)
        /\ \A a \in maps : a.name \in UlpName => a \in maps'
    <2> PICK x \in Area : AppMmap(x) \/ (x \in maps /\ (AppMunmap(x) \/ AppBrk(x)))
      BY DEF AppStep
    <2>1. CASE AppMmap(x)
      BY <2>1, AreaType DEF AppMmap, Free, Overlap, TableInv, TypeOK
    <2>2. CASE x \in maps /\ AppMunmap(x)
      BY <2>2, TableAssumption DEF AppMunmap, TableInv, TypeOK
    <2>3. CASE x \in maps /\ AppBrk(x)
      <3> DEFINE g == [x EXCEPT !.end = @ + 1]
      <3>1. g \in Area /\ x.name = "heap" /\ Free(maps \ {x}, g) /\ maps' = (maps \ {x}) \cup {g}
        BY <2>3, AreaType, TableAssumption DEF AppBrk, Area
      <3>2. QED
        BY <2>3, <3>1, AreaType, TableAssumption, Zenon DEF Free, Overlap, TableInv, TypeOK
    <2>4. QED
      BY <2>1, <2>2, <2>3
  <1>3. patch \in maps' \cup {None}
    BY <1>2 DEF TableInv, TypeOK, PatchInv
  <1>4. TypeOK'
    BY <1>1, <1>2, <1>3 DEF TableInv, TypeOK, Updates
  <1>5. changes' # 0
    BY <1>1
  <1>6. QED
    BY <1>1, <1>4, <1>5 DEF TableInv, TreeSound, LeadersLead, SpanFree, Fits, PatchInv, PatchFound, Free, ExactInv

LEMMA InsertInv ==
    ASSUME TableInv, NEW a \in maps, InsertVma(a)
    PROVE  /\ prev' \in 0..Len(list') /\ list' \in Seq([area : Area, leader : Nat])
           /\ tree' = TreeInsert(tree, a)
           /\ TreeSound' /\ LeadersLead'
  <1> DEFINE new == [area |-> a, leader |-> LeaderOf(a)]
  <1>1. /\ a \in Area /\ list \in Seq([area : Area, leader : Nat])
        /\ prev \in 0..Len(list) /\ tree \subseteq Area
    BY DEF TableInv, TypeOK
  <1>2. /\ LeaderOf(a) \in Nat
        /\ LeaderOf(a) = Len(list) + 1 \/
             (/\ LeaderOf(a) \in 1..Len(list)
              /\ list[LeaderOf(a)].leader = LeaderOf(a)
              /\ list[LeaderOf(a)].area.name = a.name)
    <2>1. CASE prev # 0 /\ list[prev].area.name = a.name
      <3>1. prev \in DOMAIN list /\ LeaderOf(a) = list[prev].leader
        BY <1>1, <2>1 DEF LeaderOf
      <3>2. LeaderOf(a) \in 1..prev
        BY <3>1 DEF TableInv, LeadersLead
      <3>3. QED
        BY <1>1, <2>1, <3>1, <3>2 DEF TableInv, LeadersLead
    <2>2. CASE ~(prev # 0 /\ list[prev].area.name = a.name)
      BY <1>1, <2>2 DEF LeaderOf
    <2>3. QED
      BY <2>1, <2>2
  <1>3. /\ list' = Append(list, new) /\ tree' = TreeInsert(tree, a) /\ prev' = Len(list) + 1
        /\ new \in [area : Area, leader : Nat]
    BY <1>1, <1>2 DEF InsertVma
  <1>4. /\ list' \in Seq([area : Area, leader : Nat]) /\ Len(list') = Len(list) + 1
        /\ DOMAIN list' = 1..(Len(list) + 1) /\ DOMAIN list = 1..Len(list)
        /\ \A i \in DOMAIN list : list'[i] = list[i]
        /\ list'[Len(list) + 1] = new
    BY <1>1, <1>3
  <1>5. TreeSound'
    <2>1. \A b, c \in tree' : b = c \/ ~Overlap(b, c)
      BY <1>1, <1>3, AreaType DEF TreeInsert, Free, Overlap, TableInv, TreeSound
    <2>2. ASSUME NEW b \in tree' PROVE \E i \in DOMAIN list' : list'[i].area = b
      <3>1. CASE b \in tree
        <4> PICK i \in DOMAIN list : list[i].area = b
          BY <3>1 DEF TableInv, TreeSound
        <4> QED
          BY <1>1, <1>4
      <3>2. CASE b \notin tree
        <4>1. b = a
          BY <1>3, <3>2 DEF TreeInsert
        <4>2. Len(list) + 1 \in DOMAIN list' /\ new.area = a
          BY <1>1, <1>4
        <4> QED
          BY <1>4, <4>1, <4>2
      <3>3. QED
        BY <3>1, <3>2
    <2>3. QED
      BY <2>1, <2>2 DEF TreeSound
  <1>6. LeadersLead'
    <2> SUFFICES ASSUME NEW i \in DOMAIN list'
                 PROVE  /\ list'[i].leader \in 1..i
                        /\ list'[list'[i].leader].leader = list'[i].leader
                        /\ list'[list'[i].leader].area.name = list'[i].area.name
      BY DEF LeadersLead
    <2>1. CASE i \in DOMAIN list
      <3>1. list[i].leader \in 1..i /\ list[i].leader \in DOMAIN list
        BY <1>1, <2>1 DEF TableInv, LeadersLead
      <3>2. QED
        BY <1>4, <2>1, <3>1 DEF TableInv, LeadersLead
    <2>2. CASE i = Len(list) + 1
      BY <1>1, <1>2, <1>4, <2>2
    <2>3. QED
      BY <1>1, <1>4, <2>1, <2>2
  <1>7. QED
    BY <1>1, <1>3, <1>4, <1>5, <1>6

LEMMA ReadLineInv ==
    ASSUME TableInv, NEW a \in maps, ReadLine(a) PROVE TableInv'
  <1>1. /\ a \in Area /\ maps \subseteq Area /\ tree \subseteq Area
        /\ \A b, c \in maps : b = c \/ ~Overlap(b, c)
        /\ pos \in Nat /\ patch \in maps \cup {None}
    BY DEF TableInv, TypeOK
  <1>2. /\ UNCHANGED <<maps, changes, pc, hint, patch>> /\ pos' = a.end /\ NextLine(a)
        /\ pc \in {"open", "update", "refresh"}
    BY DEF ReadLine, Updates
  <1>3. /\ prev' \in 0..Len(list') /\ list' \in Seq([area : Area, leader : Nat])
        /\ tree' \in {tree, TreeInsert(tree, a)}
        /\ TreeSound' /\ LeadersLead'
    <2>1. CASE UNCHANGED <<prev, list, tree>>
      BY <2>1 DEF TableInv, TypeOK, TreeSound, LeadersLead
    <2>2. CASE InsertVma(a)
      BY <2>2, InsertInv, Zenon
    <2>3. QED
      BY <2>1, <2>2 DEF ReadLine
  <1>4. TypeOK'
    <2>1. pos' \in 0..Top /\ tree' \subseteq Area
      BY <1>1, <1>2, <1>3, AreaType, TableAssumption DEF TreeInsert
    <2>2. QED
      BY <1>2, <1>3, <2>1 DEF TableInv, TypeOK, Updates
  <1>5. tree' = TreeInsert(tree, a) \/
          (pc # "open" /\ tree' = tree /\
             \E old \in tree : old.start = a.start /\ old.end = a.end)
    BY InsertInv DEF ReadLine, FindVma, Updates
  <1>6. PatchInv'
    <2>1. ASSUME pc = "update", patch # None, patch.start = hint
          PROVE  patch \in tree' \/ (a.end <= patch.start /\ Free(tree', patch))
      <3>1. CASE patch \in tree
        BY <1>3, <3>1 DEF TreeInsert
      <3>2. CASE patch \notin tree
        <4>1. pos <= patch.start /\ Free(tree, patch) /\ patch \in maps /\ patch \in Area
          BY <1>1, <2>1, <3>2 DEF TableInv, PatchInv
        <4>2. CASE a = patch
          BY <1>1, <1>5, <4>1, <4>2, AreaType DEF TreeInsert, Free, Overlap
        <4>3. CASE a # patch
          <5>1. a.start <= patch.start
            BY <1>1, <1>2, <4>1, AreaType DEF NextLine
          <5>2. a.end <= patch.start
            BY <1>1, <4>1, <4>3, <5>1, AreaType DEF Overlap
          <5>3. Free(tree', patch)
            BY <1>1, <1>3, <4>1, <5>2, AreaType DEF TreeInsert, Free, Overlap
          <5>4. QED
            BY <5>2, <5>3
        <4>4. QED
          BY <4>2, <4>3
      <3>3. QED
        BY <3>1, <3>2
    <2>2. QED
      BY <1>2, <2>1 DEF TableInv, PatchInv, PatchFound
  <1>7. ExactInv'
    <2> SUFFICES ASSUME changes = 0, pc \in {"open", "update"}
                 PROVE  /\ tree' \subseteq maps
                        /\ pc = "open" => \A b \in tree' : b.end <= a.end
                        /\ \A b \in maps : b.end <= a.end => b \in tree'
      BY <1>2 DEF ExactInv
    <2>1. /\ tree \subseteq maps /\ \A b \in maps : b.end <= pos => b \in tree
          /\ pc = "open" => \A b \in tree : b.end <= pos
      BY DEF TableInv, ExactInv
    <2>2. tree' = tree \cup {a}
      <3>1. CASE a \in tree
        <4>1. ~Free(tree, a)
          BY <1>1, <3>1, AreaType DEF Free, Overlap
        <4>2. QED
          BY <1>3, <3>1, <4>1 DEF TreeInsert
      <3>2. CASE a \notin tree
        <4>1. Free(tree, a) /\ ~\E old \in tree : old.start = a.start /\ old.end = a.end
          BY <1>1, <2>1, <3>2, AreaType DEF Free, Overlap
        <4>2. QED
          BY <1>5, <4>1 DEF TreeInsert
      <3>3. QED
        BY <3>1, <3>2
    <2>3. ASSUME NEW b \in maps, b.end <= a.end PROVE b \in tree'
      <3>1. CASE b.end <= pos
        BY <2>1, <2>2, <3>1
      <3>2. CASE b.end > pos
        <4>1. a.start <= b.start
          BY <1>2, <3>2 DEF NextLine
        <4>2. a = b
          BY <1>1, <2>3, <4>1, SameArea
        <4>3. QED
          BY <2>2, <4>2
      <3>3. QED
        BY <1>1, <3>1, <3>2, AreaType
    <2>4. pc = "open" => \A b \in tree' : b.end <= a.end
      BY <1>1, <1>2, <2>1, <2>2, AreaType DEF NextLine
    <2>5. QED
      BY <2>1, <2>2, <2>3, <2>4
  <1>8. QED
    BY <1>2, <1>3, <1>4, <1>6, <1>7 DEF TableInv, SpanFree

LEMMA ReadEndInv == TableInv /\ ReadEnd => TableInv'
  <1> SUFFICES ASSUME TableInv, ReadEnd PROVE TableInv'
    OBVIOUS
  <1> USE DEF table
  <1>1. /\ UNCHANGED <<maps, changes, hint, patch, pos, prev, list, tree>>
        /\ \A a \in maps : a.end <= pos
        /\ \/ pc = "open" /\ pc' = "ready"
           \/ pc = "update" /\ pc' = "patched"
           \/ pc = "refresh" /\ pc' = "unpatched"
    BY DEF ReadEnd, Updates
  <1>2. TypeOK'
    BY <1>1 DEF TableInv, TypeOK, Updates
  <1>3. PatchInv'
    <2>1. ASSUME pc = "update", patch # None, patch.start = hint PROVE patch \in tree
      <3>1. patch \in maps /\ patch \in Area /\ patch.end <= pos /\ pos \in Nat
        BY <1>1, <2>1 DEF TableInv, TypeOK
      <3>2. QED
        BY <2>1, <3>1, AreaType DEF TableInv, PatchInv
    <2>2. QED
      BY <1>1, <2>1 DEF TableInv, PatchInv, PatchFound
  <1>4. ExactInv'
    BY <1>1 DEF TableInv, ExactInv
  <1>5. QED
    BY <1>1, <1>2, <1>3, <1>4 DEF TableInv, TreeSound, LeadersLead, SpanFree

(* What find_vma_span_area() promises of a table of disjoint areas.        *)
LEMMA SpanResult ==
    ASSUME NEW s \in SUBSET Area, \A a, b \in s : a = b \/ ~Overlap(a, b),
           NEW h \in FindVmaSpanArea(s, Size, Base)
    PROVE  /\ h \in Nat
           /\ h # 0 => Fits(s, h)
           /\ h = 0 => \A a, b \in s : a.end <= b.start /\ b.start - a.end >= Size =>
                          \E c \in s : a.end <= c.start /\ c.end <= b.start
  <1> USE TableAssumption
  <1>1. CASE \E a \in s : First(s, a) /\ a.start > Base /\ a.start - Base >= Size
    <2> PICK a \in s : First(s, a) /\ a.start > Base /\ a.start - Base >= Size
      BY <1>1
    <2>1. h = Base
      BY <1>1 DEF FindVmaSpanArea
    <2>2. QED
      BY <2>1, AreaType DEF First, Fits
  <1>2. CASE /\ ~\E a \in s : First(s, a) /\ a.start > Base /\ a.start - Base >= Size
             /\ \E a \in s : Room(s, a, Size)
    <2> PICK a \in s : Room(s, a, Size) /\ h = a.end
      BY <1>2 DEF FindVmaSpanArea
    <2> PICK b \in s : Follows(s, a, b) /\ b.start - a.end >= Size
      BY DEF Room
    <2>1. ASSUME NEW c \in s PROVE c.end <= h \/ h + Size <= c.start
      <3>1. CASE c.start <= a.start
        BY <3>1, AreaType DEF Overlap
      <3>2. CASE b.start <= c.start
        BY <3>2, AreaType
      <3>3. QED
        BY <3>1, <3>2 DEF Follows
    <2>2. h \in Nat /\ h # 0
      BY AreaType
    <2>3. QED
      BY <2>1, <2>2 DEF Fits
  <1>3. CASE /\ ~\E a \in s : First(s, a) /\ a.start > Base /\ a.start - Base >= Size
             /\ ~\E a \in s : Room(s, a, Size)
    <2>1. h = 0
      BY <1>3 DEF FindVmaSpanArea
    <2>2. ASSUME NEW a \in s, NEW b \in s, a.end <= b.start, b.start - a.end >= Size
          PROVE  \E c \in s : a.end <= c.start /\ c.end <= b.start
      <3>1. ~Follows(s, a, b)
        BY <1>3, <2>2 DEF Room
      <3>2. PICK c \in s : ~(c.start <= a.start \/ b.start <= c.start)
        BY <2>2, <3>1, AreaType DEF Follows
      <3>3. QED
        BY <2>2, <3>2, AreaType DEF Overlap
    <2>3. QED
      BY <2>1, <2>2
  <1>4. QED
    BY <1>1, <1>2, <1>3

LEMMA SearchInv == TableInv /\ (OpenTask \/ FindSpan \/ CloseTask) => TableInv'
  <1> SUFFICES ASSUME TableInv, OpenTask \/ FindSpan \/ CloseTask PROVE TableInv'
    OBVIOUS
  <1>1. TypeOK /\ TreeSound /\ LeadersLead /\ PatchInv /\ ExactInv
        /\ (pc = "closed" => tree = {} /\ list = <<>>)
    BY DEF TableInv
  <1>2. CASE OpenTask
    <2>1. /\ pc = "closed" /\ pc' = "open" /\ pos' = 0 /\ prev' = 0
          /\ UNCHANGED <<maps, changes, list, tree, hint, patch>>
      BY <1>2 DEF OpenTask, Read
    <2>2. TypeOK'
      BY <1>1, <2>1, TableAssumption DEF TypeOK, Updates
    <2>3. ExactInv'
      BY <1>1, <2>1, AreaType DEF ExactInv, TypeOK
    <2>4. QED
      BY <1>1, <2>1, <2>2, <2>3
      DEF TableInv, TreeSound, LeadersLead, SpanFree, PatchInv, PatchFound
  <1>3. CASE FindSpan
    <2>1. /\ pc = "ready" /\ pc' = "mmap" /\ hint' \in FindVmaSpanArea(tree, Size, Base)
          /\ UNCHANGED <<maps, changes, patch, pos, prev, list, tree>>
      BY <1>3 DEF FindSpan, table
    <2>2. hint' \in Nat /\ SpanFree'
      <3>1. tree \in SUBSET Area /\ \A a, b \in tree : a = b \/ ~Overlap(a, b)
        BY <1>1 DEF TypeOK, TreeSound
      <3>2. QED
        BY <2>1, <3>1, SpanResult DEF SpanFree, Fits
    <2>3. TypeOK'
      BY <1>1, <2>1, <2>2 DEF TypeOK, Updates
    <2>4. QED
      BY <1>1, <2>1, <2>2, <2>3
      DEF TableInv, TreeSound, LeadersLead, PatchInv, PatchFound, ExactInv
  <1>4. CASE CloseTask
    <2>1. TypeOK'
      BY <1>1, <1>4, TableAssumption DEF CloseTask, TypeOK, Updates
    <2>2. QED
      BY <1>4, <2>1 DEF CloseTask, TableInv, TreeSound, LeadersLead, SpanFree, PatchInv, PatchFound, ExactInv
  <1>5. QED
    BY <1>2, <1>3, <1>4

LEMMA MmapPatchInv ==
    ASSUME TableInv, NEW p \in 1..Top, NEW n \in UlpName, MmapPatch(p, n) PROVE TableInv'
  <1> DEFINE new == PatchAt(p, n)
  <1>1. /\ pc = "mmap" /\ pc' = "update" /\ pos' = 0 /\ prev' = 0 /\ p + Size <= Top
        /\ Fits(maps, p) /\ maps' = maps \cup {new} /\ patch' = new
        /\ UNCHANGED <<changes, list, tree, hint>>
    BY DEF MmapPatch, Read
  <1>2. /\ new \in Area /\ new.start = p /\ new.end = p + Size /\ new.name = n
    BY <1>1, TableAssumption DEF PatchAt, Area
  <1>3. ASSUME NEW s \in SUBSET Area, Fits(s, p)
        PROVE  \A a \in s : ~Overlap(a, new) /\ ~Overlap(new, a)
    BY <1>2, <1>3, AreaType, TableAssumption DEF Fits, Overlap
  <1>4. TypeOK'
    <2>1. \A a, b \in maps' : a = b \/ ~Overlap(a, b)
      BY <1>1, <1>3 DEF TableInv, TypeOK
    <2>2. QED
      BY <1>1, <1>2, <2>1, TableAssumption DEF TableInv, TypeOK, Updates
  <1>5. PatchInv'
    <2>1. ASSUME p = hint PROVE Free(tree, new)
      <3>1. Fits(tree, p)
        BY <1>1, <2>1 DEF TableInv, SpanFree
      <3>2. QED
        BY <1>3, <3>1 DEF Free, TableInv, TypeOK
    <2>2. QED
      BY <1>1, <1>2, <2>1 DEF PatchInv, PatchFound
  <1>6. ExactInv'
    BY <1>1, <1>2, AreaType DEF TableInv, TypeOK, ExactInv
  <1>7. QED
    BY <1>1, <1>4, <1>5, <1>6 DEF TableInv, TreeSound, LeadersLead, SpanFree

LEMMA RereadInv == TableInv /\ (MmapFails \/ MunmapPatch) => TableInv'
  <1> SUFFICES ASSUME TableInv, MmapFails \/ MunmapPatch PROVE TableInv'
    OBVIOUS
  <1>1. /\ pos' = 0 /\ prev' = 0 /\ patch' = None /\ maps' \subseteq maps
        /\ UNCHANGED <<changes, list, tree, hint>>
        /\ \/ pc = "mmap" /\ pc' = "update" /\ maps' = maps
           \/ pc = "patched" /\ pc' = "refresh"
    BY DEF MmapFails, MunmapPatch, Read, TableInv, PatchInv
  <1>2. TypeOK'
    BY <1>1, TableAssumption DEF TableInv, TypeOK, Updates
  <1>3. ExactInv'
    BY <1>1, AreaType DEF TableInv, TypeOK, ExactInv
  <1>4. QED
    BY <1>1, <1>2, <1>3
    DEF TableInv, TreeSound, LeadersLead, SpanFree, PatchInv, PatchFound

-----------------------------------------------------------------------------
LEMMA TableStep == TableInv /\ [Next]_vars => TableInv'
  <1> SUFFICES ASSUME TableInv, [Next]_vars PROVE TableInv'
    OBVIOUS
  <1>1. CASE AppStep
    BY <1>1, AppStepInv
  <1>2. CASE \E a \in maps : ReadLine(a)
    BY <1>2, ReadLineInv
  <1>3. CASE ReadEnd
    BY <1>3, ReadEndInv
  <1>4. CASE OpenTask \/ FindSpan \/ CloseTask
    BY <1>4, SearchInv
  <1>5. CASE \E p \in 1..Top, n \in UlpName : MmapPatch(p, n)
    BY <1>5, MmapPatchInv
  <1>6. CASE MmapFails \/ MunmapPatch
    BY <1>6, RereadInv
  <1>7. CASE UNCHANGED vars
    BY <1>7 DEF vars, TableInv, TypeOK, TreeSound, LeadersLead, SpanFree, Fits, PatchInv,
                PatchFound, Free, ExactInv
  <1>8. maps \subseteq Area
    BY DEF TableInv, TypeOK
  <1>9. QED
    BY <1>1, <1>2, <1>3, <1>4, <1>5, <1>6, <1>7, <1>8 DEF Next, AppStep

THEOREM TableInvariant == Spec => []TableInv
  BY InitInv, TableStep, PTL DEF Spec

(* The state of a session and of its target is well typed and the areas of *)
(* the target are disjoint.                                                *)
THEOREM TableTypes == Spec => []TypeOK
  <1>1. TableInv => TypeOK
    BY DEF TableInv
  <1>2. QED
    BY <1>1, TableInvariant, PTL

(* A reading of the maps that is not atomic, over a table already filled,  *)
(* leaves a tree of disjoint areas, each in vma_list.                      *)
THEOREM TreeStaysSound == Spec => []TreeSound
  <1>1. TableInv => TreeSound
    BY DEF TableInv
  <1>2. QED
    BY <1>1, TableInvariant, PTL

(* insert_vma() gives every area a leader of its name that leads itself.   *)
THEOREM LeadersStayLeaders == Spec => []LeadersLead
  <1>1. TableInv => LeadersLead
    BY DEF TableInv
  <1>2. QED
    BY <1>1, TableInvariant, PTL

(* find_vma_span_area() returns a place that is free in the table, and     *)
(* fails only when no two areas have room between them.                    *)
THEOREM SpanIsFree == Spec => []SpanFree
  <1>1. TableInv => SpanFree
    BY DEF TableInv
  <1>2. QED
    BY <1>1, TableInvariant, PTL

(* A patch that was mapped where the session asked for is found by         *)
(* create_mmap_vma_file() after its update of the table.                   *)
THEOREM PatchIsFound == Spec => []PatchFound
  <1>1. TableInv => PatchFound
    BY DEF TableInv, PatchInv
  <1>2. QED
    BY <1>1, TableInvariant, PTL

(* Without changes by the target the table is that of the kernel, also     *)
(* after the update that adds the patch.                                   *)
THEOREM TableIsExact == Spec => []TableExact
  <1>1. TableInv => TableExact
    BY DEF TableInv, ExactInv, TableExact
  <1>2. QED
    BY <1>1, TableInvariant, PTL

=============================================================================
