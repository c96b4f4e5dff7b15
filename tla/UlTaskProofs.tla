---------------------------- MODULE UlTaskProofs ----------------------------
(***************************************************************************)
(* Proofs about UlTask, for any command line and any address space.        *)
(***************************************************************************)
EXTENDS UlTask, WellFoundedInduction, TLAPS

Labels == {"parse", "done", "open", "mprotect", "map", "map_call", "map_close",
           "unmap", "dump_vma", "dump_addr", "jmp", "jmp_write", "close"}

(* The globals hold numbers, a file of the command line and protections.   *)
ArgTypes(g) ==
    /\ DOMAIN g = DOMAIN Defaults
    /\ g.map_file \in File \cup {None}
    /\ g.unmap_addr \in Nat /\ g.vma_addr \in Nat /\ g.dump_addr \in Nat
    /\ g.mprotect_addr \in Nat /\ g.mprotect_len \in Nat /\ g.mprotect_prot \in Prot
    /\ g.jmp_addr_from \in Nat /\ g.jmp_addr_to \in Nat

(* The last --mprotect has set what there is of the region.                *)
Asked(g) ==
    g.mprotect_addr # 0 =>
        \E o \in {o \in Options : o.opt = "mprotect"} :
            /\ Or(o.addr, g.mprotect_addr) = g.mprotect_addr
            /\ Or(o.len, g.mprotect_len) = g.mprotect_len
            /\ o.prot = g.mprotect_prot

(* What the options that parse_config() accepted have in common.           *)
Accepted(g) ==
    /\ g.mprotect_addr # 0 => g.mprotect_addr % PageSize = 0 /\ g.mprotect_len % PageSize = 0
    /\ g.jmp_addr_from # 0 => g.jmp_addr_to # 0 /\ ~g.flag_rdonly

ArgsInv ==
    /\ CommandConstants
    /\ pc \in Labels
    /\ ArgTypes(args) /\ Asked(args)
    /\ pc # "done" => Accepted(args)
    /\ pc \in {"map_call", "map_close"} => args.map_file \in File
    /\ pc \notin {"parse", "done"} => (args.flag_dump_vma => args.output_file)
    /\ pc \in {"open", "mprotect", "map", "map_call", "map_close", "unmap", "dump_vma"} =>
          (args.output_file /\ ~args.force => output = None)

SpaceInv ==
    /\ changes \in Nat
    /\ space \in [PageNo -> Mapping \cup {None}]
    /\ \A p \in PageNo : space[p] # None => InFile(space[p])
    /\ changes = 0 /\ pc \in {"parse", "open", "mprotect"} => space = Layout

(* The areas of the table are apart.                                       *)
MappedArea == [start : PageNo, end : 1..Top, name : File \cup {"anon"}]
Within(a) == a.start..(a.end - 1)
Apart(t) == \A a, b \in t : Overlap(a, b) => a = b

TreeInv == tree \subseteq {a \in MappedArea : a.start < a.end} /\ Apart(tree)

(* The table and the address space agree, unless the target changed it or  *)
(* --unmap did: areas have no holes, and all that is mapped is in an area, *)
(* a file just mapped apart.                                               *)
Steady == changes = 0 /\ ~args.flag_unmap_vma
Whole == \A v \in tree : \A q \in Within(v) : space[q] # None
Listed(q) == \E v \in tree : q \in Within(v)
Mapped == {q \in PageNo : space[q] # None}

NewFile(p, e) ==
    /\ p > 0 /\ e <= Top /\ e = p + NPages(FSize[args.map_file])
    /\ \A q \in p..(e - 1) :
          /\ space[q] = [name |-> args.map_file, off |-> q - p, prot |-> MapProt]
          /\ ~Listed(q)
    /\ \A q \in Mapped : q \notin p..(e - 1) => Listed(q)

SnapshotInv ==
    /\ Steady /\ pc \notin {"parse", "open", "done"} => Whole
    /\ Steady /\ pc \notin {"parse", "open", "done", "map_close"} => \A q \in Mapped : Listed(q)
    /\ Steady /\ pc = "map_close" =>
          \/ \A q \in Mapped : Listed(q)
          \/ \E p \in PageNo, e \in Nat : NewFile(p, e)

JumpBytes == args.jmp_addr_from..(args.jmp_addr_from + JmpLen - 1)
JumpThere == \A a \in JumpBytes \cup {args.jmp_addr_to} : IsMapped(space, a)
DumpOf(v) == [i \in 1..((v.end - v.start) * PageSize) |-> v.start * PageSize + i - 1]

EffectsInv ==
    /\ pc \notin {"close", "done"} => written = {}
    /\ pc = "jmp_write" => args.jmp_addr_from # 0
    /\ Steady /\ pc = "jmp_write" => JumpThere
    /\ Steady /\ pc = "close" /\ args.jmp_addr_from # 0 =>
          written = IF JumpThere THEN JumpBytes ELSE {}
    /\ /\ Steady /\ pc \in {"dump_addr", "jmp", "jmp_write", "close"}
       /\ args.flag_dump_vma /\ ~args.flag_dump_addr /\ ~args.force
       => \A v \in FindVma(args.vma_addr) : output = DumpOf(v)

-----------------------------------------------------------------------------
LEMMA ArgsInit == CommandConstants /\ Init => ArgsInv
  <1> SUFFICES ASSUME CommandConstants, Init
               PROVE  ArgsInv
    OBVIOUS
  <1>1. ArgTypes(args)
    BY DEF Init, ArgTypes, Defaults, Prot
  <1>2. Asked(args) /\ Accepted(args)
    BY DEF Init, Asked, Accepted, Defaults
  <1>3. QED
    BY <1>1, <1>2 DEF Init, ArgsInv, Labels

LEMMA OptionKeepsTypes ==
    ASSUME CommandConstants, NEW o \in Options, ArgTypes(args)
    PROVE  ArgTypes(SetOption(o))
  <1>0. OptionTypes(o)
    BY DEF CommandConstants
  <1>1. o.opt = "dump" => ArgTypes(DumpOption(o))
    BY <1>0 DEF ArgTypes, DumpOption, Defaults, Or, OptionTypes, Number
  <1>2. o.opt = "jmp" => ArgTypes(JmpOption(o))
    BY <1>0 DEF ArgTypes, JmpOption, Defaults, Or, OptionTypes, Number
  <1>3. o.opt = "map" => ArgTypes(MapOption(o))
    BY <1>0 DEF ArgTypes, MapOption, Defaults, Or, OptionTypes, Number
  <1>4. o.opt = "unmap" => ArgTypes(UnmapOption(o))
    BY <1>0 DEF ArgTypes, UnmapOption, Defaults, Or, OptionTypes, Number
  <1>5. o.opt = "mprotect" => ArgTypes(MprotectOption(o))
    BY <1>0 DEF ArgTypes, MprotectOption, Defaults, Or, OptionTypes, Number
  <1>6. ArgTypes([args EXCEPT !.output_file = TRUE]) /\ ArgTypes([args EXCEPT !.force = TRUE])
    BY DEF ArgTypes, Defaults
  <1>7. o.opt \in {"dump", "jmp", "map", "unmap", "mprotect", "output", "force"}
    BY <1>0 DEF OptionTypes
  <1>8. QED
    BY <1>1, <1>2, <1>3, <1>4, <1>5, <1>6, <1>7 DEF SetOption

LEMMA OptionKeepsAsked ==
    ASSUME CommandConstants, NEW o \in Options, ArgTypes(args), Asked(args)
    PROVE  Asked(SetOption(o))
  <1>0. OptionTypes(o)
    BY DEF CommandConstants
  <1> DEFINE Same(g) == /\ g.mprotect_addr = args.mprotect_addr
                        /\ g.mprotect_len = args.mprotect_len
                        /\ g.mprotect_prot = args.mprotect_prot
  <1>1. Same(DumpOption(o)) /\ Same(JmpOption(o)) /\ Same(MapOption(o)) /\ Same(UnmapOption(o))
    BY DEF ArgTypes, DumpOption, JmpOption, MapOption, UnmapOption, Defaults
  <1>2. Same([args EXCEPT !.output_file = TRUE]) /\ Same([args EXCEPT !.force = TRUE])
    BY DEF ArgTypes, Defaults
  <1>3. o.opt = "mprotect" =>
          /\ Or(o.addr, MprotectOption(o).mprotect_addr) = MprotectOption(o).mprotect_addr
          /\ Or(o.len, MprotectOption(o).mprotect_len) = MprotectOption(o).mprotect_len
          /\ o.prot = MprotectOption(o).mprotect_prot
    BY DEF ArgTypes, MprotectOption, Defaults, Or
  <1>4. \A g : Same(g) => Asked(g)
    BY DEF Asked
  <1>5. o.opt = "mprotect" => Asked(MprotectOption(o))
    BY <1>3 DEF Asked
  <1>6. o.opt \in {"dump", "jmp", "map", "unmap", "mprotect", "output", "force"}
    BY <1>0 DEF OptionTypes
  <1>7. o.opt # "mprotect" => Same(SetOption(o))
    <2> HIDE DEF Same
    <2>1. QED
      BY <1>1, <1>2, <1>6 DEF SetOption
  <1>8. QED
    BY <1>4, <1>5, <1>6, <1>7, Zenon DEF SetOption

LEMMA OptionKeepsAccepted ==
    ASSUME CommandConstants, NEW o \in Options, ArgTypes(args), Accepted(args),
           OptionAccepted(o, SetOption(o))
    PROVE  Accepted(SetOption(o))
  <1>0. OptionTypes(o)
    BY DEF CommandConstants
  <1> DEFINE Region(g) == /\ g.mprotect_addr = args.mprotect_addr
                          /\ g.mprotect_len = args.mprotect_len
             Jump(g) == /\ g.jmp_addr_from = args.jmp_addr_from
                        /\ g.jmp_addr_to = args.jmp_addr_to
                        /\ g.flag_rdonly \in {args.flag_rdonly, FALSE}
  <1>1. /\ Region(DumpOption(o)) /\ Jump(DumpOption(o))
        /\ Region(MapOption(o)) /\ Jump(MapOption(o))
        /\ Region(UnmapOption(o)) /\ Jump(UnmapOption(o))
    BY DEF ArgTypes, DumpOption, JmpOption, MapOption, UnmapOption, Defaults
  <1>2. /\ Region([args EXCEPT !.output_file = TRUE]) /\ Jump([args EXCEPT !.output_file = TRUE])
        /\ Region([args EXCEPT !.force = TRUE]) /\ Jump([args EXCEPT !.force = TRUE])
    BY DEF ArgTypes, Defaults
  <1>3. Region(JmpOption(o)) /\ Jump(MprotectOption(o)) /\ ~JmpOption(o).flag_rdonly
    BY DEF ArgTypes, JmpOption, MprotectOption, Defaults
  <1>4. \A g : Region(g) /\ Jump(g) => Accepted(g)
    BY Zenon DEF Accepted
  <1>5. o.opt = "mprotect" => Accepted(MprotectOption(o))
    <2> SUFFICES ASSUME o.opt = "mprotect" PROVE Accepted(MprotectOption(o))
      OBVIOUS
    <2>1. MprotectAccepted(o, MprotectOption(o))
      BY DEF OptionAccepted, SetOption
    <2>2. QED
      BY <2>1, <1>3, Zenon DEF Accepted, MprotectAccepted
  <1>6. o.opt = "jmp" => Accepted(JmpOption(o))
    <2> SUFFICES ASSUME o.opt = "jmp" PROVE Accepted(JmpOption(o))
      OBVIOUS
    <2>1. JmpOption(o).jmp_addr_to # 0
      BY DEF OptionAccepted, SetOption
    <2>2. QED
      BY <2>1, <1>3 DEF Accepted
  <1>7. o.opt \in {"dump", "jmp", "map", "unmap", "mprotect", "output", "force"}
    BY <1>0, Zenon DEF OptionTypes
  <1>8. QED
    <2> HIDE DEF Region, Jump
    <2>1. QED
      BY <1>1, <1>2, <1>4, <1>5, <1>6, <1>7 DEF SetOption

LEMMA ArgsStep == ArgsInv /\ [Next]_vars => ArgsInv'
  <1> SUFFICES ASSUME ArgsInv, [Next]_vars
               PROVE  ArgsInv'
    OBVIOUS
  <1> USE DEF ArgsInv, Labels, session, effects, target, Goto
  <1>1. CASE UNCHANGED vars
    BY <1>1 DEF vars
  <1>2. ASSUME NEW p \in PageNo, AppUnmaps(p) \/ AppMaps(p)
        PROVE  ArgsInv'
    BY <1>2 DEF AppUnmaps, AppMaps
  <1>3. ASSUME NEW o \in Options, ParseOption(o)
        PROVE  ArgsInv'
    <2>1. ArgTypes(args') /\ Asked(args')
      BY <1>3, OptionKeepsTypes, OptionKeepsAsked DEF ParseOption
    <2>2. pc' # "done" => Accepted(args')
      BY <1>3, OptionKeepsAccepted DEF ParseOption
    <2>3. pc' \in {"parse", "done"}
      BY <1>3 DEF ParseOption
    <2>4. QED
      BY <2>1, <2>2, <2>3
  <1>4. CASE CheckArgs
    BY <1>4 DEF CheckArgs, ArgsAccepted
  <1>5. CASE OpenTask
    BY <1>5 DEF OpenTask
  <1>6. CASE MprotectARegion
    BY <1>6 DEF MprotectARegion
  <1>7. CASE MapOpen
    BY <1>7 DEF MapOpen, ArgTypes
  <1>8. CASE MapCall
    BY <1>8 DEF MapCall
  <1>9. CASE MapClose
    BY <1>9 DEF MapClose
  <1>10. CASE MunmapAnVma
    BY <1>10 DEF MunmapAnVma
  <1>11. CASE DumpVma \/ DumpAddr
    BY <1>11 DEF DumpVma, DumpAddr
  <1>12. CASE JmpRead \/ JmpWrite \/ CloseTask
    BY <1>12 DEF JmpRead, JmpWrite, CloseTask
  <1>13. QED
    BY <1>1, <1>2, <1>3, <1>4, <1>5, <1>6, <1>7, <1>8, <1>9, <1>10, <1>11, <1>12
       DEF Next

-----------------------------------------------------------------------------
LEMMA DivMod ==
    ASSUME NEW m \in Nat \ {0}, NEW a \in Int
    PROVE  /\ a = m * (a \div m) + (a % m)
           /\ a \div m \in Int /\ a % m \in 0..(m - 1)
  OBVIOUS

LEMMA DivIs ==
    ASSUME NEW m \in Nat \ {0}, NEW c \in Int, NEW k \in Int,
           m * k <= c, c < m * k + m
    PROVE  c \div m = k
  OBVIOUS

LEMMA LeastExists ==
    ASSUME NEW S, S \subseteq Nat, S # {}
    PROVE  \E x \in S : \A y \in S : x <= y
  <1>1. \E R : /\ IsWellFoundedOn(R, Nat)
               /\ \A x, y \in Nat : <<x, y>> \in R <=> x < y
    <2> DEFINE Q == OpToRel(<, Nat)
    <2>1. IsWellFoundedOn(Q, Nat)
      BY NatLessThanWellFounded
    <2>2. \A x, y \in Nat : <<x, y>> \in Q <=> x < y
      BY DEF OpToRel
    <2> HIDE DEF Q
    <2>3. QED
      BY <2>1, <2>2
  <1>2. PICK R : /\ IsWellFoundedOn(R, Nat)
                 /\ \A x, y \in Nat : <<x, y>> \in R <=> x < y
    BY <1>1
  <1>3. IsWellFoundedOn(R, Nat)
    BY <1>2
  <1>4. PICK x \in S : \A y \in S : ~(<<y, x>> \in R)
    BY <1>3, WFMin, Zenon
  <1>5. ASSUME NEW y \in S
        PROVE  x <= y
    <2>1. <<y, x>> \notin R
      BY <1>4
    <2>2. x \in Nat /\ y \in Nat
      OBVIOUS
    <2>3. ~(y < x)
      BY <1>2, <2>1, <2>2, Zenon
    <2>4. QED
      BY <2>2, <2>3
  <1>6. QED
    BY <1>5

LEMMA PageFacts ==
    ASSUME CommandConstants, NEW a \in Nat
    PROVE  PageOf(a) \in Nat /\ PageSize * PageOf(a) <= a /\ a < PageSize * PageOf(a) + PageSize
  <1>1. PageSize \in Nat \ {0} /\ a \in Int
    BY DEF CommandConstants
  <1>2. QED
    BY <1>1, DivMod DEF PageOf

(* The end of an aligned region.                                           *)
LEMMA PageOfEnd ==
    ASSUME CommandConstants, NEW a \in Nat, NEW l \in Nat,
           a % PageSize = 0, l % PageSize = 0
    PROVE  /\ PageOf(a) \in Nat /\ NPages(l) \in Nat
           /\ PageOf(a + l) = PageOf(a) + NPages(l)
  <1> DEFINE x == a \div PageSize
             y == l \div PageSize
             c == a + l
             d == l + PageSize - 1
             k == x + y
  <1>1. PageSize \in Nat \ {0}
    BY DEF CommandConstants
  <1>2. x \in Nat /\ y \in Nat /\ a = PageSize * x /\ l = PageSize * y
    BY <1>1, DivMod
  <1> HIDE DEF x, y
  <1>3. c \in Int /\ d \in Int /\ k \in Int /\ c = PageSize * k /\ d = PageSize * y + PageSize - 1
    BY <1>1, <1>2
  <1> HIDE DEF c, d, k
  <1>4. c \div PageSize = k
    BY <1>1, <1>3, DivIs
  <1>5. d \div PageSize = y
    BY <1>1, <1>2, <1>3, DivIs
  <1>6. QED
    BY <1>2, <1>4, <1>5 DEF c, d, k, x, PageOf, NPages

(* The units of the pages from s to e.                                     *)
LEMMA PageWithin ==
    ASSUME CommandConstants, NEW s \in Nat, NEW e \in Nat, s < e,
           NEW j \in 0..((e - s) * PageSize - 1)
    PROVE  PageOf(s * PageSize + j) \in s..(e - 1)
  <1> DEFINE c == s * PageSize + j
             k == PageOf(c)
  <1>1. PageSize \in Nat \ {0}
    BY DEF CommandConstants
  <1>2. (e - s) * PageSize = PageSize * e - PageSize * s /\ s * PageSize = PageSize * s
    BY <1>1
  <1>3. c \in Nat /\ PageSize * s <= c /\ c < PageSize * e
    BY <1>1, <1>2
  <1> HIDE DEF c
  <1>4. k \in Nat /\ PageSize * k <= c /\ c < PageSize * k + PageSize
    BY <1>3, PageFacts
  <1> HIDE DEF k
  <1>5. k < e
    <2> SUFFICES ASSUME k >= e PROVE FALSE
      BY <1>4
    <2>1. PageSize * k >= PageSize * e
      BY <1>1, <1>4
    <2>2. QED
      BY <2>1, <1>1, <1>3, <1>4
  <1>6. s <= k
    <2> SUFFICES ASSUME k + 1 <= s PROVE FALSE
      BY <1>4
    <2>1. PageSize * (k + 1) <= PageSize * s
      BY <1>1, <1>4
    <2>2. PageSize * (k + 1) = PageSize * k + PageSize
      BY <1>1, <1>4
    <2>3. QED
      BY <2>1, <2>2, <1>1, <1>3, <1>4
  <1>7. QED
    BY <1>4, <1>5, <1>6 DEF k, c

LEMMA NPagesNat ==
    ASSUME CommandConstants, NEW f \in File
    PROVE  NPages(FSize[f]) \in Nat
  <1>1. PageSize \in Nat \ {0} /\ FSize[f] \in Nat
    BY DEF CommandConstants
  <1>2. QED
    BY <1>1, Z3 DEF NPages

-----------------------------------------------------------------------------
LEMMA SpaceInit == CommandConstants /\ Init => SpaceInv
  <1> SUFFICES ASSUME CommandConstants, Init
               PROVE  SpaceInv
    OBVIOUS
  <1>1. QED
    BY DEF Init, SpaceInv, CommandConstants

LEMMA SpaceStep == ArgsInv /\ SpaceInv /\ [Next]_vars => SpaceInv'
  <1> SUFFICES ASSUME ArgsInv, SpaceInv, [Next]_vars
               PROVE  SpaceInv'
    OBVIOUS
  <1> USE DEF SpaceInv
  <1>0. CommandConstants
    BY DEF ArgsInv
  <1>1. CASE UNCHANGED vars
    BY <1>1 DEF vars, target
  <1>2. ASSUME NEW p \in PageNo, AppUnmaps(p)
        PROVE  SpaceInv'
    BY <1>2 DEF AppUnmaps
  <1>3. ASSUME NEW p \in PageNo, AppMaps(p)
        PROVE  SpaceInv'
    <2> DEFINE new == [name |-> "anon", off |-> p, prot |-> {"r", "w"}]
    <2>1. new \in Mapping /\ InFile(new)
      BY <1>0 DEF Mapping, InFile, Prot, PageNo, CommandConstants
    <2> HIDE DEF new
    <2>2. space' = [space EXCEPT ![p] = new] /\ changes' = changes + 1
      BY <1>3 DEF AppMaps, new
    <2>3. QED
      BY <2>1, <2>2
  <1>4. CASE MprotectARegion
    <2> DEFINE first == PageOf(args.mprotect_addr)
               n == NPages(args.mprotect_len)
    <2>1. \/ space' = space
          \/ space' = Protected(space, first, n, args.mprotect_prot)
      BY <1>4 DEF MprotectARegion
    <2>2. changes' = changes /\ pc' = "map"
      BY <1>4 DEF MprotectARegion, Goto
    <2>3. space' \in [PageNo -> Mapping \cup {None}]
          /\ \A p \in PageNo : space'[p] # None => InFile(space'[p])
      <3>1. CASE space' = space
        BY <3>1
      <3>2. CASE space' = Protected(space, first, n, args.mprotect_prot)
        <4> DEFINE With(p) == [space[p] EXCEPT !.prot = args.mprotect_prot]
        <4>1. \A p \in PageNo : space[p] # None => With(p) \in Mapping /\ InFile(With(p))
          BY DEF ArgsInv, ArgTypes, Mapping, InFile
        <4> HIDE DEF With
        <4>2. DOMAIN space' = PageNo /\ space' = [p \in PageNo |-> space'[p]]
          BY <3>2 DEF Protected
        <4>3. \A p \in PageNo : \/ space'[p] = space[p]
                                \/ space[p] # None /\ space'[p] = With(p)
          <5> SUFFICES ASSUME NEW p \in PageNo
                       PROVE  \/ space'[p] = space[p]
                              \/ space[p] # None /\ space'[p] = With(p)
            OBVIOUS
          <5>1. \A q \in first..(first + n - 1) : q \in first..q
            <6>1. first \in Int
              BY <1>0, PageFacts DEF ArgsInv, ArgTypes
            <6>2. QED
              BY <6>1
          <5>2. QED
            BY <3>2, <5>1 DEF Protected, With
        <4>4. QED
          BY <4>1, <4>2, <4>3
      <3>3. QED
        BY <2>1, <3>1, <3>2
    <2>4. QED
      BY <2>2, <2>3
  <1>5. CASE MapCall
    <2> DEFINE f == args.map_file
               n == NPages(FSize[f])
    <2>1. f \in File
      BY <1>5 DEF ArgsInv, MapCall
    <2>2. n \in Nat
      BY <1>0, <2>1, NPagesNat
    <2>3. changes' = changes /\ pc' = "map_close"
      BY <1>5 DEF MapCall, Goto
    <2>4. CASE space' = space
      BY <2>3, <2>4
    <2>5. CASE space' \in Mmap(space, f, args.map_addr, MapProt)
      <3>1. PICK p \in PageNo : space' = WithFile(space, f, p, n, MapProt)
        BY <2>5 DEF Mmap
      <3> DEFINE Page(q) == [name |-> f, off |-> q - p, prot |-> MapProt]
      <3>2. \A q \in p..(p + n - 1) : Page(q) \in Mapping /\ InFile(Page(q))
        <4> SUFFICES ASSUME NEW q \in p..(p + n - 1)
                     PROVE  Page(q) \in Mapping /\ InFile(Page(q))
          OBVIOUS
        <4>1. q - p \in Nat /\ q - p < n
          BY <2>2 DEF PageNo
        <4>2. MapProt \in Prot
          BY DEF MapProt, Prot
        <4>3. QED
          BY <2>1, <4>1, <4>2 DEF Mapping, InFile
      <3>3. \A q \in PageNo : space'[q] = IF q \in p..(p + n - 1) THEN Page(q) ELSE space[q]
        BY <3>1 DEF WithFile
      <3>4. DOMAIN space' = PageNo /\ space' = [q \in PageNo |-> space'[q]]
        BY <3>1 DEF WithFile
      <3> HIDE DEF Page, n
      <3>5. QED
        BY <2>3, <3>2, <3>3, <3>4
    <2>6. QED
      BY <1>5, <2>4, <2>5 DEF MapCall
  <1>6. CASE MunmapAnVma
    <2>1. changes' = changes /\ pc' = "dump_vma"
      BY <1>6 DEF MunmapAnVma, Goto
    <2>2. space' = space \/ \E p, n : space' = Unmapped(space, p, n)
      BY <1>6 DEF MunmapAnVma
    <2>3. QED
      BY <2>1, <2>2 DEF Unmapped
  <1>7. ASSUME NEW o \in Options, ParseOption(o)
        PROVE  SpaceInv'
    BY <1>7 DEF ParseOption, target
  <1>8. CASE CheckArgs \/ OpenTask \/ MapOpen \/ MapClose
    BY <1>8 DEF CheckArgs, OpenTask, MapOpen, MapClose, target, Goto
  <1>9. CASE DumpVma \/ DumpAddr \/ JmpRead \/ JmpWrite \/ CloseTask
    BY <1>9 DEF DumpVma, DumpAddr, JmpRead, JmpWrite, CloseTask, target, Goto
  <1>10. QED
    BY <1>1, <1>2, <1>3, <1>4, <1>5, <1>6, <1>7, <1>8, <1>9 DEF Next

-----------------------------------------------------------------------------
LEMMA AreaFacts ==
    ASSUME CommandConstants, NEW m, NEW a \in AreasOf(m)
    PROVE  /\ a \in MappedArea /\ a.start < a.end
           /\ a.start \in PageNo /\ a.end \in 1..Top /\ Top \in Nat
           /\ \A p \in a.start..(a.end - 1) :
                m[p] # None /\ m[p].name = a.name /\ (p > a.start <=> Continues(m, p))
           /\ a.end \in PageNo => ~Continues(m, a.end)
  BY DEF AreasOf, MappedArea, CommandConstants

(* Areas that overlap begin and end at the same pages.                     *)
LEMMA AreasApart ==
    ASSUME CommandConstants, NEW m
    PROVE  Apart(AreasOf(m))
  <1> SUFFICES ASSUME NEW a \in AreasOf(m), NEW b \in AreasOf(m), Overlap(a, b)
               PROVE  a = b
    BY DEF Apart
  <1>1. ASSUME NEW c \in AreasOf(m), NEW d \in AreasOf(m), Overlap(c, d)
        PROVE  ~(c.start < d.start) /\ ~(c.end < d.end)
    <2>1. c.start \in Int /\ c.end \in Int /\ d.start \in Int /\ d.end \in Int /\ Top \in Int
          /\ c.start < d.end /\ d.start < c.end /\ d.start < d.end /\ d.end <= Top /\ 1 <= c.end
      BY <1>1, AreaFacts DEF Overlap, PageNo
    <2>2. ~(c.start < d.start)
      <3> SUFFICES ASSUME c.start < d.start PROVE FALSE
        OBVIOUS
      <3>1. d.start \in c.start..(c.end - 1) /\ d.start > c.start
        BY <2>1
      <3>2. Continues(m, d.start)
        BY <3>1, AreaFacts
      <3>3. d.start \in d.start..(d.end - 1) /\ ~(d.start > d.start)
        BY <2>1
      <3>4. QED
        BY <3>2, <3>3, AreaFacts
    <2>3. ~(c.end < d.end)
      <3> SUFFICES ASSUME c.end < d.end PROVE FALSE
        OBVIOUS
      <3>1. c.end \in d.start..(d.end - 1) /\ c.end > d.start /\ c.end \in PageNo
        BY <2>1 DEF PageNo
      <3>2. QED
        BY <3>1, AreaFacts
    <2>4. QED
      BY <2>2, <2>3
  <1>2. a.start = b.start /\ a.end = b.end
    <2>1. Overlap(b, a)
      BY DEF Overlap
    <2>2. a.start \in Int /\ a.end \in Int /\ b.start \in Int /\ b.end \in Int
      BY AreaFacts DEF PageNo
    <2>3. QED
      BY <1>1, <2>1, <2>2
  <1>3. a.name = b.name
    <2>1. a.start \in a.start..(a.end - 1) /\ a.start \in b.start..(b.end - 1)
      BY <1>2, AreaFacts DEF PageNo
    <2>2. QED
      BY <2>1, AreaFacts
  <1>4. a \in MappedArea /\ b \in MappedArea
    BY AreaFacts
  <1>5. QED
    BY <1>2, <1>3, <1>4 DEF MappedArea

LEMMA TreeInit == Init => TreeInv
  BY DEF Init, TreeInv, Apart

LEMMA TreeStep == ArgsInv /\ TreeInv /\ [Next]_vars => TreeInv'
  <1> SUFFICES ASSUME ArgsInv, TreeInv, [Next]_vars
               PROVE  TreeInv'
    OBVIOUS
  <1>0. CommandConstants
    BY DEF ArgsInv
  <1>1. AreasOf(space) \subseteq {a \in MappedArea : a.start < a.end}
    BY DEF AreasOf, MappedArea
  <1>2. \/ tree' = tree \/ tree' = AreasOf(space) \/ tree' = Updated(space)
    BY Zenon DEF Next, vars, session, AppUnmaps, AppMaps, ParseOption, CheckArgs, OpenTask,
                 MprotectARegion, MapOpen, MapCall, MapClose, MunmapAnVma, DumpVma, DumpAddr,
                 JmpRead, JmpWrite, CloseTask
  <1>3. CASE tree' = tree
    BY <1>3 DEF TreeInv, Apart
  <1>4. CASE tree' = AreasOf(space)
    BY <1>0, <1>1, <1>4, AreasApart DEF TreeInv
  <1>5. CASE tree' = Updated(space)
    <2>1. Apart(AreasOf(space)) /\ Apart(tree)
      BY <1>0, AreasApart DEF TreeInv
    <2>2. \A a, b : Overlap(a, b) => Overlap(b, a)
      BY DEF Overlap
    <2>3. Apart(Updated(space))
      <3> SUFFICES ASSUME NEW a \in Updated(space), NEW b \in Updated(space), Overlap(a, b)
                   PROVE  a = b
        BY DEF Apart
      <3>1. CASE a \in tree /\ b \in tree
        BY <2>1, <3>1 DEF Apart
      <3>2. CASE a \notin tree
        BY <2>1, <2>2, <3>2, Zenon DEF Updated, Apart
      <3>3. CASE b \notin tree
        BY <2>1, <2>2, <3>3, Zenon DEF Updated, Apart
      <3>4. QED
        BY <3>1, <3>2, <3>3
    <2>4. QED
      BY <1>1, <1>5, <2>3 DEF TreeInv, Updated
  <1>6. QED
    BY <1>2, <1>3, <1>4, <1>5

(* find_vma() finds one area at most.                                      *)
LEMMA FoundIsOne ==
    ASSUME CommandConstants, TreeInv, NEW a \in Nat, NEW v \in FindVma(a), NEW w \in FindVma(a)
    PROVE  v = w
  <1>1. v \in MappedArea /\ w \in MappedArea /\ v \in tree /\ w \in tree /\ PageOf(a) \in Nat
    BY PageFacts DEF TreeInv, FindVma
  <1>2. Overlap(v, w)
    <2>1. /\ v.start <= PageOf(a) /\ PageOf(a) < v.end
          /\ w.start <= PageOf(a) /\ PageOf(a) < w.end
      BY DEF FindVma
    <2>2. v.start \in Int /\ w.start \in Int /\ v.end \in Int /\ w.end \in Int
      BY <1>1 DEF MappedArea, PageNo
    <2>3. QED
      BY <1>1, <2>1, <2>2 DEF Overlap
  <1>3. QED
    BY <1>1, <1>2 DEF TreeInv, Apart

LEMMA UnmapTakesTheArea ==
    ASSUME ArgsInv, SpaceInv, TreeInv, MunmapAnVma,
           NEW v \in FindVma(args.unmap_addr) \cap AreasOf(space),
           v.name \in File => v.end - v.start = NPages(FSize[v.name])
    PROVE  {p \in PageNo : space'[p] # space[p]} \in {{}, v.start..(v.end - 1)}
  <1>0. CommandConstants /\ args.unmap_addr \in Nat
    BY DEF ArgsInv, ArgTypes
  <1>1. CASE space' = space
    BY <1>1
  <1>2. CASE \E w \in FindVma(args.unmap_addr) : space' = Unmapped(space, w.start, UnmapPages(w))
    <2>1. space' = Unmapped(space, v.start, UnmapPages(v))
      BY <1>0, <1>2, FoundIsOne
    <2>2. UnmapPages(v) = v.end - v.start
      BY DEF UnmapPages
    <2>3. v.start \in PageNo /\ v.end \in 1..Top /\ Top \in Nat
          /\ \A p \in v.start..(v.end - 1) : space[p] # None
      BY <1>0, AreaFacts
    <2>4. v.start + (v.end - v.start) - 1 = v.end - 1 /\ v.start..(v.end - 1) \subseteq PageNo
      BY <2>3 DEF PageNo
    <2>5. \A p \in PageNo : space'[p] = IF p \in v.start..(v.end - 1) THEN None ELSE space[p]
      BY <2>1, <2>2, <2>4 DEF Unmapped
    <2>6. {p \in PageNo : space'[p] # space[p]} = v.start..(v.end - 1)
      BY <2>3, <2>4, <2>5
    <2>7. QED
      BY <2>6
  <1>3. QED
    BY <1>1, <1>2 DEF MunmapAnVma

-----------------------------------------------------------------------------
(* mprotect_a_region() meets what --mprotect promises.                     *)
LEMMA MprotectIsExact ==
    ASSUME ArgsInv, SpaceInv, MprotectARegion
    PROVE  ProtectExact'
  <1>0. CommandConstants
    BY DEF ArgsInv
  <1> SUFFICES ASSUME changes = 0, args.mprotect_addr # 0
               PROVE  ProtectExact'
    BY DEF ProtectExact, MprotectARegion
  <1> DEFINE addr == args.mprotect_addr
             len == args.mprotect_len
             prot == args.mprotect_prot
             first == PageOf(addr)
             n == NPages(len)
             region == first..(PageOf(addr + len) - 1)
             asked(p) == [Layout[p] EXCEPT !.prot = prot]
             whole == \A p \in first..(first + n - 1) : p \in PageNo /\ space[p] # None
  <1>1. space = Layout /\ pc = "mprotect"
    BY DEF SpaceInv, MprotectARegion
  <1>2. first \in Nat /\ n \in Nat /\ PageOf(addr + len) = first + n
    BY <1>0, <1>1, PageOfEnd DEF ArgsInv, ArgTypes, Accepted
  <1>3. args' = args
    BY DEF MprotectARegion
  <1>4. \E o \in {o \in Options : o.opt = "mprotect"} :
          Or(o.addr, addr) = addr /\ Or(o.len, len) = len /\ o.prot = prot
    BY DEF ArgsInv, Asked
  <1> DEFINE Same == \A p \in PageNo : space'[p] = Layout[p]
             Done(p) == p \in first..(first + n - 1)
                        /\ \A q \in first..p : q \in PageNo /\ space[q] # None
             Changed == \A p \in PageNo : space'[p] = IF Done(p) THEN asked(p) ELSE Layout[p]
  <1>5. (Same /\ ret' = 1) \/ (Changed /\ (~whole => ret' = 1))
    <2>1. Same = (\A p \in PageNo : space'[p] = Layout[p])
      OBVIOUS
    <2>2. space' = Protected(space, first, n, prot) => Changed
      BY <1>1 DEF Protected
    <2>3. space' = space => Same
      BY <1>1
    <2> HIDE DEF Same, Changed
    <2>4. QED
      BY <2>2, <2>3 DEF MprotectARegion
  <1>6. \A p \in PageNo \ region : space'[p] = Layout[p]
    <2>1. \A p \in PageNo \ region : ~Done(p)
      BY <1>2
    <2>2. QED
      BY <1>5, <2>1, Zenon
  <1>7. \A p \in region \cap PageNo : Layout[p] # None =>
          space'[p] = asked(p) \/ (ret' = 1 /\ space'[p] = Layout[p])
    <2>1. whole => \A p \in region \cap PageNo : Done(p)
      BY <1>2 DEF PageNo
    <2> HIDE DEF whole, Done, asked
    <2>2. QED
      BY <1>5, <2>1
  <1>8. QED
    <2> HIDE DEF Same, Changed, Done, whole
    <2>1. QED
      BY <1>3, <1>4, <1>6, <1>7 DEF ProtectExact

LEMMA ProtectStep == ArgsInv /\ SpaceInv /\ ProtectExact /\ [Next]_vars => ProtectExact'
  <1> SUFFICES ASSUME ArgsInv, SpaceInv, ProtectExact, [Next]_vars
               PROVE  ProtectExact'
    OBVIOUS
  <1>1. CASE MprotectARegion
    BY <1>1, MprotectIsExact
  <1>2. CASE UNCHANGED vars
    BY <1>2 DEF vars, session, target, ProtectExact
  <1>3. CASE Next /\ ~MprotectARegion
    <2>1. pc' # "map" \/ changes' = changes + 1
      BY <1>3, Zenon DEF ArgsInv, Labels, Next, AppUnmaps, AppMaps, ParseOption, CheckArgs, OpenTask,
             MapOpen, MapCall, MapClose, MunmapAnVma, DumpVma, DumpAddr, JmpRead, JmpWrite,
             CloseTask, Goto
    <2>2. changes + 1 # 0
      BY DEF SpaceInv
    <2>3. QED
      BY <2>1, <2>2 DEF ProtectExact
  <1>4. QED
    BY <1>1, <1>2, <1>3

-----------------------------------------------------------------------------
(* Every mapped page is in one of the areas: the run of pages that         *)
(* continue each other around it.                                          *)
LEMMA AreasCover ==
    ASSUME CommandConstants, NEW m \in [PageNo -> Mapping \cup {None}],
           NEW p \in PageNo, m[p] # None
    PROVE  \E a \in AreasOf(m) : p \in Within(a)
  <1>1. Top \in Nat /\ p \in Nat /\ p < Top
    BY DEF CommandConstants, PageNo
  <1>2. PICK s \in 0..p : ~Continues(m, s) /\ \A q \in (s + 1)..p : Continues(m, q)
    <2> DEFINE S == {d \in 0..p : ~Continues(m, p - d)}
    <2>1. S \subseteq Nat
      OBVIOUS
    <2>2. p \in S
      BY <1>1 DEF Continues
    <2>3. PICK d \in S : \A x \in S : d <= x
      BY <2>1, <2>2, LeastExists, Zenon
    <2>4. ASSUME NEW q \in (p - d + 1)..p PROVE Continues(m, q)
      <3>1. p - q \in 0..p /\ p - (p - q) = q /\ ~(d <= p - q)
        BY <1>1
      <3>2. p - q \notin S
        BY <2>3, <3>1, Zenon
      <3>3. QED
        BY <3>1, <3>2
    <2>5. p - d \in 0..p /\ ~Continues(m, p - d)
      BY <1>1
    <2>6. QED
      BY <2>4, <2>5
  <1>3. PICK e \in (p + 1)..Top : /\ e \in PageNo => ~Continues(m, e)
                                  /\ \A q \in (p + 1)..(e - 1) : Continues(m, q)
    <2> DEFINE S == {x \in (p + 1)..Top : x \in PageNo => ~Continues(m, x)}
    <2>1. S \subseteq Nat /\ Top \in S
      BY <1>1 DEF PageNo
    <2>2. PICK e \in S : \A x \in S : e <= x
      BY <2>1, LeastExists, Zenon
    <2>3. ASSUME NEW q \in (p + 1)..(e - 1) PROVE Continues(m, q)
      <3>1. q \in (p + 1)..Top /\ ~(e <= q)
        BY <1>1
      <3>2. q \notin S
        BY <2>2, <3>1, Zenon
      <3>3. QED
        BY <3>1, <3>2
    <2>4. QED
      BY <2>3
  <1>4. s \in Nat /\ e \in Nat /\ p \in Nat /\ s <= p /\ p < e /\ e <= Top /\ Top \in Nat
    BY <1>1
  <1>5. \A q \in s..(e - 1) : q > s <=> Continues(m, q)
    <2> SUFFICES ASSUME NEW q \in s..(e - 1)
                 PROVE  q > s <=> Continues(m, q)
      OBVIOUS
    <2>1. q = s \/ q \in (s + 1)..p \/ q \in (p + 1)..(e - 1)
      BY <1>4
    <2>2. q \in (s + 1)..p => q > s /\ Continues(m, q)
      BY <1>2, <1>4
    <2>3. q \in (p + 1)..(e - 1) => q > s /\ Continues(m, q)
      BY <1>3, <1>4
    <2>4. QED
      BY <1>2, <1>4, <2>1, <2>2, <2>3
  <1>6. m[s] # None
    <2>1. CASE s = p
      BY <2>1
    <2>2. CASE s < p
      <3>1. Continues(m, s + 1) /\ s + 1 - 1 = s
        BY <1>2, <1>4, <2>2
      <3>2. QED
        BY <3>1 DEF Continues
    <2>3. QED
      BY <1>4, <2>1, <2>2
  <1>7. \A q \in s..(e - 1) : m[q] # None /\ m[q].name = m[s].name
    <2> DEFINE C == {q \in s..(e - 1) : ~(m[q] # None /\ m[q].name = m[s].name)}
    <2> SUFFICES ASSUME C # {} PROVE FALSE
      OBVIOUS
    <2>1. C \subseteq Nat
      BY <1>4
    <2>2. PICK x \in C : \A y \in C : x <= y
      BY <2>1, LeastExists, Zenon
    <2>3. x \in s..(e - 1) /\ x > s
      BY <1>4, <1>6
    <2>4. x - 1 \in s..(e - 1) /\ ~(x <= x - 1) /\ x - 1 \in PageNo
      BY <1>4, <2>3 DEF PageNo
    <2>5. x - 1 \notin C
      BY <2>2, <2>4, Zenon
    <2>6. m[x - 1] # None /\ m[x - 1].name = m[s].name
      BY <2>4, <2>5
    <2>7. m[x] # None /\ m[x] = [m[x - 1] EXCEPT !.off = @ + 1]
      BY <1>5, <2>3 DEF Continues
    <2>8. m[x - 1] \in Mapping
      BY <2>4, <2>6
    <2>9. m[x].name = m[x - 1].name
      BY <2>7, <2>8 DEF Mapping
    <2>10. QED
      BY <2>6, <2>7, <2>9, Zenon
  <1> DEFINE a == [start |-> s, end |-> e, name |-> m[s].name]
  <1>8. a.start = s /\ a.end = e /\ a.name = m[s].name /\ a \in MappedArea
    <2>1. s \in PageNo /\ e \in 1..Top
      BY <1>1, <1>4 DEF PageNo
    <2>2. m[s].name \in File \cup {"anon"}
      BY <1>6, <2>1 DEF Mapping
    <2>3. QED
      BY <2>1, <2>2 DEF MappedArea
  <1> HIDE DEF a
  <1>9. a \in AreasOf(m)
    BY <1>3, <1>4, <1>5, <1>7, <1>8 DEF AreasOf, MappedArea
  <1>10. p \in Within(a)
    BY <1>4, <1>8 DEF Within
  <1>11. QED
    BY <1>9, <1>10

LEMMA AreasWhole ==
    ASSUME CommandConstants, NEW m, NEW a \in AreasOf(m), NEW q \in Within(a)
    PROVE  m[q] # None
  BY AreaFacts DEF Within

(* Two areas that share no page do not overlap.                            *)
LEMMA SharedPage ==
    ASSUME CommandConstants, NEW a \in MappedArea, NEW b \in MappedArea, a.start < a.end, b.start < b.end,
           Overlap(a, b)
    PROVE  \E q \in Within(a) : q \in Within(b)
  <1>1. a.start \in Int /\ a.end \in Int /\ b.start \in Int /\ b.end \in Int
    BY DEF MappedArea, PageNo
  <1>2. CASE a.start <= b.start
    <2>1. b.start \in Within(a) /\ b.start \in Within(b)
      BY <1>1, <1>2 DEF Within, Overlap
    <2>2. QED
      BY <2>1
  <1>3. CASE b.start <= a.start
    <2>1. a.start \in Within(a) /\ a.start \in Within(b)
      BY <1>1, <1>3 DEF Within, Overlap
    <2>2. QED
      BY <2>1
  <1>4. QED
    BY <1>1, <1>2, <1>3

(* A file just mapped is an area of its own: it joins neither the page     *)
(* before it, as its first page is that of the file, nor the page after.   *)
LEMMA NewFileIsArea ==
    ASSUME CommandConstants, SpaceInv, args.map_file \in File,
           NEW p \in PageNo, NEW e \in Nat, p < e, NewFile(p, e)
    PROVE  [start |-> p, end |-> e, name |-> args.map_file] \in AreasOf(space)
  <1> DEFINE f == args.map_file
             a == [start |-> p, end |-> e, name |-> f]
  <1>1. Top \in Nat /\ p \in Nat /\ p > 0 /\ e <= Top /\ e - p = NPages(FSize[f])
    BY NPagesNat DEF CommandConstants, NewFile, PageNo
  <1>2. \A q \in p..(e - 1) : space[q] = [name |-> f, off |-> q - p, prot |-> MapProt]
    BY Zenon DEF NewFile
  <1>3. \A q \in p..(e - 1) : q \in PageNo /\ space[q].name = f /\ space[q].off = q - p
                                  /\ space[q].prot = MapProt /\ space[q] # None
    <2>1. \A q \in p..(e - 1) : q \in PageNo /\ q - p \in Nat
      BY <1>1 DEF PageNo
    <2>2. MapProt \in Prot /\ None \notin Mapping
      BY DEF MapProt, Prot, CommandConstants
    <2>3. \A q \in p..(e - 1) : [name |-> f, off |-> q - p, prot |-> MapProt] \in Mapping
      BY <2>1, <2>2 DEF Mapping
    <2>4. ASSUME NEW q \in p..(e - 1)
          PROVE  q \in PageNo /\ space[q].name = f /\ space[q].off = q - p
                 /\ space[q].prot = MapProt /\ space[q] # None
      <3>1. space[q] = [name |-> f, off |-> q - p, prot |-> MapProt]
        BY <1>2
      <3>2. space[q] # None
        BY <2>2, <2>3, <3>1, Zenon
      <3>3. QED
        BY <2>1, <3>1, <3>2
    <2>5. QED
      BY <2>4, Zenon
  <1>4. \A q \in p..(e - 1) : q > p => Continues(space, q)
    <2> SUFFICES ASSUME NEW q \in p..(e - 1), q > p
                 PROVE  Continues(space, q)
      OBVIOUS
    <2>1. q - 1 \in p..(e - 1) /\ q - p = (q - 1 - p) + 1
      BY <1>1
    <2>2. space[q] = [space[q - 1] EXCEPT !.off = @ + 1]
      <3> DEFINE k == q - 1 - p
      <3>1. space[q - 1] = [name |-> f, off |-> k, prot |-> MapProt]
        BY <1>2, <2>1
      <3>2. space[q] = [name |-> f, off |-> q - p, prot |-> MapProt] /\ q - p = k + 1
        BY <1>2, <2>1
      <3> HIDE DEF k
      <3>3. QED
        BY <3>1, <3>2
    <2>3. QED
      BY <1>1, <1>3, <2>1, <2>2 DEF Continues
  <1>5. ~Continues(space, p)
    <2> SUFFICES ASSUME Continues(space, p) PROVE FALSE
      OBVIOUS
    <2>1. p - 1 \in PageNo
      BY <1>1 DEF PageNo
    <2>2. space[p - 1] \in Mapping /\ space[p] = [space[p - 1] EXCEPT !.off = @ + 1]
      BY <2>1 DEF Continues, SpaceInv
    <2>3. space[p].off = space[p - 1].off + 1 /\ space[p - 1].off \in Nat
      BY <2>2 DEF Mapping
    <2>4. space[p].off = 0
      BY <1>1, <1>3
    <2>5. QED
      BY <2>3, <2>4
  <1>6. e \in PageNo => ~Continues(space, e)
    <2> SUFFICES ASSUME e \in PageNo, Continues(space, e) PROVE FALSE
      OBVIOUS
    <2> DEFINE l == e - 1
    <2>1. l \in p..(e - 1) /\ l - p + 1 = e - p
      BY <1>1
    <2>2. space[l].name = f /\ space[l].off + 1 = e - p /\ space[l] \in Mapping
      BY <1>3, <2>1 DEF SpaceInv
    <2>3. space[e] = [space[l] EXCEPT !.off = @ + 1] /\ space[e] # None
      BY DEF Continues
    <2> HIDE DEF l
    <2>4. space[e].name = f /\ space[e].off = e - p
      BY <2>2, <2>3 DEF Mapping
    <2>5. InFile(space[e])
      BY <2>3 DEF SpaceInv
    <2>6. QED
      BY <1>1, <2>4, <2>5 DEF InFile
  <1>7. a.start = p /\ a.end = e /\ a.name = f /\ a \in MappedArea
    BY <1>1 DEF MappedArea, PageNo
  <1> HIDE DEF a
  <1>8. a \in AreasOf(space)
    <2>1. \A q \in p..(e - 1) : q > p <=> Continues(space, q)
      BY <1>1, <1>4, <1>5
    <2>3. \A q \in a.start..(a.end - 1) :
            space[q] # None /\ space[q].name = a.name /\ (q > a.start <=> Continues(space, q))
      BY <1>3, <1>7, <2>1, Zenon
    <2>4. a.start < a.end /\ (a.end \in PageNo => ~Continues(space, a.end))
      BY <1>6, <1>7
    <2>5. QED
      BY <1>7, <2>3, <2>4, Zenon DEF AreasOf, MappedArea
  <1>9. QED
    BY <1>8, Zenon DEF a

LEMMA SnapshotInit == Init => SnapshotInv
  BY DEF Init, SnapshotInv

(* What SnapshotInv says is kept by a step that changes neither the table nor *)
(* which pages are mapped.                                                 *)
LEMMA SnapshotSame ==
    ASSUME SnapshotInv, tree' = tree, args' = args, changes' = changes,
           \A q \in PageNo : (space'[q] # None) <=> (space[q] # None),
           pc \notin {"parse", "open", "done", "map_close"}, pc' # "map_close",
           TreeInv, CommandConstants
    PROVE  SnapshotInv'
  <1>1. \A v \in tree : Within(v) \subseteq PageNo
    BY DEF TreeInv, MappedArea, Within, PageNo, CommandConstants
  <1>2. Whole => Whole'
    BY <1>1 DEF Whole, Within
  <1>3. Mapped' = Mapped
    BY DEF Mapped
  <1>4. \A q : Listed(q)' <=> Listed(q)
    BY DEF Listed, Within
  <1>5. Steady' = Steady
    BY DEF Steady
  <1>6. QED
    BY <1>2, <1>3, <1>4, <1>5, Zenon DEF SnapshotInv

LEMMA OpenListsAll ==
    ASSUME ArgsInv, SpaceInv, space' = space, tree' = AreasOf(space), pc' = "mprotect"
    PROVE  SnapshotInv'
  <1>0. CommandConstants
    BY DEF ArgsInv
  <1>1. Whole'
    BY <1>0, AreasWhole DEF Whole, Within
  <1>2. \A q \in Mapped' : Listed(q)'
    BY <1>0, AreasCover DEF Mapped, Listed, Within, SpaceInv
  <1>3. QED
    BY <1>1, <1>2 DEF SnapshotInv

LEMMA MapCallTable ==
    ASSUME ArgsInv, SpaceInv, TreeInv, SnapshotInv, MapCall
    PROVE  SnapshotInv'
  <1> DEFINE f == args.map_file
  <1>0. CommandConstants /\ f \in File
    BY DEF ArgsInv, MapCall
  <1>1. pc = "map_call" /\ pc' = "map_close" /\ tree' = tree /\ args' = args /\ changes' = changes
    BY DEF MapCall, Goto
  <1> SUFFICES ASSUME Steady
               PROVE  /\ Whole'
                      /\ \/ \A q \in Mapped' : Listed(q)'
                         \/ \E p \in PageNo, e \in Nat : NewFile(p, e)'
    BY <1>1 DEF SnapshotInv, Steady
  <1>2. Whole /\ \A q \in Mapped : Listed(q)
    BY <1>1 DEF SnapshotInv
  <1>3. \A v \in tree : Within(v) \subseteq PageNo
    BY <1>0 DEF TreeInv, MappedArea, Within, PageNo, CommandConstants
  <1>4. \A q : Listed(q)' <=> Listed(q)
    BY <1>1 DEF Listed, Within
  <1>5. CASE space' = space
    BY <1>1, <1>2, <1>4, <1>5 DEF Whole, Within, Mapped
  <1>6. CASE space' \in Mmap(space, f, args.map_addr, MapProt)
    <2>1. PICK p \in PageNo, n \in Nat :
            /\ n = NPages(FSize[f])
            /\ FreeRun(space, p, n) /\ space' = WithFile(space, f, p, n, MapProt)
      BY <1>0, <1>6, NPagesNat DEF Mmap
    <2>2. PICK e \in Nat : e = p + n /\ p..(p + n - 1) = p..(e - 1)
      BY DEF PageNo
    <2>3. p > 0 /\ e <= Top /\ \A q \in p..(e - 1) : space[q] = None
      BY <2>1, <2>2, Zenon DEF FreeRun
    <2>4. \A q \in p..(e - 1) : q \in PageNo /\ ~Listed(q)
      <3>1. \A q \in p..(e - 1) : q \in PageNo
        BY <1>0, <2>2, <2>3 DEF PageNo, CommandConstants
      <3>2. QED
        BY <1>2, <2>3, <3>1 DEF Whole, Listed
    <2> DEFINE Page(q) == [name |-> f, off |-> q - p, prot |-> MapProt]
    <2>5. \A q \in PageNo : space'[q] = IF q \in p..(e - 1) THEN Page(q) ELSE space[q]
      BY <2>1, <2>2, Zenon DEF WithFile
    <2>6. Whole'
      <3>1. ASSUME NEW v \in tree, NEW q \in Within(v)
            PROVE  space'[q] # None
        <4>1. q \in PageNo /\ Listed(q) /\ space[q] # None
          BY <1>2, <1>3, <3>1 DEF Whole, Listed
        <4>2. q \notin p..(e - 1)
          BY <2>4, <4>1
        <4>3. QED
          BY <2>5, <4>1, <4>2, Zenon
      <3>2. QED
        BY <1>1, <3>1 DEF Whole, Within
    <2>7. \A q \in Mapped' : q \notin p..(e - 1) => Listed(q)'
      BY <1>2, <1>4, <2>5, Zenon DEF Mapped
    <2>8. MapProt' = MapProt
      BY <1>1 DEF MapProt
    <2>9. \A q \in p..(e - 1) :
            space'[q] = [name |-> args'.map_file, off |-> q - p, prot |-> MapProt'] /\ ~Listed(q)'
      <3>1. \A q \in p..(e - 1) : space'[q] = Page(q)
        BY <2>4, <2>5
      <3>2. QED
        BY <1>1, <1>4, <2>4, <2>8, <3>1, Zenon
    <2>10. e = p + NPages(FSize[args'.map_file])
      BY <1>1, <2>1, <2>2, Zenon
    <2>11. NewFile(p, e)'
      BY <2>3, <2>7, <2>9, <2>10, Zenon DEF NewFile
    <2>12. QED
      BY <2>2, <2>6, <2>11
  <1>7. QED
    BY <1>5, <1>6 DEF MapCall

LEMMA MapCloseTable ==
    ASSUME ArgsInv, SpaceInv, TreeInv, SnapshotInv, MapClose
    PROVE  SnapshotInv'
  <1>0. CommandConstants /\ args.map_file \in File
    BY DEF ArgsInv, MapClose
  <1>1. /\ pc = "map_close" /\ pc' = "unmap" /\ tree' = Updated(space)
        /\ space' = space /\ args' = args /\ changes' = changes
    BY DEF MapClose, Goto, target
  <1> SUFFICES ASSUME Steady
               PROVE  Whole' /\ \A q \in Mapped' : Listed(q)'
    BY <1>1 DEF SnapshotInv, Steady
  <1>2. Whole /\ (\/ \A q \in Mapped : Listed(q)
                  \/ \E p \in PageNo, e \in Nat : NewFile(p, e))
    BY <1>1 DEF SnapshotInv
  <1>3. Whole'
    <2>1. ASSUME NEW v \in Updated(space), NEW q \in Within(v)
          PROVE  space[q] # None
      BY <1>0, <1>2, <2>1, AreasWhole DEF Updated, Whole
    <2>2. QED
      BY <1>1, <2>1 DEF Whole, Within
  <1>4. \A q : Listed(q) => Listed(q)'
    BY <1>1 DEF Listed, Within, Updated
  <1>5. Mapped' = Mapped
    BY <1>1 DEF Mapped
  <1>6. CASE \A q \in Mapped : Listed(q)
    BY <1>3, <1>4, <1>5, <1>6
  <1>7. ASSUME NEW p \in PageNo, NEW e \in Nat, NewFile(p, e)
        PROVE  \A q \in Mapped : Listed(q)'
    <2>1. CASE ~(p < e)
      <3>1. p..(e - 1) = {}
        BY <2>1 DEF PageNo
      <3>2. QED
        BY <1>4, <1>7, <3>1 DEF NewFile
    <2>2. CASE p < e
      <3> DEFINE a == [start |-> p, end |-> e, name |-> args.map_file]
      <3>1. a \in AreasOf(space)
        BY <1>0, <1>7, <2>2, NewFileIsArea
      <3>2. a.start = p /\ a.end = e /\ a \in MappedArea /\ a.start < a.end /\ Within(a) = p..(e - 1)
        <4>1. a \in MappedArea /\ a.start < a.end
          BY <1>0, <3>1, AreaFacts
        <4>2. a.start = p /\ a.end = e
          OBVIOUS
        <4> HIDE DEF a
        <4>3. QED
          BY <4>1, <4>2, Zenon DEF Within
      <3> HIDE DEF a
      <3>3. ASSUME NEW b \in tree
            PROVE  ~Overlap(a, b)
        <4> SUFFICES ASSUME Overlap(a, b) PROVE FALSE
          OBVIOUS
        <4>1. b \in MappedArea /\ b.start < b.end
          BY DEF TreeInv
        <4>2. PICK q \in Within(a) : q \in Within(b)
          BY <1>0, <3>2, <4>1, SharedPage, Zenon
        <4>3. QED
          BY <1>7, <3>2, <4>2, Zenon DEF NewFile, Listed
      <3>4. a \in tree'
        BY <1>1, <3>1, <3>3 DEF Updated
      <3>5. \A q \in p..(e - 1) : Listed(q)'
        BY <3>2, <3>4, Zenon DEF Listed, Within
      <3>6. QED
        BY <1>4, <1>7, <3>5 DEF NewFile
    <2>3. QED
      BY <2>1, <2>2
  <1>8. QED
    BY <1>2, <1>3, <1>5, <1>6, <1>7

LEMMA SnapshotStep ==
    ArgsInv /\ SpaceInv /\ TreeInv /\ SnapshotInv /\ [Next]_vars => SnapshotInv'
  <1> SUFFICES ASSUME ArgsInv, SpaceInv, TreeInv, SnapshotInv, [Next]_vars
               PROVE  SnapshotInv'
    OBVIOUS
  <1>0. CommandConstants
    BY DEF ArgsInv
  <1>1. CASE UNCHANGED vars
    <2>1. UNCHANGED <<space, changes, args, pc, tree>>
      BY <1>1 DEF vars, target, session
    <2>2. Steady' = Steady /\ Whole' = Whole /\ Mapped' = Mapped /\ MapProt' = MapProt
      BY <2>1 DEF Steady, Whole, Within, Mapped, MapProt
    <2>3. \A q : Listed(q)' = Listed(q)
      BY <2>1, Zenon DEF Listed, Within
    <2>4. \A p, e : NewFile(p, e)' = NewFile(p, e)
      BY <2>1, <2>2, <2>3 DEF NewFile
    <2>5. QED
      BY <2>1, <2>2, <2>3, <2>4, Zenon DEF SnapshotInv
  <1>2. ASSUME NEW p \in PageNo, AppUnmaps(p) \/ AppMaps(p)
        PROVE  SnapshotInv'
    <2>1. changes' # 0
      BY <1>2 DEF AppUnmaps, AppMaps, SpaceInv
    <2>2. QED
      BY <2>1, Zenon DEF SnapshotInv, Steady
  <1>3. ASSUME NEW o \in Options, ParseOption(o)
        PROVE  SnapshotInv'
    BY <1>3 DEF ParseOption, SnapshotInv
  <1>4. CASE CheckArgs
    BY <1>4 DEF CheckArgs, SnapshotInv
  <1>5. CASE OpenTask
    <2>1. pc' = "done" \/ (pc' = "mprotect" /\ space' = space /\ tree' = AreasOf(space))
      BY <1>5 DEF OpenTask, Goto, target
    <2>2. QED
      BY <2>1, OpenListsAll DEF SnapshotInv
  <1>6. CASE MprotectARegion
    <2>1. /\ pc = "mprotect" /\ pc' = "map" /\ UNCHANGED <<tree, args, changes>>
          /\ \/ space' = space
             \/ space' = Protected(space, PageOf(args.mprotect_addr), NPages(args.mprotect_len),
                                   args.mprotect_prot)
      BY <1>6 DEF MprotectARegion, Goto
    <2>2. \A q \in PageNo : (space'[q] # None) <=> (space[q] # None)
      <3>1. CASE space' = space
        BY <3>1
      <3>2. CASE space' # space
        <4> SUFFICES ASSUME NEW q \in PageNo
                     PROVE  (space'[q] # None) <=> (space[q] # None)
          OBVIOUS
        <4> DEFINE new == [space[q] EXCEPT !.prot = args.mprotect_prot]
        <4>1. space[q] # None => new \in Mapping /\ new # None
          BY <1>0, Zenon DEF SpaceInv, Mapping, ArgsInv, ArgTypes, CommandConstants
        <4>2. PageOf(args.mprotect_addr) \in Int /\ q \in Int
          BY <1>0, PageFacts DEF ArgsInv, ArgTypes, PageNo
        <4>3. space'[q] = space[q] \/ (space[q] # None /\ space'[q] = new)
          BY <2>1, <3>2, <4>2 DEF Protected
        <4> HIDE DEF new
        <4>4. QED
          BY <4>1, <4>3
      <3>3. QED
        BY <3>1, <3>2
    <2>3. QED
      BY <1>0, <2>1, <2>2, SnapshotSame
  <1>7. CASE MapCall
    BY <1>7, MapCallTable
  <1>8. CASE MapClose
    BY <1>8, MapCloseTable
  <1>9. CASE MunmapAnVma
    <2>1. CASE args.flag_unmap_vma
      BY <1>9, <2>1 DEF MunmapAnVma, SnapshotInv, Steady
    <2>2. CASE ~args.flag_unmap_vma
      <3>1. pc = "unmap" /\ pc' = "dump_vma" /\ UNCHANGED <<space, tree, args, changes>>
        BY <1>9, <2>2 DEF MunmapAnVma, Goto
      <3>2. QED
        BY <1>0, <3>1, SnapshotSame
    <2>3. QED
      BY <2>1, <2>2, Zenon
  <1>10. CASE MapOpen \/ DumpVma \/ DumpAddr \/ JmpRead \/ JmpWrite
    <2>1. /\ pc \notin {"parse", "open", "done", "map_close"} /\ pc' # "map_close"
          /\ UNCHANGED <<space, tree, args, changes>>
      BY <1>10 DEF MapOpen, DumpVma, DumpAddr, JmpRead, JmpWrite, Goto, target, session
    <2>2. QED
      BY <1>0, <2>1, SnapshotSame, Zenon
  <1>11. CASE CloseTask
    BY <1>11 DEF CloseTask, Goto, SnapshotInv
  <1>12. QED
    BY <1>1, <1>2, <1>3, <1>4, <1>5, <1>6, <1>7, <1>8, <1>9, <1>10, <1>11 DEF Next

-----------------------------------------------------------------------------
(* All of n units is reached just when all of it is mapped.                *)
LEMMA ReachedAll ==
    ASSUME NEW m, NEW a \in Nat, NEW n \in Nat
    PROVE  /\ (\A x \in a..(a + n - 1) : IsMapped(m, x)) => Reached(m, a, n) = 0..(n - 1)
           /\ Reached(m, a, n) = 0..(n - 1) => \A x \in a..(a + n - 1) : IsMapped(m, x)
  <1>1. ASSUME \A x \in a..(a + n - 1) : IsMapped(m, x)
        PROVE  Reached(m, a, n) = 0..(n - 1)
    <2>1. ASSUME NEW i \in 0..(n - 1), NEW j \in 0..i
          PROVE  IsMapped(m, a + j)
      <3>1. a + j \in a..(a + n - 1)
        OBVIOUS
      <3>2. QED
        BY <1>1, <3>1, Zenon
    <2>2. QED
      BY <2>1, Zenon DEF Reached
  <1>2. ASSUME Reached(m, a, n) = 0..(n - 1), NEW x \in a..(a + n - 1)
        PROVE  IsMapped(m, x)
    <2> DEFINE i == x - a
    <2>1. i \in 0..(n - 1) /\ i \in 0..i /\ a + i = x
      OBVIOUS
    <2> HIDE DEF i
    <2>2. IsMapped(m, a + i)
      BY <1>2, <2>1 DEF Reached
    <2>3. QED
      BY <2>1, <2>2
  <1>3. QED
    BY <1>1, <1>2

(* The table is as good as the address space for find_vma().               *)
LEMMA FoundIsMapped ==
    ASSUME CommandConstants, TreeInv, Whole, \A q \in Mapped : Listed(q), NEW a \in Nat
    PROVE  FindVma(a) # {} <=> IsMapped(space, a)
  <1>1. PageOf(a) \in Nat
    BY PageFacts
  <1>2. ASSUME NEW v \in tree
        PROVE  v \in FindVma(a) <=> PageOf(a) \in Within(v)
    <2>1. v.start \in Int /\ v.end \in Int
      BY DEF TreeInv, MappedArea, PageNo
    <2>2. QED
      BY <1>1, <2>1 DEF FindVma, Within
  <1>3. \A v \in tree : Within(v) \subseteq PageNo
    BY DEF TreeInv, MappedArea, Within, PageNo, CommandConstants
  <1>4. FindVma(a) \subseteq tree
    BY DEF FindVma
  <1>5. QED
    BY <1>2, <1>3, <1>4, Zenon DEF IsMapped, Whole, Listed, Mapped

LEMMA EffectsInit == Init => EffectsInv
  BY DEF Init, EffectsInv

LEMMA JumpStep ==
    ASSUME ArgsInv, SpaceInv, TreeInv, SnapshotInv, EffectsInv, JmpRead, Steady, args.jmp_addr_from # 0
    PROVE  pc' = "jmp_write" <=> JumpThere
  <1> DEFINE from == args.jmp_addr_from
             to == args.jmp_addr_to
  <1>0. CommandConstants /\ from \in Nat /\ to \in Nat /\ to # 0 /\ JmpLen \in Nat \ {0}
    BY DEF ArgsInv, ArgTypes, Accepted, CommandConstants, JmpRead
  <1>1. Whole /\ \A q \in Mapped : Listed(q)
    BY DEF SnapshotInv, JmpRead
  <1>2. FindVma(from) # {} <=> IsMapped(space, from)
    BY <1>0, <1>1, FoundIsMapped
  <1>3. FindVma(to) # {} <=> IsMapped(space, to)
    BY <1>0, <1>1, FoundIsMapped
  <1>4. Reached(space, from, JmpLen) = 0..(JmpLen - 1) <=>
          \A x \in from..(from + JmpLen - 1) : IsMapped(space, x)
    BY <1>0, ReachedAll
  <1>5. from \in from..(from + JmpLen - 1)
    BY <1>0
  <1>6. pc' = "jmp_write" <=> /\ FindVma(from) # {} /\ FindVma(to) # {}
                              /\ Reached(space, from, JmpLen) = 0..(JmpLen - 1)
    BY <1>0 DEF JmpRead
  <1>7. JumpThere <=> /\ \A x \in from..(from + JmpLen - 1) : IsMapped(space, x)
                      /\ IsMapped(space, to)
    BY Zenon DEF JumpThere, JumpBytes
  <1>8. QED
    BY <1>2, <1>3, <1>4, <1>5, <1>6, <1>7, Zenon

LEMMA JumpWritten ==
    ASSUME ArgsInv, EffectsInv, JmpWrite, Steady
    PROVE  written' = JumpBytes /\ JumpThere
  <1> DEFINE from == args.jmp_addr_from
             R == Reached(space, from, JmpLen)
  <1>1. from \in Nat /\ from # 0 /\ JmpLen \in Nat \ {0} /\ ~args.flag_rdonly
    BY Zenon DEF ArgsInv, ArgTypes, Accepted, CommandConstants, JmpWrite, EffectsInv
  <1>2. JumpThere
    BY DEF EffectsInv, JmpWrite
  <1>3. R = 0..(JmpLen - 1)
    <2>1. \A x \in from..(from + JmpLen - 1) : IsMapped(space, x)
      BY <1>2 DEF JumpThere, JumpBytes
    <2>2. JmpLen \in Nat
      BY <1>1, Zenon
    <2>3. QED
      BY <1>1, <2>1, <2>2, ReachedAll, Zenon
  <1>4. written' = {from + i : i \in R}
    BY <1>1 DEF JmpWrite
  <1>5. {from + i : i \in 0..(JmpLen - 1)} = from..(from + JmpLen - 1)
    <2>1. ASSUME NEW x \in from..(from + JmpLen - 1)
          PROVE  x \in {from + i : i \in 0..(JmpLen - 1)}
      <3>1. x - from \in 0..(JmpLen - 1) /\ x = from + (x - from)
        BY <1>1
      <3>2. QED
        BY <3>1
    <2>2. ASSUME NEW i \in 0..(JmpLen - 1)
          PROVE  from + i \in from..(from + JmpLen - 1)
      BY <1>1
    <2>3. QED
      BY <2>1, <2>2
  <1>6. QED
    BY <1>2, <1>3, <1>4, <1>5, Zenon DEF JumpBytes

LEMMA DumpIsWhole ==
    ASSUME ArgsInv, TreeInv, SnapshotInv, DumpVma, Steady,
           args.flag_dump_vma, ~args.force, NEW v \in FindVma(args.vma_addr)
    PROVE  output' = DumpOf(v)
  <1> DEFINE a == v.start * PageSize
             n == (v.end - v.start) * PageSize
  <1>0. CommandConstants /\ args.vma_addr \in Nat /\ output = None /\ PageSize \in Nat \ {0}
    BY DEF ArgsInv, ArgTypes, CommandConstants, DumpVma
  <1>1. v \in tree /\ v \in MappedArea /\ v.start < v.end
    BY DEF FindVma, TreeInv
  <1>2. v.start \in Nat /\ v.end \in Nat
    BY <1>1 DEF MappedArea, PageNo
  <1>3. a \in Nat /\ n \in Nat \ {0}
    BY <1>0, <1>1, <1>2
  <1>4. output' = Dumped(a, n)
    <2>1. PICK w \in FindVma(args.vma_addr) :
            output' = Dumped(w.start * PageSize, (w.end - w.start) * PageSize)
      BY DEF DumpVma
    <2>2. w = v
      BY <1>0, FoundIsOne
    <2>3. QED
      BY <2>1, <2>2
  <1>5. ASSUME NEW j \in 0..(n - 1)
        PROVE  PageOf(a + j) \in v.start..(v.end - 1)
    BY <1>0, <1>1, <1>2, <1>5, PageWithin
  <1>6. ASSUME NEW j \in 0..(n - 1)
        PROVE  IsMapped(space, a + j)
    <2>1. Whole /\ Within(v) \subseteq PageNo
      BY <1>0, <1>1 DEF SnapshotInv, DumpVma, MappedArea, Within, PageNo, CommandConstants
    <2>2. PageOf(a + j) \in Within(v)
      BY <1>5 DEF Within
    <2>3. QED
      BY <1>1, <2>1, <2>2, Zenon DEF IsMapped, Whole
  <1>7. v \in FindVma(a)
    <2>1. 0 \in 0..(n - 1) /\ a + 0 = a
      BY <1>3
    <2>2. PageOf(a) \in v.start..(v.end - 1)
      BY <1>5, <2>1
    <2>3. QED
      BY <1>1, <1>2, <2>2 DEF FindVma
  <1> HIDE DEF a, n
  <1>8. Reached(space, a, n) = 0..(n - 1)
    <2>1. ASSUME NEW i \in 0..(n - 1), NEW j \in 0..i
          PROVE  IsMapped(space, a + j)
      <3>1. j \in 0..(n - 1)
        BY <1>3
      <3>2. QED
        BY <1>6, <3>1
    <2>2. QED
      BY <2>1, Zenon DEF Reached
  <1>9. Buffer(a, n) = [i \in 1..n |-> a + i - 1]
    <2>1. \A i \in 1..n : i - 1 \in 0..(n - 1)
      BY <1>3
    <2>2. QED
      BY <1>8, <2>1 DEF Buffer
  <1>10. output' = Buffer(a, n)
    BY <1>0, <1>4, <1>7 DEF Dumped, Overwritten
  <1>11. QED
    BY <1>9, <1>10, Zenon DEF DumpOf, a, n

LEMMA EffectsStep ==
    ArgsInv /\ SpaceInv /\ TreeInv /\ SnapshotInv /\ EffectsInv /\ [Next]_vars => EffectsInv'
  <1> SUFFICES ASSUME ArgsInv, SpaceInv, TreeInv, SnapshotInv, EffectsInv, [Next]_vars
               PROVE  EffectsInv'
    OBVIOUS
  <1> DEFINE Asks == args.flag_dump_vma /\ ~args.flag_dump_addr /\ ~args.force
             Dumps == \A v \in FindVma(args.vma_addr) : output = DumpOf(v)
  <1>0. Dumps' = (\A v \in FindVma(args.vma_addr)' : output' = DumpOf(v))
    BY Zenon DEF DumpOf
  <1>1. CASE UNCHANGED vars
    BY <1>1, Zenon DEF vars, target, session, effects, EffectsInv, Steady, JumpThere, JumpBytes,
                IsMapped, FindVma, DumpOf
  <1>2. ASSUME NEW p \in PageNo, AppUnmaps(p) \/ AppMaps(p)
        PROVE  EffectsInv'
    <2>1. changes' # 0 /\ pc' = pc /\ written' = written /\ args' = args
      BY <1>2 DEF AppUnmaps, AppMaps, SpaceInv, effects
    <2>2. QED
      BY <2>1, Zenon DEF EffectsInv, Steady
  <1>3. CASE DumpVma
    <2>1. /\ pc = "dump_vma" /\ pc' = "dump_addr" /\ written' = written
          /\ UNCHANGED <<args, tree, space, changes>>
      BY <1>3 DEF DumpVma, Goto, target, session
    <2>2. FindVma(args.vma_addr)' = FindVma(args.vma_addr)
      BY <2>1 DEF FindVma
    <2>3. Steady /\ Asks => \A v \in FindVma(args.vma_addr) : output' = DumpOf(v)
      BY <1>3, DumpIsWhole
    <2>4. \A v : DumpOf(v)' = DumpOf(v)
      BY DEF DumpOf
    <2>5. QED
      BY <2>1, <2>2, <2>3, <2>4 DEF EffectsInv, Steady
  <1>4. CASE DumpAddr \/ JmpRead \/ JmpWrite
    <2>1. /\ pc \in {"dump_addr", "jmp", "jmp_write"} /\ UNCHANGED <<args, tree, space, changes>>
          /\ args.flag_dump_addr \/ output' = output
      BY <1>4 DEF DumpAddr, JmpRead, JmpWrite, target, session, effects
    <2>2. FindVma(args.vma_addr)' = FindVma(args.vma_addr) /\ Steady' = Steady
      BY <2>1 DEF FindVma, Steady
    <2>3. JumpThere' = JumpThere /\ JumpBytes' = JumpBytes
      BY <2>1, Zenon DEF JumpThere, JumpBytes, IsMapped
    <2>4. Steady /\ Asks => Dumps'
      BY <1>0, <2>1, <2>2 DEF EffectsInv
    <2>5. written = {}
      BY <2>1, Zenon DEF EffectsInv
    <2>6. CASE DumpAddr
      <3>1. pc' = "jmp" /\ written' = written
        BY <2>6, Zenon DEF DumpAddr, Goto
      <3>2. QED
        BY <1>0, <2>1, <2>2, <2>4, <2>5, <3>1 DEF EffectsInv
    <2>7. CASE JmpRead
      <3>1. pc' \in {"jmp_write", "close"} /\ written' = {} /\ (pc' = "jmp_write" => args.jmp_addr_from # 0)
        BY <2>5, <2>7 DEF JmpRead, effects
      <3>2. Steady /\ args.jmp_addr_from # 0 => (pc' = "jmp_write" <=> JumpThere)
        BY <2>7, JumpStep, Zenon
      <3>3. QED
        BY <1>0, <2>1, <2>2, <2>3, <2>4, <3>1, <3>2 DEF EffectsInv
    <2>8. CASE JmpWrite
      <3>1. pc' = "close"
        BY <2>8 DEF JmpWrite, Goto
      <3>2. Steady => written' = JumpBytes /\ JumpThere
        BY <2>8, JumpWritten, Zenon
      <3>3. QED
        BY <1>0, <2>1, <2>2, <2>3, <2>4, <3>1, <3>2, Zenon DEF EffectsInv
    <2>9. QED
      BY <1>4, <2>6, <2>7, <2>8, Zenon
  <1>5. CASE CloseTask
    BY <1>5, Zenon DEF CloseTask, Goto, EffectsInv
  <1>6. CASE \/ CheckArgs \/ OpenTask \/ MprotectARegion \/ MapOpen \/ MapCall \/ MapClose
             \/ MunmapAnVma \/ \E o \in Options : ParseOption(o)
    <2>1. /\ pc \notin {"close", "done"} /\ written' = written
          /\ pc' \notin {"dump_addr", "jmp", "jmp_write", "close"}
      BY <1>6, Zenon DEF CheckArgs, OpenTask, MprotectARegion, MapOpen, MapCall, MapClose,
             MunmapAnVma, ParseOption, Goto, effects
    <2>2. QED
      BY <2>1 DEF EffectsInv
  <1>7. QED
    BY <1>1, <1>2, <1>3, <1>4, <1>5, <1>6 DEF Next

-----------------------------------------------------------------------------
(* With it, that nothing is traced before the target is looked up.         *)
ReleasedInv == Released /\ (pc \in {"parse", "open"} => ~stopped)

LEMMA ReleasedStep == ArgsInv /\ ReleasedInv /\ [Next]_vars => ReleasedInv'
  <1> SUFFICES ASSUME ArgsInv, ReleasedInv, [Next]_vars
               PROVE  ReleasedInv'
    OBVIOUS
  <1> USE DEF ReleasedInv, Released, session, Goto
  <1>1. CASE UNCHANGED vars
    BY <1>1, Zenon DEF vars
  <1>2. CASE \E p \in PageNo : AppUnmaps(p) \/ AppMaps(p)
    BY <1>2 DEF AppUnmaps, AppMaps
  <1>3. CASE \E o \in Options : ParseOption(o)
    BY <1>3 DEF ParseOption
  <1>4. CASE CheckArgs \/ OpenTask \/ MprotectARegion
    BY <1>4 DEF CheckArgs, OpenTask, MprotectARegion
  <1>5. CASE MapOpen
    BY <1>5 DEF MapOpen
  <1>6. CASE MapCall \/ MapClose
    BY <1>6 DEF MapCall, MapClose
  <1>7. CASE MunmapAnVma
    <2>1. pc' = "dump_vma" /\ fd' = fd /\ pc = "unmap"
      BY <1>7, Zenon DEF MunmapAnVma
    <2>2. stopped' = stopped \/ stopped' = FALSE
      BY <1>7, Zenon DEF MunmapAnVma
    <2>3. QED
      BY <2>1, <2>2
  <1>8. CASE DumpVma \/ DumpAddr \/ JmpRead \/ JmpWrite \/ CloseTask
    BY <1>8 DEF DumpVma, DumpAddr, JmpRead, JmpWrite, CloseTask
  <1>9. QED
    BY <1>1, <1>2, <1>3, <1>4, <1>5, <1>6, <1>7, <1>8 DEF Next

CommandInv ==
    /\ ArgsInv /\ SpaceInv /\ TreeInv /\ SnapshotInv /\ EffectsInv
    /\ ProtectExact /\ ReleasedInv

LEMMA CommandInvariant == CommandConstants /\ Spec => []CommandInv
  <1>1. CommandConstants /\ Init => CommandInv
    <2>1. Init => ProtectExact /\ ReleasedInv
      BY DEF Init, ProtectExact, ReleasedInv, Released
    <2>2. QED
      BY <2>1, ArgsInit, SpaceInit, TreeInit, SnapshotInit, EffectsInit DEF CommandInv
  <1>2. CommandInv /\ [Next]_vars => CommandInv'
    BY ArgsStep, SpaceStep, TreeStep, SnapshotStep, EffectsStep, ProtectStep, ReleasedStep
       DEF CommandInv
  <1>3. QED
    BY <1>1, <1>2, PTL DEF Spec

(* Whatever options ultask is given and whatever fails, the target stays   *)
(* stopped after mmap_a_file() only when its open(2) was refused or gave   *)
(* 0, and then until the command ends; and a descriptor above 2 that       *)
(* open(2) gave was handed to the remote close(2).                         *)
THEOREM TargetReleased == Spec => []Released
  <1>1. CommandInv => Released
    BY DEF CommandInv, ReleasedInv
  <1>2. QED
    BY <1>1, CommandInvariant, CommandAssumption, PTL

(* --mprotect (mprotect_a_region()) gives the pages of its region, to the  *)
(* first hole, the protection of its suboptions, and changes no other      *)
(* page; when it leaves out one of them the status is not 0.               *)
THEOREM ProtectionIsExact == Spec => []ProtectExact
  <1>1. CommandInv => ProtectExact
    BY DEF CommandInv
  <1>2. QED
    BY <1>1, CommandInvariant, CommandAssumption, PTL

(* When neither the target nor --unmap took pages away, run_jmp() writes   *)
(* its jump whole or not at all, as the address space has its place and    *)
(* its destination or not, and --dump of an area writes just this area,    *)
(* although both look addresses up in a table that was read before.        *)
THEOREM WritesAreExact == Spec => []WritesExact
  <1>1. CommandInv => WritesExact
    BY Zenon DEF CommandInv, EffectsInv, WritesExact, Steady, JumpThere, JumpBytes, DumpOf
  <1>2. QED
    BY <1>1, CommandInvariant, CommandAssumption, PTL

(* munmap_an_vma() of an area that the target left as the table has it,    *)
(* and that is as long as the file it maps or maps none, takes this area   *)
(* and nothing else.  Of another length it unmaps that of the file.        *)
THEOREM UnmapIsExact == Spec => UnmapExact
  <1> DEFINE Exact ==
        \A v \in FindVma(args.unmap_addr) \cap AreasOf(space) :
           (v.name \in File => /\ space[v.start].off = 0
                               /\ v.end - v.start = NPages(FSize[v.name]))
             => {p \in PageNo : space'[p] # space[p]} \in {{}, v.start..(v.end - 1)}
  <1>1. CommandInv /\ [Next]_vars => [pc = "unmap" /\ pc' # pc => Exact]_vars
    <2> SUFFICES ASSUME CommandInv, Next, pc = "unmap", pc' # pc
                 PROVE  Exact
      OBVIOUS
    <2>1. MunmapAnVma
      BY Zenon DEF Next, AppUnmaps, AppMaps, ParseOption, CheckArgs, OpenTask, MprotectARegion,
             MapOpen, MapCall, MapClose, DumpVma, DumpAddr, JmpRead, JmpWrite, CloseTask
    <2>2. QED
      BY <2>1, UnmapTakesTheArea, Zenon DEF CommandInv
  <1>2. QED
    BY <1>1, CommandInvariant, CommandAssumption, PTL DEF Spec, UnmapExact

(* The pages of a file of f units are those that start before its end.     *)
LEMMA PagesOfFile ==
    ASSUME CommandConstants, NEW f \in Nat, NEW k \in Nat
    PROVE  k < NPages(f) <=> k * PageSize < f
  <1> DEFINE n == NPages(f)
             r == (f + PageSize - 1) % PageSize
  <1>1. PageSize \in Nat \ {0}
    BY DEF CommandConstants
  <1>2. f + PageSize - 1 = PageSize * n + r /\ r \in 0..(PageSize - 1) /\ n \in Nat
    BY <1>1, Z3 DEF NPages
  <1>3. ASSUME k < n PROVE k * PageSize < f
    <2> HIDE DEF n, r
    <2>1. PageSize * (k + 1) <= PageSize * n
      BY <1>1, <1>2, <1>3
    <2>2. PageSize * (k + 1) = k * PageSize + PageSize
      BY <1>1
    <2>3. QED
      BY <1>1, <1>2, <2>1, <2>2
  <1>4. ASSUME k >= n PROVE k * PageSize >= f
    <2> HIDE DEF n, r
    <2>1. PageSize * k >= PageSize * n
      BY <1>1, <1>2, <1>4
    <2>2. PageSize * k = k * PageSize
      BY <1>1
    <2>3. QED
      BY <1>1, <1>2, <2>1, <2>2
  <1>5. QED
    <2> HIDE DEF n, r
    <2>1. k * PageSize \in Nat /\ n \in Nat
      BY <1>1, <1>2
    <2>2. QED
      BY <1>3, <1>4, <2>1 DEF n

LEMMA MapCallAdds ==
    ASSUME CommandInv, MapCall
    PROVE  MapAdds
  <1> DEFINE f == args.map_file
             n == NPages(FSize[f])
             new == {q \in PageNo : space'[q] # space[q]}
  <1>0. CommandConstants
    BY Zenon DEF CommandInv, ArgsInv
  <1>1. f \in File /\ FSize[f] \in Nat /\ Top \in Nat /\ PageSize \in Nat \ {0}
    BY DEF CommandInv, ArgsInv, CommandConstants, MapCall
  <1>2. CASE UNCHANGED space
    BY <1>2 DEF MapAdds
  <1>3. CASE space' \in Mmap(space, f, args.map_addr, MapProt)
    <2>1. PICK p \in PageNo :
            FreeRun(space, p, n) /\ space' = WithFile(space, f, p, n, MapProt)
      BY <1>3 DEF Mmap
    <2>2. n \in Nat
      BY <1>1, Z3, Zenon DEF NPages
    <2> HIDE DEF n
    <2>3. \A q \in PageNo : q \in p..(p + n - 1) =>
            space[q] = None /\ space'[q] = [name |-> f, off |-> q - p, prot |-> MapProt]
      BY <2>1, Zenon DEF FreeRun, WithFile
    <2>4. \A q \in PageNo : q \notin p..(p + n - 1) => space'[q] = space[q]
      BY <2>1, Zenon DEF WithFile
    <2>5. \A q \in p..(p + n - 1) :
            [name |-> f, off |-> q - p, prot |-> MapProt] # None
      BY <1>0, <1>1, <2>2 DEF MapProt, Prot, PageNo, Mapping, CommandConstants
    <2>6. new = {q \in PageNo : q \in p..(p + n - 1)}
      BY <2>3, <2>4, <2>5, Zenon
    <2>7. \A q \in PageNo :
            q \in p..(p + n - 1) <=> q >= p /\ (q - p) * PageSize < FSize[f]
      <3> SUFFICES ASSUME NEW q \in PageNo
                   PROVE  q \in p..(p + n - 1) <=> q >= p /\ (q - p) * PageSize < FSize[f]
        OBVIOUS
      <3>1. p \in Int /\ q \in Int
        BY <1>1 DEF PageNo
      <3>2. CASE q >= p
        <4>1. q - p \in Nat
          BY <3>1, <3>2
        <4>2. q - p < n <=> (q - p) * PageSize < FSize[f]
          BY <1>0, <1>1, <4>1, PagesOfFile DEF n
        <4>3. QED
          BY <2>2, <3>1, <3>2, <4>2
      <3>3. CASE ~(q >= p)
        BY <2>2, <3>1, <3>3
      <3>4. QED
        BY <3>2, <3>3
    <2>8. new # {} => p \in new
      BY <1>1, <2>2, <2>6 DEF PageNo
    <2>9. QED
      BY <2>3, <2>6, <2>7, <2>8, Zenon DEF MapAdds
  <1>4. QED
    BY <1>2, <1>3 DEF MapCall

(* --map, with its address a hint, never takes a page from the target: the *)
(* pages that mmap_a_file() changes were free, and hold the whole file.    *)
THEOREM MappingTakesNothing == Spec => MapKeepsOthers
  <1>1. CommandInv /\ [Next]_vars => [pc = "map_call" /\ pc' # pc => MapAdds]_vars
    <2> SUFFICES ASSUME CommandInv, Next, pc = "map_call", pc' # pc
                 PROVE  MapAdds
      OBVIOUS
    <2>1. MapCall
      BY Zenon DEF Next, AppUnmaps, AppMaps, ParseOption, CheckArgs, OpenTask, MprotectARegion,
             MapOpen, MapClose, MunmapAnVma, DumpVma, DumpAddr, JmpRead, JmpWrite, CloseTask
    <2>2. QED
      BY <2>1, MapCallAdds
  <1>2. QED
    BY <1>1, CommandInvariant, CommandAssumption, PTL DEF Spec, MapKeepsOthers

=============================================================================
