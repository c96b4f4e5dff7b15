-------------------------------- MODULE UlTask --------------------------------
(***************************************************************************)
(* The command ultask (ultask.c): its options, read one after the other    *)
(* into globals and then checked, and what it does to a running target:    *)
(* change the protection of a region, map a file, unmap an area, dump      *)
(* memory to a file, write a jump.                                         *)
(*                                                                         *)
(* An address space is a function on page numbers; its areas are the       *)
(* longest runs of pages that continue each other.  Addresses and sizes    *)
(* are in units, PageSize to a page, so that they need not be aligned.     *)
(* Only the main thread of the target is stopped for a remote call: its    *)
(* other threads may change the address space at any time.  The reading of *)
(* /proc/PID/maps is one step here (VmaTable has it line by line), and so  *)
(* is a remote call (RemoteCall has its steps).  What is only printed      *)
(* (help, symbols, threads, descriptors, disassembly) is left out.         *)
(***************************************************************************)
EXTENDS Integers, Sequences

CONSTANTS
    Top,          \* the pages of an address space are 0..Top-1
    PageSize,     \* units of a page
    JmpLen,       \* units of a jump, sizeof(struct jmp_table_entry)
    File,         \* files
    FSize,        \* their sizes in units, 0 for one that cannot be mapped
    Layout,       \* the address space of the target at first
    Options,      \* the options a command line is made of
    MaxOptions,   \* bound: options of a command line
    MaxChanges,   \* bound: how often the target changes its address space
    OldLen,       \* units of a file that exists already
    None

PageNo == 0..(Top - 1)
Prot == SUBSET {"r", "w", "x"}
PageOf(a) == a \div PageSize
NPages(n) == (n + PageSize - 1) \div PageSize

(* What a page holds.                                                      *)
Mapping == [name : File \cup {"anon"}, off : Nat, prot : Prot]

(* Numbers on the command line, a suboption that is not given is None.     *)
Number == Nat \cup {None}
OptionTypes(o) ==
    /\ o.opt \in {"dump", "jmp", "map", "unmap", "mprotect", "output", "force"}
    /\ o.opt = "dump" => o.vma \in BOOLEAN /\ o.disasm \in BOOLEAN /\ o.addr \in Number
                         /\ o.size \in Number
    /\ o.opt = "jmp" => o.from \in Number /\ o.to \in Number
    /\ o.opt = "map" => o.file \in File \cup {None}
    /\ o.opt = "unmap" => o.addr \in Nat
    /\ o.opt = "mprotect" => o.addr \in Number /\ o.len \in Number /\ o.prot \in Prot

(* A page of a file is one that the file has.                              *)
InFile(m) == m.name \in File => m.off < NPages(FSize[m.name])

CommandConstants ==
    /\ Top \in Nat /\ PageSize \in Nat \ {0} /\ JmpLen \in Nat \ {0}
    /\ MaxOptions \in Nat /\ MaxChanges \in Nat /\ OldLen \in Nat
    /\ FSize \in [File -> Nat] /\ "anon" \notin File /\ None \notin File
    /\ None \notin Mapping /\ None \notin Nat
    /\ \A o \in Options : OptionTypes(o)
    /\ Layout \in [PageNo -> Mapping \cup {None}]
    /\ \A p \in PageNo : Layout[p] # None => InFile(Layout[p])

ASSUME CommandAssumption == CommandConstants

VARIABLES
    space,     \* the pages of the target
    changes,   \* how often the target changed them
    args,      \* the globals that parse_config() sets
    nopts,     \* options read
    pc,        \* where the command is
    tree,      \* the areas of the session's table
    stopped,   \* the tool is the tracer of the target, which is stopped
    fd,        \* the remote descriptor of the mapped file
    ret,       \* the status, 0 or not
    written,   \* the addresses run_jmp() wrote to
    output     \* the output file, None when there is none

target == <<space, changes>>
session == <<tree, stopped, fd, ret>>
effects == <<written, output>>
vars == <<target, args, nopts, pc, session, effects>>

-----------------------------------------------------------------------------
(* Address spaces                                                          *)

Continues(m, p) ==
    /\ p > 0
    /\ m[p] # None /\ m[p - 1] # None
    /\ m[p] = [m[p - 1] EXCEPT !.off = @ + 1]

AreasOf(m) ==
    {a \in [start : PageNo, end : 1..Top, name : File \cup {"anon"}] :
       /\ a.start < a.end
       /\ \A p \in a.start..(a.end - 1) :
            /\ m[p] # None
            /\ m[p].name = a.name
            /\ p > a.start <=> Continues(m, p)
       /\ a.end \in PageNo => ~Continues(m, a.end)}

Overlap(a, b) == a.start < b.end /\ b.start < a.end

(* find_vma()                                                              *)
FindVma(a) == {v \in tree : v.start <= PageOf(a) /\ PageOf(a) < v.end}

(* update_task_vmas_ulp(): areas are added to the table unless they        *)
(* overlap one of it; none is removed.                                     *)
Updated(m) == tree \cup {a \in AreasOf(m) : \A b \in tree : ~Overlap(a, b)}

IsMapped(m, a) == PageOf(a) \in PageNo /\ m[PageOf(a)] # None

(* The bytes that a read or write of /proc/PID/mem covers: those before    *)
(* the first that is not mapped, whatever the protection.                  *)
Reached(m, a, n) ==
    {i \in 0..(n - 1) : \A j \in 0..i : IsMapped(m, a + j)}

-----------------------------------------------------------------------------
(* parse_config()                                                          *)

(* ultask_args_reset()                                                     *)
Defaults ==
    [map_file |-> None, map_ro |-> FALSE, map_noexec |-> FALSE, map_addr |-> 0,
     flag_unmap_vma |-> FALSE, unmap_addr |-> 0,
     mprotect_addr |-> 0, mprotect_len |-> 0, mprotect_prot |-> {"r", "w", "x"},
     flag_dump_vma |-> FALSE, flag_disasm |-> FALSE, flag_dump_addr |-> FALSE,
     vma_addr |-> 0, dump_addr |-> 0, dump_size |-> 0,
     jmp_addr_from |-> 0, jmp_addr_to |-> 0,
     output_file |-> FALSE, force |-> FALSE, flag_rdonly |-> TRUE]

(* A suboption that is not given (None) leaves what an earlier option set. *)
Or(value, old) == IF value = None THEN old ELSE value

DumpOption(o) ==
    [args EXCEPT !.flag_dump_vma = @ \/ o.vma,
                 !.flag_disasm = @ \/ o.disasm,
                 !.dump_addr = Or(o.addr, @),
                 !.dump_size = Or(o.size, @),
                 !.vma_addr = IF args.flag_dump_vma \/ o.vma
                              THEN Or(o.addr, args.dump_addr) ELSE @,
                 !.flag_dump_addr = @ \/ ~(\/ args.flag_dump_vma \/ o.vma
                                           \/ args.flag_disasm \/ o.disasm)]

DumpAccepted(g) ==
    /\ ~(g.flag_dump_vma /\ g.flag_disasm)
    /\ g.dump_addr # 0
    /\ g.flag_dump_vma \/ g.dump_size # 0

JmpOption(o) ==
    [args EXCEPT !.jmp_addr_from = Or(o.from, @),
                 !.jmp_addr_to = Or(o.to, @),
                 !.flag_rdonly = FALSE]

MapOption(o) ==
    [args EXCEPT !.map_file = Or(o.file, @),
                 !.map_ro = @ \/ o.ro,
                 !.map_noexec = @ \/ o.noexec,
                 !.map_addr = Or(o.addr, @),
                 !.flag_rdonly = FALSE]

UnmapOption(o) ==
    [args EXCEPT !.flag_unmap_vma = TRUE, !.unmap_addr = o.addr, !.flag_rdonly = FALSE]

(* Mutant: the protection is added to the default one.                     *)
MprotectOptionAdds(o) ==
    [args EXCEPT !.mprotect_addr = Or(o.addr, @),
                 !.mprotect_len = Or(o.len, @),
                 !.mprotect_prot = @ \cup o.prot,
                 !.flag_rdonly = FALSE]

MprotectOption(o) ==
    [args EXCEPT !.mprotect_addr = Or(o.addr, @),
                 !.mprotect_len = Or(o.len, @),
                 !.mprotect_prot = o.prot,
                 !.flag_rdonly = FALSE]

MprotectAccepted(o, g) ==
    /\ ~(o.none /\ o.prot # {})
    /\ g.mprotect_addr # 0 /\ g.mprotect_len # 0
    /\ g.mprotect_addr % PageSize = 0 /\ g.mprotect_len % PageSize = 0

SetOption(o) ==
    CASE o.opt = "dump" -> DumpOption(o)
      [] o.opt = "jmp" -> JmpOption(o)
      [] o.opt = "map" -> MapOption(o)
      [] o.opt = "unmap" -> UnmapOption(o)
      [] o.opt = "mprotect" -> MprotectOption(o)
      [] o.opt = "output" -> [args EXCEPT !.output_file = TRUE]
      [] o.opt = "force" -> [args EXCEPT !.force = TRUE]

OptionAccepted(o, g) ==
    CASE o.opt = "dump" -> DumpAccepted(g)
      [] o.opt = "jmp" -> g.jmp_addr_from # 0 /\ g.jmp_addr_to # 0
      [] o.opt = "map" -> o.addr # 0 /\ g.map_file # None
      [] o.opt = "mprotect" -> MprotectAccepted(o, g)
      [] OTHER -> TRUE

ParseOption(o) ==
    /\ pc = "parse"
    /\ nopts < MaxOptions
    /\ nopts' = nopts + 1
    /\ args' = SetOption(o)
    /\ pc' = IF OptionAccepted(o, args') THEN "parse" ELSE "done"
    /\ ret' = IF pc' = "done" THEN 1 ELSE 0
    /\ UNCHANGED <<target, tree, stopped, fd, effects>>

(* The checks after the last option.  An output file that exists is only   *)
(* written to with --force; the target may be missing or be gone.          *)
ArgsAccepted ==
    /\ args.flag_dump_vma \/ args.flag_dump_addr => args.output_file
    /\ args.map_file # None => FSize[args.map_file] # 0
    /\ args.output_file /\ output # None => args.force

CheckArgs ==
    /\ pc = "parse"
    /\ \/ ArgsAccepted /\ pc' = "open" /\ ret' = 0
       \/ pc' = "done" /\ ret' = 1
    /\ UNCHANGED <<target, args, nopts, tree, stopped, fd, effects>>

-----------------------------------------------------------------------------
(* The target, any of whose threads may change its areas at any time.      *)

AppUnmaps(p) ==
    /\ changes < MaxChanges
    /\ space[p] # None /\ space[p].name = "anon"
    /\ space' = [space EXCEPT ![p] = None]
    /\ changes' = changes + 1
    /\ UNCHANGED <<args, nopts, pc, session, effects>>

AppMaps(p) ==
    /\ changes < MaxChanges
    /\ p > 0 /\ space[p] = None
    /\ space' = [space EXCEPT ![p] = [name |-> "anon", off |-> p, prot |-> {"r", "w"}]]
    /\ changes' = changes + 1
    /\ UNCHANGED <<args, nopts, pc, session, effects>>

-----------------------------------------------------------------------------
(* ultask(), step by step                                                  *)

Goto(label) == pc' = label

OpenTask ==
    /\ pc = "open"
    /\ \/ /\ Goto("mprotect")
          /\ tree' = AreasOf(space)
          /\ UNCHANGED ret
       \/ /\ Goto("done")
          /\ ret' = 1
          /\ UNCHANGED tree
    /\ UNCHANGED <<target, args, nopts, stopped, fd, effects>>

(* task_attach(): refused when another tool traces the target.  Its result *)
(* is ignored; nothing is executed in a target that is not stopped.        *)
Attach(attached) == stopped => attached

(* mprotect(2) changes the pages before the first hole.                    *)
Protected(m, first, n, prot) ==
    LET Done(p) == p \in first..(first + n - 1)
                   /\ \A q \in first..p : q \in PageNo /\ m[q] # None
    IN  [p \in PageNo |-> IF Done(p) THEN [m[p] EXCEPT !.prot = prot] ELSE m[p]]

MprotectFound ==
    /\ FindVma(args.mprotect_addr) # {}
    /\ FindVma(args.mprotect_addr + args.mprotect_len) # {}

MprotectARegion ==
    /\ pc = "mprotect"
    /\ Goto("map")
    /\ LET first == PageOf(args.mprotect_addr)
           n == NPages(args.mprotect_len)
           whole == \A p \in first..(first + n - 1) : p \in PageNo /\ space[p] # None
       IN  \/ /\ args.mprotect_addr = 0
              /\ UNCHANGED <<space, ret>>
           \/ /\ args.mprotect_addr # 0 /\ ~MprotectFound
              /\ ret' = 1
              /\ UNCHANGED space
           \/ /\ args.mprotect_addr # 0 /\ MprotectFound
              /\ \E attached \in BOOLEAN :
                   /\ Attach(attached)
                   /\ space' = IF attached THEN Protected(space, first, n, args.mprotect_prot)
                                           ELSE space
                   /\ ret' = IF attached /\ whole THEN ret ELSE 1
    /\ UNCHANGED <<changes, args, nopts, tree, stopped, fd, effects>>

(* mmap_a_file(), up to the remote open(2): when that fails, or gives 0,   *)
(* the function returns and does not detach.  The descriptor is above 2    *)
(* ("open") unless the target has closed 0 ("zero") or 1 or 2 ("std").     *)
(* Without a stopped target it is a variable that was never set.           *)
MapInUse ==
    /\ args.map_addr # 0
    /\ \/ FindVma(args.map_addr) # {}
       \/ FindVma(args.map_addr + FSize[args.map_file]) # {}

MapOpen ==
    /\ pc = "map"
    /\ \/ /\ args.map_file = None
          /\ Goto("unmap")
          /\ UNCHANGED <<stopped, fd, ret>>
       \/ /\ args.map_file # None /\ MapInUse
          /\ Goto("unmap")
          /\ ret' = 1
          /\ UNCHANGED <<stopped, fd>>
       \/ /\ args.map_file # None /\ ~MapInUse
          /\ \E attached \in BOOLEAN :
               /\ stopped' = attached
               /\ \/ /\ fd' \in IF attached THEN {"open", "std"} ELSE {"garbage"}
                     /\ Goto("map_call")
                     /\ UNCHANGED ret
                  \/ /\ fd' \in IF attached THEN {"zero", "refused"} ELSE {"refused"}
                     /\ Goto("unmap")
                     /\ ret' = 1
    /\ UNCHANGED <<target, args, nopts, tree, effects>>

MapProt == {"r", "w", "x"} \ ((IF args.map_ro THEN {"w"} ELSE {})
                              \cup (IF args.map_noexec THEN {"x"} ELSE {}))

FreeRun(m, p, n) == p > 0 /\ p + n <= Top /\ \A q \in p..(p + n - 1) : m[q] = None

WithFile(m, f, p, n, prot) ==
    [q \in PageNo |-> IF q \in p..(p + n - 1)
                      THEN [name |-> f, off |-> q - p, prot |-> prot] ELSE m[q]]

(* Mutant: the file is mapped where it was asked for, with MAP_FIXED.      *)
MmapFixed(m, f, hint, prot) ==
    LET n == NPages(FSize[f])
        at == IF hint # 0 /\ PageOf(hint) + n <= Top
              THEN {PageOf(hint)} ELSE {p \in PageNo : FreeRun(m, p, n)}
    IN  {WithFile(m, f, p, n, prot) : p \in at}

(* mmap(2) with an address that is a hint: it goes elsewhere when there is *)
(* something at the address already.                                       *)
Mmap(m, f, hint, prot) ==
    LET n == NPages(FSize[f])
        free == {p \in PageNo : FreeRun(m, p, n)}
        at == IF hint # 0 /\ PageOf(hint) \in free THEN {PageOf(hint)} ELSE free
    IN  {WithFile(m, f, p, n, prot) : p \in at}

(* Mutant: the status is returned at once when ftruncate(2) fails.         *)
MapCallReturns ==
    /\ pc = "map_call"
    /\ \/ /\ stopped /\ fd = "open"
          /\ space' \in Mmap(space, args.map_file, args.map_addr, MapProt)
          /\ Goto("map_close")
          /\ UNCHANGED ret
       \/ /\ Goto("unmap")
          /\ ret' = 1
          /\ UNCHANGED space
    /\ UNCHANGED <<changes, args, nopts, tree, stopped, fd, effects>>

(* The remote ftruncate(2), which is not called for 1 and 2, and mmap(2).  *)
(* When mmap(2) fails, its error is not 0 and passes for an address.       *)
MapCall ==
    /\ pc = "map_call"
    /\ Goto("map_close")
    /\ \/ /\ stopped /\ fd = "open"
          /\ space' \in Mmap(space, args.map_file, args.map_addr, MapProt)
          /\ UNCHANGED ret
       \/ /\ ret' \in IF fd = "std" THEN {1} ELSE {ret, 1}
          /\ UNCHANGED space
    /\ UNCHANGED <<changes, args, nopts, tree, stopped, fd, effects>>

(* task_close(): skipped for 1 and 2, and the remote close(2) may fail     *)
(* ("unclosed"); its result is ignored.                                    *)
MapClose ==
    /\ pc = "map_close"
    /\ \/ fd = "open" /\ fd' \in {"closed", "unclosed"}
       \/ fd # "open" /\ UNCHANGED fd
    /\ stopped' = FALSE
    /\ tree' = Updated(space)
    /\ Goto("unmap")
    /\ UNCHANGED <<target, args, nopts, ret, effects>>

(* munmap(2)                                                               *)
Unmapped(m, p, n) == [q \in PageNo |-> IF q \in p..(p + n - 1) THEN None ELSE m[q]]

(* The size of what is unmapped: that of the file, when there is one, else *)
(* that of the area.                                                       *)
UnmapPages(v) == IF v.name \in File THEN NPages(FSize[v.name]) ELSE v.end - v.start

(* Mutant: unmaps from the address given, not from the start of the area.  *)
MunmapFromAddr ==
    /\ pc = "unmap"
    /\ Goto("dump_vma")
    /\ IF args.flag_unmap_vma /\ FindVma(args.unmap_addr) # {}
       THEN \E v \in FindVma(args.unmap_addr) :
              space' = Unmapped(space, PageOf(args.unmap_addr), UnmapPages(v))
       ELSE UNCHANGED space
    /\ stopped' = FALSE
    /\ UNCHANGED <<changes, args, nopts, tree, fd, ret, effects>>

(* munmap_an_vma(): the table is not read again, and the status is 0.      *)
MunmapAnVma ==
    /\ pc = "unmap"
    /\ Goto("dump_vma")
    /\ \/ /\ ~args.flag_unmap_vma
          /\ UNCHANGED <<space, stopped, ret>>
       \/ /\ args.flag_unmap_vma /\ FindVma(args.unmap_addr) = {}
          /\ ret' = 1
          /\ UNCHANGED <<space, stopped>>
       \/ /\ args.flag_unmap_vma
          /\ \E v \in FindVma(args.unmap_addr), attached \in BOOLEAN :
               /\ Attach(attached)
               /\ space' = IF attached THEN Unmapped(space, v.start, UnmapPages(v))
                                       ELSE space
          /\ stopped' = FALSE
          /\ UNCHANGED ret
    /\ UNCHANGED <<changes, args, nopts, tree, fd, effects>>

(* A file written from its start: what was longer keeps its end.           *)
Overwritten(old, new) ==
    IF old = None \/ Len(new) >= Len(old)
    THEN new ELSE new \o SubSeq(old, Len(new) + 1, Len(old))

(* What memcpy_from_task() leaves in the buffer: memory of the target as   *)
(* far as it could be read, then what malloc() returned.  The result is    *)
(* not looked at.                                                          *)
Buffer(a, n) ==
    [i \in 1..n |-> IF i - 1 \in Reached(space, a, n) THEN a + i - 1 ELSE -1]

(* dump_task_addr_to_file(): the file is created before the address is     *)
(* looked up.                                                              *)
Dumped(a, n) ==
    IF FindVma(a) = {} THEN Overwritten(output, <<>>)
                       ELSE Overwritten(output, Buffer(a, n))

(* Mutant: the dump starts at the address given.                           *)
DumpVmaFromAddr ==
    /\ pc = "dump_vma"
    /\ Goto("dump_addr")
    /\ IF args.flag_dump_vma /\ FindVma(args.vma_addr) # {}
       THEN \E v \in FindVma(args.vma_addr) :
              output' = Dumped(args.vma_addr, (v.end - v.start) * PageSize)
       ELSE UNCHANGED output
    /\ UNCHANGED <<target, args, nopts, session, written>>

(* dump_task_vma_to_file()                                                 *)
DumpVma ==
    /\ pc = "dump_vma"
    /\ Goto("dump_addr")
    /\ IF args.flag_dump_vma /\ FindVma(args.vma_addr) # {}
       THEN \E v \in FindVma(args.vma_addr) :
              output' = Dumped(v.start * PageSize, (v.end - v.start) * PageSize)
       ELSE UNCHANGED output
    /\ UNCHANGED <<target, args, nopts, session, written>>

DumpAddr ==
    /\ pc = "dump_addr"
    /\ Goto("jmp")
    /\ output' = IF args.flag_dump_addr THEN Dumped(args.dump_addr, args.dump_size)
                                        ELSE output
    /\ UNCHANGED <<target, args, nopts, session, written>>

(* run_jmp(): the code to be replaced is read, which finds out whether all *)
(* of it is there.                                                         *)
JmpRead ==
    /\ pc = "jmp"
    /\ pc' = IF /\ args.jmp_addr_from # 0 /\ args.jmp_addr_to # 0
                /\ FindVma(args.jmp_addr_from) # {} /\ FindVma(args.jmp_addr_to) # {}
                /\ Reached(space, args.jmp_addr_from, JmpLen) = 0..(JmpLen - 1)
             THEN "jmp_write" ELSE "close"
    /\ UNCHANGED <<target, args, nopts, session, effects>>

JmpWrite ==
    /\ pc = "jmp_write"
    /\ Goto("close")
    /\ written' = IF args.flag_rdonly THEN {}
                  ELSE {args.jmp_addr_from + i : i \in Reached(space, args.jmp_addr_from, JmpLen)}
    /\ UNCHANGED <<target, args, nopts, session, output>>

(* The command ends, and the kernel lets go of a target it still traces.   *)
CloseTask ==
    /\ pc = "close"
    /\ Goto("done")
    /\ stopped' = FALSE
    /\ UNCHANGED <<target, args, nopts, tree, fd, ret, effects>>

Init ==
    /\ space = Layout
    /\ changes = 0
    /\ args = Defaults
    /\ nopts = 0
    /\ pc = "parse"
    /\ tree = {}
    /\ stopped = FALSE
    /\ fd = "closed"
    /\ ret = 0
    /\ written = {}
    /\ output \in {None, [i \in 1..OldLen |-> -2]}

Next ==
    \/ \E p \in PageNo : AppUnmaps(p) \/ AppMaps(p)
    \/ \E o \in Options : ParseOption(o)
    \/ CheckArgs
    \/ OpenTask
    \/ MprotectARegion
    \/ MapOpen
    \/ MapCall
    \/ MapClose
    \/ MunmapAnVma
    \/ DumpVma
    \/ DumpAddr
    \/ JmpRead
    \/ JmpWrite
    \/ CloseTask

Spec == Init /\ [][Next]_vars

-----------------------------------------------------------------------------
(* Properties                                                              *)

(* --mprotect changes the pages of its region, to the protection its       *)
(* suboptions name and no other, and nothing besides; status 0 means that  *)
(* it changed them all.                                                    *)
ProtectExact ==
    pc = "map" /\ changes = 0 /\ args.mprotect_addr # 0 =>
      LET region == PageOf(args.mprotect_addr)
                      ..(PageOf(args.mprotect_addr + args.mprotect_len) - 1)
          asked(p) == [Layout[p] EXCEPT !.prot = args.mprotect_prot]
      IN  /\ \E o \in {o \in Options : o.opt = "mprotect"} :
               /\ Or(o.addr, args.mprotect_addr) = args.mprotect_addr
               /\ Or(o.len, args.mprotect_len) = args.mprotect_len
               /\ o.prot = args.mprotect_prot
          /\ \A p \in PageNo \ region : space[p] = Layout[p]
          /\ \A p \in region \cap PageNo : Layout[p] # None =>
               \/ space[p] = asked(p)
               \/ ret = 1 /\ space[p] = Layout[p]

(* --map takes nothing from the target, although only the two ends of the  *)
(* range asked for are looked up, in a table that may be old: it leaves    *)
(* the address space alone or adds the file, whole, in free pages.         *)
MapAdds ==
    LET new == {p \in PageNo : space'[p] # space[p]}
    IN  /\ \A p \in new : space[p] = None
        /\ new # {} => \E p \in new :
             new = {q \in PageNo : q >= p /\ (q - p) * PageSize < FSize[args.map_file]}

MapKeepsOthers == [][pc = "map_call" /\ pc' # pc => MapAdds]_vars

(* --unmap of an area that maps a whole file, or none, and that the target *)
(* did not change since the table was read, takes away this area and       *)
(* nothing else.                                                           *)
UnmapExact ==
    [][pc = "unmap" /\ pc' # pc =>
         \A v \in FindVma(args.unmap_addr) \cap AreasOf(space) :
           (v.name \in File => /\ space[v.start].off = 0
                               /\ v.end - v.start = NPages(FSize[v.name]))
             => {p \in PageNo : space'[p] # space[p]} \in {{}, v.start..(v.end - 1)}]_vars

(* However mmap_a_file() leaves: a target whose open(2) gave a descriptor  *)
(* other than 0 is let go, one whose open(2) was refused or gave 0 is so   *)
(* at the end of the command; and a descriptor above 2 was handed to the   *)
(* remote close(2).  Descriptors 0, 1 and 2, where the target had closed   *)
(* them, stay open in it: 0 passes for an error, 1 and 2 are skipped.      *)
Released ==
    /\ pc \notin {"map_call", "map_close"} =>
         fd # "open" /\ (stopped => fd \in {"refused", "zero"})
    /\ pc = "done" => ~stopped

(* What is written is what was asked for, as long as neither the target    *)
(* nor --unmap unmapped anything, since the table is not read again and    *)
(* the target is not stopped: --jmp writes its jump, whole, when its bytes *)
(* and its destination are in the address space, and else not a byte of    *)
(* it; --dump of an area writes all of it and nothing else to a new file.  *)
WritesExact ==
    pc = "close" /\ changes = 0 /\ ~args.flag_unmap_vma =>
      /\ args.jmp_addr_from # 0 =>
           LET bytes == args.jmp_addr_from..(args.jmp_addr_from + JmpLen - 1)
           IN  written = IF \A a \in bytes \cup {args.jmp_addr_to} : IsMapped(space, a)
                         THEN bytes ELSE {}
      /\ args.flag_dump_vma /\ ~args.flag_dump_addr /\ ~args.force =>
           \A v \in FindVma(args.vma_addr) :
             output = [i \in 1..((v.end - v.start) * PageSize) |->
                         v.start * PageSize + i - 1]

=============================================================================
