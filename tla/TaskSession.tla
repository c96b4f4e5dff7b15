----------------------------- MODULE TaskSession -----------------------------
(***************************************************************************)
(* Sessions of one process of the tool with its targets: open_task() and   *)
(* close_task() (task/core.c), the ELF headers read from the memory of a   *)
(* running target, the BFD files opened for its areas (elf/symbol-bfd.c:   *)
(* one per name, counted), the symbols taken from them (task/symbol.c) and *)
(* the task that is current (task/current.c).                              *)
(*                                                                         *)
(* The target is not stopped: between any two reads it may unmap an area   *)
(* (a read returns -1) or exit (a read returns 0 and its /proc files are   *)
(* gone), and another tool may patch or unpatch it and make or remove its  *)
(* directory.  The maps are read at once here; VmaTable has that loop.     *)
(* A name is a model value with traits, the tests of get_vma_type() that   *)
(* it passes.  is_share_lib, is_pie and voffset, which are only printed,   *)
(* are left out, and so are allocations that fail.                         *)
(***************************************************************************)
EXTENDS Integers, FiniteSets, SequencesExt

CONSTANTS
    Task,      \* task_structs the process may have at a time
    Files,     \* what a name stands for, in the target and on the host
    Images,    \* of each target, by address: [name, base], or [name, area]
    Exe,       \* the name of each target's executable
    Flags,     \* arguments of open_task(), sets of bits
    Garbage,   \* headers that memory never written to may hold
    Closable,  \* names of the files that the target unmaps
    Patched,   \* targets that are patched at first
    Page,
    Losses,    \* times that the target or another tool interferes
    None

Name == DOMAIN Files
Pid == DOMAIN Images

ASSUME SessionAssumption ==
    /\ Page \in Nat \ {0} /\ Losses \in Nat
    /\ \A p \in Pid : Exe[p] \in Name /\ \A i \in DOMAIN Images[p] : Images[p][i].name \in Name
    /\ Patched \subseteq Pid
    /\ None \notin Task \cup Name

VARIABLES
    pc,        \* of each task: where open_task() is, "open" or "none"
    pid, flags,
    vmas,      \* the areas of the task, by address
    at,        \* the area that a loop of open_task() is at
    tsyms,     \* the addresses of each symbol, in the order of find_task_sym()
    cache,     \* bfd_elf_file_list: the refcount of each name, 0 if not there
    current,   \* current_task, None for the fallback task
    alive,     \* targets that run
    mapped,    \* their areas that are still there
    dir,       \* of a target, what there is of "dir", "comm", "map_files" and,
               \* in the latter, "patch"
    crashed,   \* the process read through a pointer that is no object
    misuse,    \* when it read or freed what was freed: [pid, disturbed]
    losses,
    lost       \* tasks that others disturbed, or opened with an area missing

vars == <<pc, pid, flags, vmas, at, tsyms, cache, current, alive, mapped, dir,
          crashed, misuse, losses, lost>>
target == <<alive, mapped, losses>>

-----------------------------------------------------------------------------
PageDown(a) == (a \div Page) * Page
PageUp(a) == PageDown(a + Page - 1)

(* The areas the kernel and ld.so make of an image: one per PT_LOAD, the   *)
(* first part of the one that PT_GNU_RELRO is in read-only.                *)
LoadAreas(name, base, h, relro) ==
    LET start == PageDown(base + h.vaddr)
        end   == PageUp(base + h.vaddr + h.filesz)
        cut   == PageDown(base + relro.vaddr + relro.memsz)
        Area(a, b, prot) == [name |-> name, start |-> a, end |-> b, prot |-> prot,
                             off |-> PageDown(h.offset) + (a - start)]
    IN  IF relro.type = "RELRO" /\ start < cut /\ cut < end
        THEN <<Area(start, cut, {"r"}), Area(cut, end, h.flags)>>
        ELSE <<Area(start, end, h.flags)>>

Has(name, type) == SelectSeq(Files[name].phdrs, LAMBDA h : h.type = type)
NoPhdr == [type |-> "NULL", vaddr |-> 0, filesz |-> 0, memsz |-> 0, offset |-> 0, flags |-> {}]
Relro(name) == IF Has(name, "RELRO") = <<>> THEN NoPhdr ELSE Last(Has(name, "RELRO"))

ImageAreas(img) ==
    IF "area" \in DOMAIN img THEN <<img.area>>
    ELSE LET loads == Has(img.name, "LOAD")
         IN  FlattenSeq([i \in DOMAIN loads |->
                LoadAreas(img.name, img.base, loads[i], Relro(img.name))])

Maps == [p \in Pid |-> FlattenSeq([i \in DOMAIN Images[p] |-> ImageAreas(Images[p][i])])]

(* Bits of the argument of open_task(), and flag & f.                      *)
FTO_PROC            == {0}
FTO_VMA_ELF         == {1}
FTO_VMA_ELF_FILE    == {2} \cup FTO_VMA_ELF
FTO_VMA_ELF_SYMBOLS == {3} \cup FTO_VMA_ELF_FILE
FTO_THREADS         == {4}
FTO_FD              == {6}
FTO_AUXV            == {7}
FTO_STATUS          == {8}
Flag(s, f) == flags[s] \cap f # {}

(* get_vma_type(): the first of these tests that the name passes.          *)
TypeTests == <<"libc", "heap", "ld", "stack", "uprobes", "vvar", "vvar_vclock", "vdso",
               "vsyscall", "lib", "anon", "ulpatch">>
VmaType(p, name) ==
    LET passes == SelectSeq(TypeTests, LAMBDA t : t \in Files[name].traits)
    IN  IF name = Exe[p] THEN "self" ELSE IF passes = <<>> THEN "none" ELSE passes[1]

(* The areas a session reads.  The leader of an area is the first of its   *)
(* name in a row.                                                          *)
ReadVmas(p) ==
    LET lines == SelectSeq([i \in DOMAIN Maps[p] |-> i], LAMBDA i : i \in mapped[p])
        Line(i) == Maps[p][lines[i]]
    IN  [i \in DOMAIN lines |->
            [name |-> Line(i).name, start |-> Line(i).start, end |-> Line(i).end,
             off |-> Line(i).off, prot |-> Line(i).prot,
             line |-> lines[i], type |-> VmaType(p, Line(i).name),
             is_elf |-> FALSE, vma_elf |-> "none", phdrs |-> <<>>, load_addr |-> 0,
             phdr |-> NoPhdr, bfd |-> None, ulp |-> FALSE]]

Siblings(v, i) ==
    {j \in DOMAIN v : \A k \in DOMAIN v :
        (i <= k /\ k <= j) \/ (j <= k /\ k <= i) => v[k].name = v[i].name}

-----------------------------------------------------------------------------
(* The symbols of a file that file_load() keeps: those of .symtab, or of   *)
(* .dynsym if there are none, that have a value, a name and a section of   *)
(* their own, then the synthetic ones.                                     *)
Useful(y) == y.value # 0 /\ ~y.debug /\ y.sect # "und"
Slurped(name) == IF Files[name].symtab # <<>> THEN Files[name].symtab ELSE Files[name].dynsym
SortedSyms(name) == SelectSeq(Slurped(name), Useful) \o Files[name].synth

(* The trees of the file: of several symbols of a name, which the version  *)
(* after "@" does not tell apart, the first.                               *)
IsOf(y, kind) == IF kind = "plt" THEN y.plt ELSE y.sect = kind
BfdTree(name, kind) ==
    LET all == SelectSeq(SortedSyms(name), LAMBDA y : IsOf(y, kind))
        first == {i \in DOMAIN all : \A j \in 1..(i - 1) : all[j].name # all[i].name}
    IN  {all[i] : i \in first}
SymName == {y.name : y \in UNION {ToSet(Files[n].symtab \o Files[n].dynsym \o Files[n].synth) :
                                    n \in Name}}

(* link_task_sym() as find_task_sym() sees it: an address more for a name. *)
Link(syms, n, addr) == IF Contains(syms[n], addr) THEN syms ELSE [syms EXCEPT ![n] = Append(@, addr)]

(* Mutant: the addresses in the file are taken for those in the target.    *)
LoadVmaElfSymsRaw(syms, v) ==
    IF ~v.is_elf \/ v.bfd = None \/ v.type = "ulpatch" THEN syms
    ELSE LET Add(kind, acc) ==
                [n \in SymName |->
                    LET of == {y \in BfdTree(v.bfd, kind) : y.name = n}
                    IN  IF of = {} THEN acc[n]
                        ELSE Link(acc, n, (CHOOSE y \in of : TRUE).value)[n]]
         IN  Add("plt", Add("data", Add("text", syms)))

(* task_load_vma_elf_syms().                                               *)
LoadVmaElfSyms(syms, v) ==
    IF ~v.is_elf \/ v.bfd = None \/ v.type = "ulpatch" THEN syms
    ELSE LET Add(kind, acc) ==
                [n \in SymName |->
                    LET of == {y \in BfdTree(v.bfd, kind) : y.name = n}
                    IN  IF of = {} THEN acc[n]
                        ELSE Link(acc, n, (CHOOSE y \in of : TRUE).value + v.load_addr)[n]]
         IN  Add("plt", Add("data", Add("text", syms)))

-----------------------------------------------------------------------------
(* _relro_dl_mprotect(): the area is what follows the read-only part.      *)
RelroMatch(v, load, relro) ==
    /\ relro.type # "NULL"
    /\ PageDown(load + relro.vaddr + relro.memsz) = v.start

(* match_vma_phdr()                                                        *)
MatchVmaPhdr(v, h, load, relro) ==
    \/ /\ PageDown(load + h.vaddr) = v.start
       /\ PageDown(load + h.vaddr) + PageUp(h.filesz + (h.vaddr % Page)) = v.end
       /\ h.flags = v.prot
    \/ h.type = "LOAD" /\ RelroMatch(v, load, relro)

(* Mutant: an area without PT_LOAD is still an ELF area.                   *)
PeekedKept(v, i, phdrs) ==
    LET loads == SelectSeq(phdrs, LAMBDA h : h.type = "LOAD")
    IN  IF loads = <<>> THEN [v EXCEPT ![i].vma_elf = "none", ![i].is_elf = TRUE]
        ELSE [v EXCEPT ![i].vma_elf = "live",
                       ![i].load_addr = v[i].start - Min({h.vaddr : h \in ToSet(loads)})]

(* The end of vma_peek_elf_hdrs(), once the headers of area i are there:   *)
(* no PT_LOAD and it is no ELF, else its load address, and the header that *)
(* it and its siblings match, the last one if there are several.           *)
Peeked(v, i, phdrs) ==
    LET loads == SelectSeq(phdrs, LAMBDA h : h.type = "LOAD")
        segs  == SelectSeq(phdrs, LAMBDA h : h.type \in {"LOAD", "RELRO"})
        load  == v[i].start - Min({h.vaddr : h \in ToSet(loads)})
        Matches(a) == SelectSeq(segs, LAMBDA h : MatchVmaPhdr(a, h, load, Last(segs)))
    IN  IF loads = <<>>
        THEN [v EXCEPT ![i].vma_elf = "none", ![i].is_elf = FALSE]
        ELSE [j \in DOMAIN v |->
                LET own == IF j = i THEN [v[j] EXCEPT !.vma_elf = "live", !.phdrs = phdrs,
                                                      !.load_addr = load]
                                    ELSE v[j]
                IN  IF j \notin Siblings(v, i) \/ Matches(v[j]) = <<>> THEN own
                    ELSE [own EXCEPT !.phdr = Last(Matches(v[j]))]]

-----------------------------------------------------------------------------
(* The areas of the patches of a target.                                   *)
PatchLines ==
    [p \in Pid |-> {k \in DOMAIN Maps[p] : VmaType(p, Maps[p][k].name) = "ulpatch"}]

Init ==
    /\ pc = [s \in Task |-> "none"]
    /\ pid = [s \in Task |-> None] /\ flags = [s \in Task |-> {}]
    /\ vmas = [s \in Task |-> <<>>] /\ at = [s \in Task |-> 0]
    /\ tsyms = [s \in Task |-> [n \in SymName |-> <<>>]]
    /\ cache = [n \in Name |-> 0]
    /\ current = None
    /\ alive = Pid
    /\ mapped = [p \in Pid |-> DOMAIN Maps[p] \ (IF p \in Patched THEN {} ELSE PatchLines[p])]
    /\ dir = [p \in Pid |-> IF p \in Patched THEN {"dir", "comm", "map_files", "patch"} ELSE {}]
    /\ crashed = FALSE /\ misuse = {}
    /\ losses = 0 /\ lost = {}

Goto(s, l) == pc' = [pc EXCEPT ![s] = l]
Runs(s, l) == pc[s] = l /\ ~crashed
Area(s) == vmas[s][at[s]]
SetArea(s, v) == vmas' = [vmas EXCEPT ![s][at[s]] = v]

(* The task read or freed what was freed, if it did.                       *)
Misuses(s, did) ==
    IF did THEN misuse \cup {[pid |-> pid[s], disturbed |-> s \in lost]} ELSE misuse

(* The steps of open_task() that follow one that is done, with the flags.  *)
AfterElf(s) == IF Flag(s, FTO_VMA_ELF_SYMBOLS) THEN "syms"
               ELSE IF Flag(s, FTO_PROC) THEN "proc" ELSE "lists"

(* open_task() of a process that exists; one that does not is refused      *)
(* before anything is done.  No call is made while another one runs.       *)
OpenTask(s, p, f) ==
    /\ ~crashed
    /\ \A t \in Task : pc[t] \in {"none", "open"}
    /\ pc[s] = "none"
    /\ p \in alive
    /\ Goto(s, "auxv")
    /\ pid' = [pid EXCEPT ![s] = p]
    /\ flags' = [flags EXCEPT ![s] = f]
    /\ lost' = IF DOMAIN Maps[p] \ mapped[p] \subseteq PatchLines[p] THEN lost ELSE lost \cup {s}
    /\ UNCHANGED <<vmas, at, tsyms, cache, current, target, dir, crashed, misuse>>

(* The files of /proc that are read first, each in its turn, and what is   *)
(* returned.  Neither status nor comm is checked to be open: once the      *)
(* target is gone they crash.                                              *)
LoadTaskAuxv(s) == IF pid[s] \in alive \/ ~Flag(s, FTO_AUXV) THEN "ok" ELSE "fail"
LoadTaskStatus(s) == IF pid[s] \in alive \/ ~Flag(s, FTO_STATUS) THEN "ok" ELSE "crash"
GetComm(s) == IF pid[s] \in alive THEN "ok" ELSE "crash"
GetExe(s) == IF pid[s] \in alive /\ Files[Exe[pid[s]]].exists THEN "ok" ELSE "fail"
OpenPidMem(s) == IF pid[s] \in alive THEN "ok" ELSE "fail"

(* One of them, at l, before the one at next.                              *)
ReadProc(s, l, next, result) ==
    /\ Runs(s, l)
    /\ \/ result = "ok" /\ Goto(s, next) /\ UNCHANGED crashed
       \/ result = "fail" /\ Goto(s, "free") /\ UNCHANGED crashed
       \/ result = "crash" /\ crashed' = TRUE /\ UNCHANGED pc
    /\ UNCHANGED <<pid, flags, vmas, at, tsyms, cache, current, target, dir, misuse, lost>>

(* The memory of the target may also be refused.                           *)
ReadProcs(s) ==
    \/ ReadProc(s, "auxv", "status", LoadTaskAuxv(s))
    \/ ReadProc(s, "status", "comm", LoadTaskStatus(s))
    \/ ReadProc(s, "comm", "exe", GetComm(s))
    \/ ReadProc(s, "exe", "mem", GetExe(s))
    \/ ReadProc(s, "mem", "maps", OpenPidMem(s))
    \/ ReadProc(s, "mem", "maps", "fail")

(* read_task_vmas(), and the test for libc and the stack.                  *)
ReadTaskVmas(s) ==
    /\ Runs(s, "maps")
    /\ vmas' = [vmas EXCEPT ![s] = IF pid[s] \in alive THEN ReadVmas(pid[s]) ELSE <<>>]
    /\ at' = [at EXCEPT ![s] = 1]
    /\ LET v == ToSet(vmas'[s])
       IN  Goto(s, IF ~(\E a \in v : a.type = "libc" /\ "x" \in a.prot)
                      \/ ~(\E a \in v : a.type = "stack") THEN "free"
                   ELSE IF Flag(s, FTO_VMA_ELF) THEN "ehdr" ELSE AfterElf(s))
    /\ UNCHANGED <<pid, flags, tsyms, cache, current, target, dir, crashed, misuse, lost>>

(* memcpy_from_task(): the result of pread().                              *)
Pread(s) == IF pid[s] \notin alive THEN "short"
            ELSE IF Area(s).line \notin mapped[pid[s]] THEN "error" ELSE "ok"

(* vma_peek_elf_hdrs() up to the program headers.  A read that returns -1  *)
(* is not less than the size, which is unsigned: the header stays 0 and is *)
(* no ELF header.                                                          *)
PeekEhdr(s) ==
    LET v == Area(s)
        skip == \/ v.type \in {"vvar", "vvar_vclock", "stack", "uprobes", "vsyscall"}
                \/ v.is_elf \/ v.vma_elf # "none"
                \/ "etc" \in Files[v.name].traits
        elf == Pread(s) = "ok" /\ Files[v.name].elf /\ v.off = 0
    IN  /\ Runs(s, "ehdr")
        /\ \/ (skip \/ ~elf) /\ Goto(s, "file") /\ UNCHANGED vmas
           \/ /\ ~skip /\ elf /\ v.type = "ulpatch"
              /\ SetArea(s, [v EXCEPT !.is_elf = TRUE])
              /\ Goto(s, "ulp")
           \/ /\ ~skip /\ elf /\ v.type # "ulpatch" /\ Files[v.name].phdrs # <<>>
              /\ SetArea(s, [v EXCEPT !.is_elf = TRUE, !.vma_elf = "live"])
              /\ Goto(s, "phdrs")
           \/ /\ ~skip /\ elf /\ v.type # "ulpatch" /\ Files[v.name].phdrs = <<>>
              /\ vmas' = [vmas EXCEPT ![s] = Peeked(@, at[s], <<>>)]
              /\ Goto(s, "file")
        /\ UNCHANGED <<pid, flags, at, tsyms, cache, current, target, dir, crashed, misuse, lost>>

(* The symbols that a patch in the target's memory defines, at their       *)
(* addresses there.                                                        *)
UlpSyms == [f \in Name |-> SelectSeq(Files[f].symtab, LAMBDA y : y.sect # "und")]

(* alloc_ulp() and load_ulp_info_from_vma(), which links the symbols of    *)
(* the patch.  After a read that fails the node of the list, never         *)
(* initialised, is taken out of it, and the copy that is not there is      *)
(* read.                                                                   *)
LoadUlp(s) ==
    /\ Runs(s, "ulp")
    /\ \/ /\ Pread(s) = "ok"
          /\ SetArea(s, [Area(s) EXCEPT !.ulp = TRUE])
          /\ tsyms' = [tsyms EXCEPT ![s] =
                FoldLeft(LAMBDA acc, y : Link(acc, y.name, y.value), @, UlpSyms[Area(s).name])]
          /\ Goto(s, "file") /\ UNCHANGED crashed
       \/ Pread(s) # "ok" /\ crashed' = TRUE /\ UNCHANGED <<pc, vmas, tsyms>>
    /\ UNCHANGED <<pid, flags, at, cache, current, target, dir, misuse, lost>>

(* The program headers.  A short read frees them and what they belong to,  *)
(* but leaves the pointer and is_elf; -1, which is not less than an        *)
(* unsigned size, leaves them as malloc() gave them.                       *)
PeekPhdrs(s) ==
    /\ Runs(s, "phdrs")
    /\ \/ Pread(s) = "short" /\ SetArea(s, [Area(s) EXCEPT !.vma_elf = "freed"])
       \/ Pread(s) = "error" /\ \E g \in Garbage : vmas' = [vmas EXCEPT ![s] = Peeked(@, at[s], g)]
       \/ Pread(s) = "ok" /\ vmas' = [vmas EXCEPT ![s] = Peeked(@, at[s], Files[Area(s).name].phdrs)]
    /\ Goto(s, "file")
    /\ UNCHANGED <<pid, flags, at, tsyms, cache, current, target, dir, crashed, misuse, lost>>

(* Mutant: the second opening of a file is not counted.                    *)
BfdOpenUncounted(name) ==
    IF cache[name] > 0 THEN [file |-> name, cache |-> cache]
    ELSE IF Files[name].bfd THEN [file |-> name, cache |-> [cache EXCEPT ![name] = 1]]
    ELSE [file |-> None, cache |-> cache]

(* bfd_elf_open(): the file that is open already, or a new one if BFD      *)
(* takes it for an object.                                                 *)
BfdOpen(name) ==
    IF cache[name] > 0 THEN [file |-> name, cache |-> [cache EXCEPT ![name] = @ + 1]]
    ELSE IF Files[name].bfd THEN [file |-> name, cache |-> [cache EXCEPT ![name] = 1]]
    ELSE [file |-> None, cache |-> cache]

(* vma_load_elf_file(), and the next area.                                 *)
LoadElfFile(s) ==
    LET v == Area(s)
        opens == v.is_elf /\ Flag(s, FTO_VMA_ELF_FILE) /\ Files[v.name].exists
    IN  /\ Runs(s, "file")
        /\ \/ /\ opens
              /\ cache' = BfdOpen(v.name).cache
              /\ SetArea(s, [v EXCEPT !.bfd = BfdOpen(v.name).file])
           \/ ~opens /\ UNCHANGED <<cache, vmas>>
        /\ at' = [at EXCEPT ![s] = @ + 1]
        /\ Goto(s, IF at[s] < Len(vmas[s]) THEN "ehdr" ELSE AfterElf(s))
        /\ UNCHANGED <<pid, flags, tsyms, current, target, dir, crashed, misuse, lost>>

(* task_load_vma_elf_syms() for every ELF area, by address.                *)
LoadSyms(s) ==
    /\ Runs(s, "syms")
    /\ tsyms' = [tsyms EXCEPT ![s] = FoldLeft(LoadVmaElfSyms, @, vmas[s])]
    /\ misuse' = Misuses(s, \E v \in ToSet(vmas[s]) :
                              v.bfd # None /\ v.type # "ulpatch" /\ v.vma_elf = "freed")
    /\ Goto(s, IF Flag(s, FTO_PROC) THEN "proc" ELSE "lists")
    /\ UNCHANGED <<pid, flags, vmas, at, cache, current, target, dir, crashed, lost>>

(* The directory of the target, its file comm and its map_files.  What is  *)
(* there already is no error; comm is not checked to be open.              *)
MakeProcDir(s) ==
    /\ Runs(s, "proc")
    /\ \/ dir' = [dir EXCEPT ![pid[s]] = @ \cup {"dir"}] /\ Goto(s, "comm_file")
       \/ "dir" \notin dir[pid[s]] /\ Goto(s, "free") /\ UNCHANGED dir
    /\ UNCHANGED <<pid, flags, vmas, at, tsyms, cache, current, target, crashed, misuse, lost>>

WriteComm(s) ==
    /\ Runs(s, "comm_file")
    /\ \/ "dir" \in dir[pid[s]] /\ dir' = [dir EXCEPT ![pid[s]] = @ \cup {"comm"}]
          /\ Goto(s, "map_files") /\ UNCHANGED crashed
       \/ "dir" \notin dir[pid[s]] /\ crashed' = TRUE /\ UNCHANGED <<pc, dir>>
    /\ UNCHANGED <<pid, flags, vmas, at, tsyms, cache, current, target, misuse, lost>>

MakeMapFiles(s) ==
    /\ Runs(s, "map_files")
    /\ \/ "dir" \in dir[pid[s]] /\ dir' = [dir EXCEPT ![pid[s]] = @ \cup {"map_files"}]
          /\ Goto(s, "lists")
       \/ "map_files" \notin dir[pid[s]] /\ Goto(s, "free") /\ UNCHANGED dir
    /\ UNCHANGED <<pid, flags, vmas, at, tsyms, cache, current, target, crashed, misuse, lost>>

(* The lists of threads and of descriptors, which need the target, and     *)
(* set_current_task().                                                     *)
ReadLists(s) ==
    /\ Runs(s, "lists")
    /\ \/ /\ pid[s] \in alive \/ ~Flag(s, FTO_THREADS \cup FTO_FD)
          /\ Goto(s, "open")
          /\ current' = s
       \/ /\ pid[s] \notin alive /\ Flag(s, FTO_THREADS \cup FTO_FD)
          /\ Goto(s, "free")
          /\ UNCHANGED current
    /\ UNCHANGED <<pid, flags, vmas, at, tsyms, cache, target, dir, crashed, misuse, lost>>

-----------------------------------------------------------------------------
(* The areas of the task whose BFD file close_task() closes.               *)
Holds(s, n) == {i \in DOMAIN vmas[s] : vmas[s][i].is_elf /\ vmas[s][i].bfd = n}

(* reset_current_task(), whichever task is current.                        *)
ResetCurrent(s) == None

(* vma_free_elf() frees what is freed, or what is not there.               *)
FreesTwice(v) == v.is_elf /\ v.type # "ulpatch" /\ v.vma_elf # "live"

(* The end of close_task(): the task is freed, and current reset.          *)
FreeTask(s) ==
    /\ Goto(s, "none")
    /\ pid' = [pid EXCEPT ![s] = None]
    /\ lost' = lost \ {s}
    /\ current' = ResetCurrent(s)

(* __check_and_free_task_proc(): the directory is cleaned when the table   *)
(* has no patch.                                                           *)
Cleans(s) == Flag(s, FTO_PROC) /\ ~\E a \in ToSet(vmas[s]) : a.type = "ulpatch"

(* close_task(), of a task that is open or could not be opened, up to the  *)
(* directory.  The table, which is not used afterwards, goes at once.      *)
CloseTask(s) ==
    /\ Runs(s, "open") \/ Runs(s, "free")
    /\ \A t \in Task \ {s} : pc[t] \in {"none", "open"}
    /\ cache' = IF Flag(s, FTO_VMA_ELF_FILE)
                THEN [n \in Name |-> IF Cardinality(Holds(s, n)) > cache[n] THEN 0
                                    ELSE cache[n] - Cardinality(Holds(s, n))]
                ELSE cache
    /\ misuse' = Misuses(s, \/ Flag(s, FTO_VMA_ELF) /\ \E v \in ToSet(vmas[s]) : FreesTwice(v)
                            \/ /\ Flag(s, FTO_VMA_ELF_FILE)
                               /\ \E n \in Name : Cardinality(Holds(s, n)) > cache[n])
    /\ flags' = [flags EXCEPT ![s] = {}]
    /\ vmas' = [vmas EXCEPT ![s] = <<>>] /\ at' = [at EXCEPT ![s] = 0]
    /\ tsyms' = [tsyms EXCEPT ![s] = [n \in SymName |-> <<>>]]
    /\ \/ Cleans(s) /\ Goto(s, "unlink_comm") /\ UNCHANGED <<pid, lost, current>>
       \/ ~Cleans(s) /\ FreeTask(s)
    /\ UNCHANGED <<target, dir, crashed>>

(* unlink(2), and rmdir(2), which fails on a directory with a file in it.  *)
Unlink(d, e) == d \ {e}
Rmdir(d, e) ==
    LET inside == IF e = "map_files" THEN {"patch"} ELSE {"comm", "map_files"}
    IN  IF d \cap inside = {} THEN d \ {e} ELSE d

(* __clean_task_proc(): three calls, none of which stops at the failure of *)
(* another.  Other tools work in the same directory in between.            *)
UnlinkComm(s) ==
    /\ Runs(s, "unlink_comm")
    /\ dir' = [dir EXCEPT ![pid[s]] = Unlink(@, "comm")]
    /\ Goto(s, "rmdir_map_files")
    /\ UNCHANGED <<pid, flags, vmas, at, tsyms, cache, current, target, crashed, misuse, lost>>

(* Mutant: the files in the directory are removed with it.                 *)
RmdirMapFilesForced(s) ==
    /\ Runs(s, "rmdir_map_files")
    /\ dir' = [dir EXCEPT ![pid[s]] = Rmdir(Unlink(@, "patch"), "map_files")]
    /\ Goto(s, "rmdir_dir")
    /\ UNCHANGED <<pid, flags, vmas, at, tsyms, cache, current, target, crashed, misuse, lost>>

RmdirMapFiles(s) ==
    /\ Runs(s, "rmdir_map_files")
    /\ dir' = [dir EXCEPT ![pid[s]] = Rmdir(@, "map_files")]
    /\ Goto(s, "rmdir_dir")
    /\ UNCHANGED <<pid, flags, vmas, at, tsyms, cache, current, target, crashed, misuse, lost>>

RmdirDir(s) ==
    /\ Runs(s, "rmdir_dir")
    /\ dir' = [dir EXCEPT ![pid[s]] = Rmdir(@, "dir")]
    /\ FreeTask(s)
    /\ UNCHANGED <<flags, vmas, at, tsyms, cache, target, crashed, misuse>>

-----------------------------------------------------------------------------
(* What others do.  A task is marked when they do it while it is opened.   *)
Interfere(p) ==
    /\ ~crashed
    /\ losses < Losses
    /\ losses' = losses + 1
    /\ lost' = lost \cup {s \in Task : pid[s] = p /\ pc[s] # "open"}
    /\ UNCHANGED <<pc, pid, flags, vmas, at, tsyms, cache, current, crashed, misuse>>

(* The target exits.                                                       *)
Exit(p) ==
    /\ p \in alive
    /\ Interfere(p)
    /\ alive' = alive \ {p}
    /\ UNCHANGED <<mapped, dir>>

(* The target unmaps an area, a library that it closes for example.        *)
Unmap(p, k) ==
    /\ p \in alive
    /\ k \in mapped[p] /\ Maps[p][k].name \in Closable
    /\ Interfere(p)
    /\ mapped' = [mapped EXCEPT ![p] = @ \ {k}]
    /\ UNCHANGED <<alive, dir>>

(* Another tool opens a session with the target, patches or unpatches it,  *)
(* or closes its session.                                                  *)
OtherOpens(p) ==
    /\ Interfere(p)
    /\ dir' = [dir EXCEPT ![p] = @ \cup {"dir", "comm", "map_files"}]
    /\ UNCHANGED <<alive, mapped>>

OtherPatches(p) ==
    /\ p \in alive /\ "map_files" \in dir[p]
    /\ PatchLines[p] \ mapped[p] # {}
    /\ Interfere(p)
    /\ mapped' = [mapped EXCEPT ![p] = @ \cup PatchLines[p]]
    /\ dir' = [dir EXCEPT ![p] = @ \cup {"patch"}]
    /\ UNCHANGED alive

OtherUnpatches(p) ==
    /\ p \in alive /\ PatchLines[p] \cap mapped[p] # {}
    /\ Interfere(p)
    /\ mapped' = [mapped EXCEPT ![p] = @ \ PatchLines[p]]
    /\ dir' = [dir EXCEPT ![p] = Unlink(@, "patch")]
    /\ UNCHANGED alive

OtherCloses(p) ==
    /\ dir[p] # {}
    /\ Interfere(p)
    /\ dir' = [dir EXCEPT ![p] = Rmdir(Rmdir(Unlink(@, "comm"), "map_files"), "dir")]
    /\ UNCHANGED <<alive, mapped>>

Call(s) ==
    \/ ReadProcs(s)
    \/ ReadTaskVmas(s) \/ PeekEhdr(s) \/ LoadUlp(s) \/ PeekPhdrs(s) \/ LoadElfFile(s)
    \/ LoadSyms(s) \/ MakeProcDir(s) \/ WriteComm(s) \/ MakeMapFiles(s) \/ ReadLists(s)
    \/ CloseTask(s) \/ UnlinkComm(s) \/ RmdirMapFiles(s) \/ RmdirDir(s)

Others(p) ==
    \/ OtherOpens(p) \/ OtherPatches(p) \/ OtherUnpatches(p) \/ OtherCloses(p)

Next ==
    \/ \E s \in Task : Call(s) \/ \E p \in Pid, f \in Flags : OpenTask(s, p, f)
    \/ \E p \in Pid : Exit(p) \/ Others(p) \/ \E k \in DOMAIN Maps[p] : Unmap(p, k)

Spec == Init /\ [][Next]_vars

-----------------------------------------------------------------------------
(* The count of an open BFD file is the number of areas, of all the tasks  *)
(* of the process, that have it, so that none has a file that was freed    *)
(* and none is left behind when all are closed (bfd_elf_open(),            *)
(* bfd_elf_close(), symbol-bfd.c:253 and :504).                            *)
RefsExact ==
    \A n \in Name : cache[n] = Cardinality(UNION {{s} \X Holds(s, n) : s \in Task})

(* open_task() and close_task() free nothing twice, and read nothing that  *)
(* was freed, but of a target that exited while this very task was opened, *)
(* however areas come and go (the short read of vma_peek_elf_hdrs() leaves *)
(* the pointer it freed, for task_load_vma_elf_syms() and vma_free_elf()), *)
(* and they crash only when the target or another tool took away what they *)
(* were reading (load_task_status(), __get_comm(), the file comm).         *)
(* close_task(), also of a task that could not be opened, leaves no        *)
(* pointer to what it freed in current: the fallback task or a task that   *)
(* was opened.                                                             *)
BreaksOnlyWhenLost ==
    /\ \A m \in misuse : m.disturbed /\ m.pid \notin alive
    /\ crashed => losses > 0
    /\ current # None =>
          pc[current] \in {"open", "unlink_comm", "rmdir_map_files", "rmdir_dir"}

(* What a task opened undisturbed knows of the images is true.  A program  *)
(* header that an area was matched with covers the area, at the base of    *)
(* the image the area is of (match_vma_phdr()).  Of a name that a patch    *)
(* defines find_task_sym() has the address in the patch first              *)
(* (load_ulp_info_from_vma()); of another name, defined once, the address  *)
(* in the image, even if an area after the first shows an ELF header too   *)
(* (task_load_vma_elf_syms()).                                             *)
Definitions ==
    [p \in Pid |-> [n \in SymName |->
        UNION {{[value |-> y.value, sect |-> y.sect, img |-> img] : y \in
                    {y \in ToSet(SortedSyms(img.name)) : y.name = n}} :
               img \in {m \in ToSet(Images[p]) : "base" \in DOMAIN m}}]]
HeadersInside(s) ==
    \A v \in ToSet(vmas[s]) : v.phdr.type # "NULL" =>
        \E i \in DOMAIN Images[pid[s]] :
            LET img == Images[pid[s]][i]
            IN  /\ img.name = v.name /\ "base" \in DOMAIN img
                /\ PageDown(img.base + v.phdr.vaddr) <= v.start
                /\ v.end <= PageUp(img.base + v.phdr.vaddr + v.phdr.memsz)
UlpValues ==
    [f \in Name |-> [n \in SymName |->
        {y.value : y \in {z \in ToSet(UlpSyms[f]) : z.name = n}}]]
FirstIn(s, n, addrs) == tsyms[s][n] # <<>> /\ tsyms[s][n][1] \in addrs
SymbolsThere(s) ==
    LET patches == {v.name : v \in {w \in ToSet(vmas[s]) : w.ulp}}
    IN  \A n \in SymName :
          LET own == UNION {UlpValues[f][n] : f \in patches}
          IN  IF own # {} THEN FirstIn(s, n, own)
              ELSE \A d \in Definitions[pid[s]][n] :
                      /\ Definitions[pid[s]][n] = {d}
                      /\ Files[d.img.name].exists /\ Files[d.img.name].bfd
                      /\ d.sect \in {"text", "data"}
                      => FirstIn(s, n, {d.img.base + d.value})
ImagesExact ==
    \A s \in Task : pc[s] = "open" /\ s \notin lost =>
        /\ HeadersInside(s)
        /\ Flag(s, FTO_VMA_ELF_SYMBOLS) => SymbolsThere(s)

(* A target that runs and is patched has its directory and in it the file  *)
(* of its patch, although close_task() goes by a table that is older than  *)
(* the patch of another tool, or by none if open_task() failed, and other  *)
(* tools work in the directory between its calls: rmdir(2) is what saves   *)
(* it (__clean_task_proc()).  And a process left alone leaves no directory *)
(* of a target without patches, also when open_task() failed halfway.      *)
DirFollowsPatches ==
    \A p \in Pid :
        /\ p \in alive /\ PatchLines[p] \cap mapped[p] # {} =>
              {"dir", "map_files", "patch"} \subseteq dir[p]
        /\ losses = 0 /\ p \notin Patched /\ (\A s \in Task : pc[s] = "none") =>
              dir[p] = {}

=============================================================================
