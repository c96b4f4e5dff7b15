------------------------------ MODULE LoadObject ------------------------------
(***************************************************************************)
(* init_patch() from the object file to the jump (patch/patch.c): the file *)
(* is copied into memory shared with the target, its sections, symbols and *)
(* relocations are rewritten in place for the address it has there, and    *)
(* the target function is made to jump into it.  A later session reads the *)
(* symbols back out of the target (load_ulp_info_from_vma()).              *)
(*                                                                         *)
(* A loop of the code is an action per element, with i the element: the    *)
(* steps of the loader are those of one thread.  Section headers, symbols  *)
(* and relocations are functions on indexes from 0; the places that are    *)
(* relocated are cells (see Relocate) at offsets in the file.              *)
(***************************************************************************)
EXTENDS Relocate, FiniteSetsExt

CONSTANTS
    Cases,      \* what is loaded, and where (see CaseAssumption)
    Faults,     \* which system calls may fail
    None

(* Section headers and symbols as the ELF format has them.                 *)
Header == [name : STRING, type : STRING, alloc : BOOLEAN, off : Int, size : Int,
           info : Int, addr : Int]
Symbol == [name : STRING, ndx : Int, value : Int, weak : BOOLEAN, tls : BOOLEAN, lto : BOOLEAN]

(* A table of entries: an array that is not empty.                         *)
IsTable(t, entries) ==
    /\ \E n \in DOMAIN t : n \in Nat /\ DOMAIN t = 0..n
    /\ t \in [DOMAIN t -> entries]

(* A case is an object file; arch, and the addresses hdr and target that   *)
(* the copy has in the host and in the target; tsym, what find_task_sym()  *)
(* knows, with 0 for a name it does not; and ulps, the build ids of the    *)
(* patches the target has.  Both tables are arrays; symbol 0 is the null   *)
(* symbol, which no function is.                                           *)
Loadable(c) ==
    /\ c.arch \in {"x86_64", "aarch64"}
    /\ c.target \in Int /\ c.obj.len \in Int
    /\ c.obj.bid # None
    /\ IsTable(c.obj.secs, Header)
    /\ DOMAIN c.obj.rels \subseteq DOMAIN c.obj.secs
    /\ IsTable(c.obj.syms, Symbol)
    /\ \A k \in DOMAIN c.obj.syms :
          /\ c.obj.syms[k].name \in DOMAIN c.tsym
          /\ c.obj.syms[k].ndx \in DOMAIN c.obj.secs \cup {SHN_ABS, SHN_COMMON}
    /\ c.obj.syms[0].ndx = SHN_UNDEF /\ c.obj.syms[0].name # c.obj.src
    /\ \A n \in DOMAIN c.tsym : c.tsym[n] \in Int

CaseConstants == \A c \in Cases : Loadable(c)

ASSUME CaseAssumption == CaseConstants

VARIABLES
    env,     \* the case
    pc,      \* where the loader is
    err,     \* err of init_patch(), "OK" for 0
    i,       \* index of a loop
    r,       \* index of the loop over the entries of a relocation section
    ret,     \* ret of simplify_symbols()
    check,   \* overflow_check of the relocation section i
    info,    \* load_info: which of its four pointers are set
    sec,     \* section headers
    sym,     \* symbol table
    mem,     \* cells
    ulp,     \* .ulpatch.info: addresses of the two functions
    target,  \* [area, file, jump]: the target's area, the patch file, the jump
    linked   \* symbols a later session read from the patch

(* The object file.                                                        *)
obj == env.obj

vars == <<env, pc, err, i, r, ret, check, info, sec, sym, mem, ulp, target, linked>>
image == <<sec, sym, mem>>
loop == <<i, r, ret, check>>

(* A loader's state that a step outside of the loops leaves alone.         *)
NoImage == UNCHANGED <<env, image, loop, linked>>

Empty == [mmap |-> FALSE, path |-> FALSE, name |-> FALSE, bid |-> None]
NoUlp == [target |-> 0, patch |-> 0]

Init ==
    /\ env \in Cases
    /\ pc = "alloc"
    /\ err = "OK"
    /\ i = 0 /\ r = 0 /\ ret = "OK" /\ check = FALSE
    /\ info = Empty
    /\ sec = obj.secs
    /\ sym = obj.syms
    /\ mem = obj.cells
    /\ ulp = NoUlp
    /\ target = [area |-> FALSE, file |-> FALSE, jump |-> 0]
    /\ linked = {}

Goto(l, e) == pc' = l /\ err' = e

May(f) == f \in Faults

-----------------------------------------------------------------------------
(* alloc_patch_file()                                                      *)

NoObject ==
    /\ pc = "alloc"
    /\ ~obj.exists
    /\ Goto("remove", "EEXIST")
    /\ UNCHANGED <<info, ulp, target>> /\ NoImage

(* The file is shorter than a header, or cannot be created or filled: the  *)
(* names, and the mapping if there is one, are left to init_patch().       *)
AllocFails ==
    /\ pc = "alloc"
    /\ obj.exists
    /\ \/ /\ ~obj.long
          /\ info' = [info EXCEPT !.path = TRUE, !.name = TRUE]
          /\ target' = target
       \/ /\ obj.long /\ May("shmem")
          /\ info' = [info EXCEPT !.path = TRUE, !.name = TRUE]
          /\ target' \in {target, [target EXCEPT !.file = TRUE]}
       \/ /\ obj.long /\ May("copy")
          /\ info' = [info EXCEPT !.path = TRUE, !.name = TRUE, !.mmap = TRUE]
          /\ target' = [target EXCEPT !.file = TRUE]
    /\ Goto("remove", "EFAULT")
    /\ UNCHANGED ulp /\ NoImage

(* Mutant: the name of the file is kept, and the load goes on.             *)
AllocReleasesNot ==
    /\ pc = "alloc"
    /\ obj.exists /\ obj.long
    /\ ~obj.elf \/ ~obj.fits
    /\ info' = [info EXCEPT !.path = TRUE]
    /\ target' = [target EXCEPT !.file = TRUE]
    /\ IF obj.elf THEN Goto("chown", "OK") ELSE Goto("remove", "EINVAL")
    /\ UNCHANGED ulp /\ NoImage

(* Not an ELF file: an error.  A section table outside of the file: the    *)
(* memory is released, and err is still 0.                                 *)
AllocReleases ==
    /\ pc = "alloc"
    /\ obj.exists /\ obj.long
    /\ ~obj.elf \/ ~obj.fits
    /\ info' = Empty
    /\ target' = [target EXCEPT !.file = TRUE]
    /\ IF obj.elf THEN Goto("chown", "OK") ELSE Goto("remove", "EINVAL")
    /\ UNCHANGED ulp /\ NoImage

Alloc ==
    /\ pc = "alloc"
    /\ obj.exists /\ obj.long /\ obj.elf /\ obj.fits
    /\ info' = [info EXCEPT !.path = TRUE, !.name = TRUE, !.mmap = TRUE]
    /\ target' = [target EXCEPT !.file = TRUE]
    /\ Goto("chown", "OK")
    /\ UNCHANGED ulp /\ NoImage

-----------------------------------------------------------------------------
(* init_patch(): chown(), create_mmap_vma_file()                           *)

Chown ==
    /\ pc = "chown"
    /\ \/ Goto("mmap", "OK")
       \/ May("chown") /\ Goto("remove", "EPERM")
    /\ UNCHANGED <<info, ulp, target>> /\ NoImage

(* The target opens the file by info->patch.path.                          *)
CreateMmapVmaFile ==
    /\ pc = "mmap"
    /\ IF ~info.path
       THEN Goto("crashed", "OK") /\ UNCHANGED <<info, target>>
       ELSE \/ /\ Goto("setup", "OK")
               /\ target' = [target EXCEPT !.area = TRUE]
               /\ UNCHANGED info
            \/ /\ May("mmap")
               /\ Goto("remove", "EFAULT")
               /\ info' = Empty
               /\ UNCHANGED target
    /\ UNCHANGED ulp /\ NoImage

-----------------------------------------------------------------------------
(* find_sec(): the first section of a name, 0 if there is none.            *)
FindSec(name) ==
    LET found == {k \in DOMAIN sec : sec[k].name = name}
    IN  IF found = {} THEN 0 ELSE Min(found)

(* The first symbol table, 0 if there is none (the search starts at 1).    *)
SymSec ==
    LET found == {k \in DOMAIN sec \ {0} : sec[k].type = "SYMTAB"}
    IN  IF found = {} THEN 0 ELSE Min(found)

(* setup_load_info() up to the note: what it returns.                      *)
SetupBefore ==
    LET note == FindSec(".note.gnu.build-id")
    IN  IF FindSec(".ulpatch.info") = 0 THEN "EEXIST"
        ELSE IF ~obj.version THEN "EINVAL"
        ELSE IF FindSec(".ulpatch.strtab") = 0 THEN "EEXIST"
        ELSE IF note = 0 \/ sec[note].type # "NOTE" THEN "EEXIST"
        ELSE "OK"

(* setup_load_info() after it.                                             *)
SetupAfter ==
    IF ~obj.magic THEN "ENOENT" ELSE IF SymSec = 0 THEN "ENOEXEC" ELSE "OK"

BuildId == IF SetupBefore = "OK" /\ obj.note = "BUILD_ID" THEN obj.bid ELSE None

SetupLoadInfo ==
    /\ pc = "setup"
    /\ info' = [info EXCEPT !.bid = BuildId]
    /\ LET e == IF SetupBefore = "OK" THEN SetupAfter ELSE SetupBefore
       IN  Goto(IF e = "OK" THEN "dup" ELSE "free", e)
    /\ UNCHANGED <<ulp, target>> /\ NoImage

(* load_patch(): strcmp() of the build id with those on ulp_list           *)
CheckBuildId ==
    /\ pc = "dup"
    /\ IF env.ulps # {} /\ info.bid = None THEN Goto("crashed", "OK") /\ UNCHANGED i
       ELSE IF info.bid \in env.ulps THEN Goto("free", "EALREADY") /\ UNCHANGED i
       ELSE Goto("rewrite", "OK") /\ i' = 1
    /\ UNCHANGED <<env, r, ret, check, info, image, ulp, target, linked>>

-----------------------------------------------------------------------------
(* rewrite_section_headers()                                               *)

SecName(k) == sec[k].name

Truncated(k) == sec[k].type # "NOBITS" /\ obj.len < sec[k].off + sec[k].size

Bss(k) == (sec[k].type = "NOBITS" \/ SecName(k) = ".bss") /\ sec[k].size > 0

RewriteSection ==
    /\ pc = "rewrite"
    /\ i \in DOMAIN sec
    /\ IF Truncated(i) THEN Goto("free", "ENOEXEC") /\ UNCHANGED <<i, sec>>
       ELSE IF Bss(i) THEN Goto("free", "EFAULT") /\ UNCHANGED <<i, sec>>
       ELSE /\ sec' = [sec EXCEPT ![i].addr = Wrap(env.target + sec[i].off)]
            /\ i' = i + 1
            /\ UNCHANGED <<pc, err>>
    /\ UNCHANGED <<env, r, ret, check, info, sym, mem, ulp, target, linked>>

(* The info section is not relocated: it holds what the loader fills in.   *)
RewriteDone ==
    /\ pc = "rewrite"
    /\ i \notin DOMAIN sec
    /\ sec' = [sec EXCEPT ![0].addr = 0, ![FindSec(".ulpatch.info")].alloc = FALSE]
    /\ Goto("simplify", "OK")
    /\ i' = 1
    /\ UNCHANGED <<env, r, ret, check, info, sym, mem, ulp, target, linked>>

-----------------------------------------------------------------------------
(* simplify_symbols(), with resolve_symbol()                               *)

Resolve(name) == env.tsym[name]

(* The symbol after its turn.                                              *)
Simplified(s) ==
    CASE s.ndx \in {SHN_COMMON, SHN_ABS} -> s
      [] s.ndx = SHN_UNDEF -> IF Resolve(s.name) # 0
                            THEN [s EXCEPT !.value = Resolve(s.name)] ELSE s
      [] OTHER -> [s EXCEPT !.value = Wrap(@ + sec[s.ndx].addr)]

(* ret after its turn: a symbol that is resolved sets it back to 0.        *)
RetAfter(s) ==
    CASE s.ndx = SHN_COMMON -> IF s.lto THEN ret ELSE "ENOEXEC"
      [] s.ndx = SHN_UNDEF -> IF Resolve(s.name) # 0 THEN "OK"
                            ELSE IF s.weak THEN ret ELSE "ENOENT"
      [] OTHER -> ret

SimplifySymbol ==
    /\ pc = "simplify"
    /\ i \in DOMAIN sym
    /\ sym' = [sym EXCEPT ![i] = Simplified(@)]
    /\ ret' = RetAfter(sym[i])
    /\ i' = i + 1
    /\ UNCHANGED <<env, pc, err, r, check, info, sec, mem, ulp, target, linked>>

SimplifyDone ==
    /\ pc = "simplify"
    /\ i \notin DOMAIN sym
    /\ Goto(IF ret = "OK" THEN "apply" ELSE "free", ret)
    /\ i' = 0
    /\ UNCHANGED <<env, r, ret, check, info, image, ulp, target, linked>>

-----------------------------------------------------------------------------
(* apply_relocations()                                                     *)

Skipped(k) == sec[k].info \notin DOMAIN sec \/ ~sec[sec[k].info].alloc

(* A section that is none of relocations is passed over, as is one for a   *)
(* section that is not in memory; SHT_REL is refused.                      *)
ApplySection ==
    /\ pc = "apply"
    /\ i \in DOMAIN sec
    /\ IF Skipped(i) \/ sec[i].type \notin {"REL", "RELA"}
       THEN i' = i + 1 /\ UNCHANGED <<pc, err, r, check>>
       ELSE IF sec[i].type = "REL" THEN Goto("free", "ENOEXEC") /\ UNCHANGED <<i, r, check>>
       ELSE /\ Goto("rela", "OK")
            /\ r' = 0
            /\ check' \in IF env.arch = "aarch64" THEN BOOLEAN ELSE {FALSE}
            /\ UNCHANGED i
    /\ UNCHANGED <<env, ret, info, image, ulp, target, linked>>

Entries(k) == obj.rels[k]

(* The offset in the file of the place an entry is about.                  *)
PlaceOf(k, e) == sec[sec[k].info].off + e.off

(* arch_apply_relocate_add() for an entry e of section k.                  *)
Applied(k, e) ==
    LET s == sym[e.sym]
        o == PlaceOf(k, e)
    IN  IF env.arch = "x86_64"
        THEN X86Apply(e.type, s, e.add, Entries(k)[0].add, env.target,
                      env.target + o, mem[o])
        ELSE A64Apply(e.type, s, e.add, env.hdr + o, mem[o], check)

ApplyRela ==
    /\ pc = "rela"
    /\ r \in DOMAIN Entries(i)
    /\ LET e == Entries(i)[r]
           a == Applied(i, e)
       IN  /\ mem' = [mem EXCEPT ![PlaceOf(i, e)] = a.cell]
           /\ IF a.err = "OK" THEN r' = r + 1 /\ UNCHANGED <<pc, err>>
                              ELSE Goto("free", a.err) /\ UNCHANGED r
           /\ check' = CheckAfter(e.type, check)
    /\ UNCHANGED <<env, i, ret, info, sec, sym, ulp, target, linked>>

RelaDone ==
    /\ pc = "rela"
    /\ r \notin DOMAIN Entries(i)
    /\ Goto("apply", "OK")
    /\ i' = i + 1
    /\ r' = 0 /\ check' = FALSE
    /\ UNCHANGED <<env, ret, info, image, ulp, target, linked>>

ApplyDone ==
    /\ pc = "apply"
    /\ i \notin DOMAIN sec
    /\ Goto("solve", "OK")
    /\ UNCHANGED <<info, ulp, target>> /\ NoImage

-----------------------------------------------------------------------------
(* solve_patch_symbols()                                                   *)

(* The symbols named as the source function of the patch; the last counts. *)
SrcSyms == {k \in DOMAIN sym : sym[k].name = obj.src}

(* Mutant: the first symbol of the name counts, with its value before      *)
(* simplify_symbols().                                                     *)
SrcAddrRaw == obj.syms[Max(SrcSyms)].value

SrcAddr == sym[Max(SrcSyms)].value

SolvePatchSymbols ==
    /\ pc = "solve"
    /\ IF env.tsym[obj.dst] = 0 \/ SrcSyms = {}
       THEN Goto("free", "ENOENT") /\ UNCHANGED ulp
       ELSE /\ Goto("kick", "OK")
            /\ ulp' = [target |-> env.tsym[obj.dst], patch |-> SrcAddr]
    /\ UNCHANGED <<info, target>> /\ NoImage

(* kick_target_process(): the old code is read, the image copied, and the  *)
(* jump written; each can fail.                                            *)
KickTarget ==
    /\ pc = "kick"
    /\ \/ Goto("free", "OK") /\ target' = [target EXCEPT !.jump = ulp.patch]
       \/ May("kick") /\ Goto("free", "ENOEXEC") /\ UNCHANGED target
    /\ UNCHANGED <<info, ulp>> /\ NoImage

-----------------------------------------------------------------------------
(* The end of load_patch() and of init_patch()                             *)

(* release_load_info()                                                     *)
FreeCopy ==
    /\ pc = "free"
    /\ info' = Empty
    /\ Goto(IF err = "OK" THEN "done" ELSE "delete", err)
    /\ UNCHANGED <<ulp, target>> /\ NoImage

(* delete_mmap_vma_file(), and release_load_info() once more               *)
DeleteMmapVmaFile ==
    /\ pc = "delete"
    /\ target' = [target EXCEPT !.area = FALSE]
    /\ info' = Empty
    /\ Goto("remove", err)
    /\ UNCHANGED ulp /\ NoImage

(* Mutant: the file of a patch that failed is left.                        *)
RemoveUlpFileNot ==
    /\ pc = "remove"
    /\ Goto("failed", err)
    /\ UNCHANGED <<info, ulp, target>> /\ NoImage

RemoveUlpFile ==
    /\ pc = "remove"
    /\ target' = [target EXCEPT !.file = FALSE]
    /\ Goto("failed", err)
    /\ UNCHANGED <<info, ulp>> /\ NoImage

-----------------------------------------------------------------------------
(* load_ulp_info_from_vma() in a later session: what it links.             *)

(* Mutant: every symbol but the first is taken.                            *)
ReadSymsAll == {k \in DOMAIN sym : k # 0}

ReadSyms == {k \in DOMAIN sym : ~IsUndefSymbol(sym[k])}

(* strdup() of a build id that is not there ends the tool.                 *)
ReadBack ==
    /\ pc = "done"
    /\ linked' = {<<sym[k].name, sym[k].value>> : k \in ReadSyms}
    /\ Goto(IF BuildId = None THEN "crashed" ELSE "read", err)
    /\ UNCHANGED <<env, loop, info, image, ulp, target>>

Stop ==
    /\ pc \in {"failed", "read", "crashed"}
    /\ UNCHANGED vars

Next ==
    \/ NoObject \/ AllocFails \/ AllocReleases \/ Alloc
    \/ Chown \/ CreateMmapVmaFile
    \/ SetupLoadInfo \/ CheckBuildId
    \/ RewriteSection \/ RewriteDone
    \/ SimplifySymbol \/ SimplifyDone
    \/ ApplySection \/ ApplyRela \/ RelaDone \/ ApplyDone
    \/ SolvePatchSymbols \/ KickTarget
    \/ FreeCopy \/ DeleteMmapVmaFile \/ RemoveUlpFile
    \/ ReadBack
    \/ Stop

Spec == Init /\ [][Next]_vars

-----------------------------------------------------------------------------
(* The reference: addresses and values from the object, the target's       *)
(* symbols and the ABIs of the two architectures.                          *)

(* The address a symbol of the object has in the target.                   *)
Final(s) ==
    CASE s.ndx = SHN_UNDEF -> IF env.tsym[s.name] # 0 THEN env.tsym[s.name] ELSE s.value
      [] s.ndx \in {SHN_COMMON, SHN_ABS} -> s.value
      [] OTHER -> Wrap(env.target + obj.secs[s.ndx].off + s.value)

(* The relocation sections for what is in memory, .ulpatch.info apart.     *)
RelaSecs ==
    {k \in DOMAIN obj.rels :
        LET t == obj.secs[k].info
        IN  t \in DOMAIN obj.secs /\ obj.secs[t].alloc /\ obj.secs[t].name # ".ulpatch.info"}

RefPlace(k, e) == obj.secs[obj.secs[k].info].off + e.off
RefSum(e) == Final(obj.syms[e.sym]) + e.add

(* x86_64.  A field of 32 bits holds the low half of a distance, which is  *)
(* all of it when it is in reach: the loader does not check that.  It      *)
(* makes no GOT: an entry for one gets the distance to the symbol itself,  *)
(* or, for a thread-local one that the object defines, to an address that  *)
(* is made of the section's FIRST addend and target_hdr; a place that asks *)
(* for an offset from the thread pointer stays as it is in the file.       *)
X86Sum(k, e) ==
    IF e.type \in X86Got /\ ~IsUndefSymbol(obj.syms[e.sym]) /\ obj.syms[e.sym].tls
    THEN obj.rels[k][0].add + env.target - 4 ELSE RefSum(e)

X86Right(k, e) ==
    LET c == mem[RefPlace(k, e)].imm
        d == X86Sum(k, e) - (env.target + RefPlace(k, e))
    IN  CASE e.type \in {"64", "32"} -> c = Wrap(RefSum(e))
          [] e.type = "32S" -> Signed(c, Int32) = Signed(RefSum(e), Long)
          [] e.type = "PC64" -> Signed(c, Long) = Signed(d, Long)
          [] e.type \in X86Pc32 -> Signed(c, Int32) = Signed(d, Int32)
          [] e.type \in {"NONE", "TPOFF64", "TPOFF32"} ->
               mem[RefPlace(k, e)] = obj.cells[RefPlace(k, e)]

(* What the ABI of aarch64 makes of the sum and the place: the part from   *)
(* bit lsb on, as a signed number.                                         *)
A64Want(f, v, p) ==
    LET x == CASE f.op = "ABS" -> v [] f.op = "PREL" -> v - p
               [] f.op = "PAGE" -> PageOf(Wrap(v)) - PageOf(p)
    IN  Signed(x, Long) \div 2^f.lsb

(* Fields that hold some of the bits of the value.                         *)
A64Partial(f) == f.field \in {"MOVKZ", "I12"} \/ f.len = Long

A64Fits(f, w) ==
    CASE f.len = Long -> TRUE
      [] f.form = "data" /\ f.op = "ABS" -> w \in 0..(2^f.len - 1)
      [] f.field = "MOVKZ" -> w \in 0..(2^Unit - 1)
      [] f.field = "MOVNZ" -> w \in -(2^Unit)..(2^Unit - 1)
      [] OTHER -> w \in -(2^(f.len - 1))..(2^(f.len - 1) - 1)

A64Reads(f, c) ==
    CASE f.form = "data" -> IF f.op = "ABS" THEN c.imm ELSE Signed(c.imm, f.len)
      [] f.form = "movw" -> IF c.opc = "movn" THEN -(c.imm) - 1 ELSE c.imm
      [] OTHER -> Signed(DecodeImmediate(f.field, c), f.len)

(* The loader takes the address that the place has in its own mapping,     *)
(* also for a distance.  What it writes is the distance in the target only *)
(* when both mappings have one address.                                    *)
A64EntryWant(k, e) == A64Want(A64Form(e.type), RefSum(e), env.hdr + RefPlace(k, e))

A64Right(k, e) ==
    e.type # "NONE" =>
        LET f == A64Form(e.type)
            w == A64EntryWant(k, e)
            c == mem[RefPlace(k, e)]
        IN  IF A64Partial(f) THEN c.imm = w % 2^f.len
                             ELSE A64Fits(f, w) => A64Reads(f, c) = w

(* What a well-formed object is: a file with its section table in it; the  *)
(* sections of a patch of this version; every section inside of the file,  *)
(* and none of them a .bss.                                                *)
FileFormed == obj.exists /\ obj.long /\ obj.elf /\ obj.fits

PatchFormed ==
    /\ obj.version /\ obj.magic
    /\ \A n \in {".ulpatch.info", ".ulpatch.strtab", ".note.gnu.build-id"} :
          \E k \in DOMAIN obj.secs : obj.secs[k].name = n
    /\ \E k \in DOMAIN obj.secs : obj.secs[k].type = "SYMTAB"

SectionFormed(h) ==
    h.size > 0 => /\ h.type # "NOBITS" /\ h.name # ".bss"
                  /\ h.off + h.size <= obj.len

-----------------------------------------------------------------------------
(* Properties                                                              *)

(* In a patch the target jumps into, every place of every section in       *)
(* memory reads as the ABI says, for the addresses the symbols have in the *)
(* target (arch_apply_relocate_add(), simplify_symbols(),                  *)
(* rewrite_section_headers()), with these differences that the code makes: *)
(* on x86_64 distances of 32 bits are cut, and what asks for a GOT or the  *)
(* thread pointer is as X86Right has it; on aarch64 distances are those    *)
(* from the place in the loader, not in the target (do_reloc()), and a     *)
(* value that does not fit is left to OverflowCaught.                      *)
RelocExact ==
    target.jump # 0 =>
        \A k \in RelaSecs : \A q \in DOMAIN obj.rels[k] :
            IF env.arch = "x86_64" THEN X86Right(k, obj.rels[k][q])
                                        ELSE A64Right(k, obj.rels[k][q])

(* As long as overflow_check is on, no value that does not fit its field   *)
(* gets past its entry (aarch64).  A distance is the one from the place in *)
(* the loader, as in RelocExact.                                           *)
OverflowCaught ==
    pc = "rela" /\ check =>
        \A q \in 0..(r - 1) :
            LET e == obj.rels[i][q]
            IN  e.type # "NONE" => A64Fits(A64Form(e.type), A64EntryWant(i, e))

(* The jump leads to the address that the patch function, the last symbol  *)
(* of its name, has in the target, and only while the image is mapped      *)
(* there (solve_patch_symbols(), kick_target_process()); no patch with the *)
(* build id of one that the target has gets there (load_patch(): "Build ID *)
(* %s already exist").                                                     *)
JumpToPatch ==
    target.jump # 0 =>
        /\ obj.bid \notin env.ulps
        /\ target.area /\ target.file
        /\ \E k \in DOMAIN obj.syms :
              /\ obj.syms[k].name = obj.src
              /\ \A j \in DOMAIN obj.syms : obj.syms[j].name = obj.src => j <= k
              /\ target.jump = Final(obj.syms[k])

(* The target never jumps into an object that is not well formed, although *)
(* alloc_patch_file() returns no error for a section table that is outside *)
(* of the file: the checks that come after it are enough                   *)
(* (create_mmap_vma_file(), setup_load_info(), rewrite_section_headers()). *)
MalformedRefused ==
    target.jump # 0 =>
        /\ FileFormed /\ PatchFormed
        /\ \A k \in DOMAIN obj.secs \ {0} : SectionFormed(obj.secs[k])

(* A load that failed leaves nothing of itself: no jump, no area, no file, *)
(* whichever step failed (the error paths of init_patch()).                *)
FailedLeavesNothing ==
    pc = "failed" => target = [area |-> FALSE, file |-> FALSE, jump |-> 0]

(* A later session finds the symbols the patch defines, and no others, at  *)
(* their addresses in the target: the loader's stores are what             *)
(* load_ulp_info_from_vma() reads.                                         *)
ReadBackExact ==
    pc = "read" =>
        linked = {<<obj.syms[k].name, Final(obj.syms[k])>> :
                    k \in {j \in DOMAIN obj.syms : ~IsUndefSymbol(obj.syms[j])}}

(* arch_apply_relocate_add(): "Note that all undefined symbols have been   *)
(* resolved."                                                              *)
UndefResolved ==
    pc = "rela" =>
        \A k \in DOMAIN sym \ {0} :
            sym[k].ndx = SHN_UNDEF /\ ~sym[k].weak => env.tsym[sym[k].name] # 0

=============================================================================
