--------------------------- MODULE PatchLifecycle ---------------------------
(***************************************************************************)
(* The life of a live patch: one target process, the patch files mapped in *)
(* it, and the tools that patch and unpatch it (ulpatch, ulftrace,         *)
(* ulpinfo).                                                               *)
(*                                                                         *)
(* A tool runs one SESSION: open_task(), a command, close_task().  The     *)
(* command is init_patch(), delete_patch(), both (ulftrace) or none        *)
(* (ulpinfo).  A step is a part of a handler that changes state another    *)
(* session, or a session after a crash, can see.                           *)
(*                                                                         *)
(* The patch file is mapped MAP_SHARED by the tool and by the target, so   *)
(* what the tool writes in struct ulpatch_info is in the target's VMA at   *)
(* once, and stays there when the tool dies: meta[f] is that content.      *)
(* Target text is modelled in words of 8 bytes.  struct jmp_table_entry is *)
(* two of them, an opcode and an address, and so is orig_code.             *)
(***************************************************************************)
EXTENDS Naturals

CONSTANTS
    Tool,       \* tool processes
    Obj,        \* patch objects; an object stands for its Build ID
    Slot,       \* areas find_vma_span_area() and mmap(2) may choose
    File,       \* names __make_pid_ulpname() may return
    Addr,       \* word addresses of the target's text
    DstAddr,    \* address of the function a patch object replaces
    Faults,     \* the faults of the environment that may happen
    Exclusive,  \* TRUE: sessions on the target do not overlap
    NULL        \* none; also the address or id 0

(* A tool is killed; a remote munmap(2) fails; an access to /proc/PID/mem  *)
(* fails; a write to it is cut short.                                      *)
FaultKinds == {"crash", "munmap", "mem", "short"}

CodeWord == {"text", "zero", "jmp", "torn"}

(* A function to patch has two words of text, which may overlap the next   *)
(* function: the code does not look at the size of the function.           *)
ASSUME ConstantsAssumption ==
    /\ Addr \subseteq Nat
    /\ DstAddr \in [Obj -> Addr]
    /\ \A o \in Obj : DstAddr[o] + 1 \in Addr
    /\ Faults \subseteq FaultKinds
    /\ Exclusive \in BOOLEAN
    /\ NULL \notin Tool \cup Obj \cup Slot \cup File \cup Addr
    /\ \A s \in Slot : s \notin CodeWord

VARIABLES
    text,       \* words of target text
    vmas,       \* the file mapped in each area, or NULL
    meta,       \* content of each patch file: struct ulpatch_info, headers
    files,      \* names present in the map_files directory
    procdir,    \* the ULP_PROC_ROOT_DIR/PID directory: present or absent
    tracer,     \* the tool that ptraces the target
    pc,         \* where each tool is
    cmd,        \* its command
    obj,        \* the patch object it loads
    file,       \* its ulp_file (patching) or vma->name_ (unpatching)
    base,       \* its target_hdr, or the vm_start it unmaps
    areas,      \* the files its ulp areas mapped when it opened
    ulps,       \* its task->ulp_list: the metadata read when it opened
    max_ulp_id, \* its task->max_ulp_id
    ulptree     \* the tools whose VMA tree holds a VMA_ULPATCH area

target == <<text, vmas, meta, files, procdir>>
session == <<cmd, obj, file, base, areas, ulps, max_ulp_id, ulptree>>
vars == <<target, tracer, pc, session>>

Word == CodeWord \cup Slot

Meta == [obj  : Obj \cup {NULL},
         hdrs : {"raw", "rewritten"},
         id   : Nat,
         addr : Addr \cup {NULL},
         orig : Word \X Word]

Blank(o) == [obj |-> o, hdrs |-> "raw", id |-> 0, addr |-> NULL,
             orig |-> <<"zero", "zero">>]

Command == {"patch", "unpatch", "ftrace", "info"}

Label == {"idle", "alloc", "mmap", "load", "solve", "publish", "backup", "copy",
          "kick", "unmap", "err", "delete", "munmap", "unlink", "close"}

NoAreas == [s \in Slot |-> NULL]

NoUlps == [s \in Slot |-> Blank(NULL)]

Mapped == {s \in Slot : vmas[s] # NULL}

TypeOK ==
    /\ text \in [Addr -> Word]
    /\ vmas \in [Slot -> File \cup {NULL}]
    /\ meta \in [File -> Meta]
    /\ files \in SUBSET File
    /\ procdir \in {"present", "absent"}
    /\ tracer \in Tool \cup {NULL}
    /\ pc \in [Tool -> Label]
    /\ cmd \in [Tool -> Command]
    /\ obj \in [Tool -> Obj \cup {NULL}]
    /\ file \in [Tool -> File \cup {NULL}]
    /\ base \in [Tool -> Slot \cup {NULL}]
    /\ areas \in [Tool -> [Slot -> File \cup {NULL}]]
    /\ ulps \in [Tool -> [Slot -> Meta]]
    /\ max_ulp_id \in [Tool -> Nat]
    /\ ulptree \in SUBSET Tool

Init ==
    /\ text = [a \in Addr |-> "text"]
    /\ vmas = NoAreas
    /\ meta = [f \in File |-> Blank(NULL)]
    /\ files = {}
    /\ procdir = "absent"
    /\ tracer = NULL
    /\ pc = [t \in Tool |-> "idle"]
    /\ cmd = [t \in Tool |-> "info"]
    /\ obj = [t \in Tool |-> NULL]
    /\ file = [t \in Tool |-> NULL]
    /\ base = [t \in Tool |-> NULL]
    /\ areas = [t \in Tool |-> NoAreas]
    /\ ulps = [t \in Tool |-> NoUlps]
    /\ max_ulp_id = [t \in Tool |-> 0]
    /\ ulptree = {}

-----------------------------------------------------------------------------
(* Reading and writing the target                                          *)

Goto(t, l) == pc' = [pc EXCEPT ![t] = l]

(* PTRACE_ATTACH is refused while another tool traces the target; every    *)
(* caller ignores the result and goes on.  Remote system calls then fail,  *)
(* reads and writes of /proc/PID/mem do not.                               *)
Attached(t) == tracer \in {NULL, t}

Attach(t) == tracer' = IF Attached(t) THEN t ELSE tracer

Detach(t) == tracer' = IF Attached(t) THEN NULL ELSE tracer

ReadWords(a) == <<text[a], text[a + 1]>>

WriteWords(a, w) == text' = [text EXCEPT ![a] = w[1], ![a + 1] = w[2]]

(* A write of 16 bytes that failed: nothing was written or, when it was    *)
(* cut short, a part of the first word, or all of it and perhaps a part of *)
(* the second.                                                             *)
WriteFails(a, w) ==
    \/ /\ "mem" \in Faults
       /\ UNCHANGED text
    \/ /\ "short" \in Faults
       /\ \/ text' = [text EXCEPT ![a] = "torn"]
          \/ text' = [text EXCEPT ![a] = w[1]]
          \/ WriteWords(a, <<w[1], "torn">>)

(* The ulp list a session reads when it opens: the metadata of each mapped *)
(* area.                                                                   *)
ReadUlps == [s \in Slot |-> IF vmas[s] = NULL THEN Blank(NULL)
                                              ELSE meta[vmas[s]]]

Listed(t) == {s \in Slot : areas[t][s] # NULL}

(* The content of a file that nobody maps any more is never read again.    *)
Forget(f) ==
    meta' = IF f \in File /\ \A s \in Slot : vmas[s] # f
              THEN [meta EXCEPT ![f] = Blank(NULL)] ELSE meta

-----------------------------------------------------------------------------
(* Opening and closing a session                                           *)

(* open_task(): the VMAs are read, and for each ulp area its metadata and  *)
(* the largest id; then the proc directory is made.  Loading an area whose *)
(* section headers were not rewritten follows a wild symbol-table pointer: *)
(* the tool dies, having changed nothing, or goes on as here.              *)
OpenTask(t) ==
    /\ pc[t] = "idle"
    /\ Exclusive => \A u \in Tool : pc[u] = "idle"
    /\ \/ \E c \in {"patch", "ftrace"}, o \in Obj :
            /\ cmd' = [cmd EXCEPT ![t] = c]
            /\ obj' = [obj EXCEPT ![t] = o]
            /\ Goto(t, "alloc")
       \/ /\ cmd' = [cmd EXCEPT ![t] = "unpatch"]
          /\ Goto(t, "delete")
          /\ UNCHANGED obj
       \/ /\ Goto(t, "close")
          /\ UNCHANGED <<cmd, obj>>
    /\ areas' = [areas EXCEPT ![t] = vmas]
    /\ ulps' = [ulps EXCEPT ![t] = ReadUlps]
    /\ \E m \in {0} \cup {ReadUlps[s].id : s \in Slot} :
         /\ \A s \in Slot : ReadUlps[s].id <= m
         /\ max_ulp_id' = [max_ulp_id EXCEPT ![t] = m]
    /\ ulptree' = IF Mapped = {} THEN ulptree ELSE ulptree \cup {t}
    /\ procdir' = "present"
    /\ UNCHANGED <<text, vmas, meta, files, tracer, file, base>>

EndSession(t) ==
    /\ Goto(t, "idle")
    /\ cmd' = [cmd EXCEPT ![t] = "info"]
    /\ obj' = [obj EXCEPT ![t] = NULL]
    /\ file' = [file EXCEPT ![t] = NULL]
    /\ base' = [base EXCEPT ![t] = NULL]
    /\ areas' = [areas EXCEPT ![t] = NoAreas]
    /\ ulps' = [ulps EXCEPT ![t] = NoUlps]
    /\ max_ulp_id' = [max_ulp_id EXCEPT ![t] = 0]
    /\ ulptree' = ulptree \ {t}
    /\ tracer' = IF tracer = t THEN NULL ELSE tracer

(* close_task(), and the exit that follows: the proc directory is removed  *)
(* when the session's own tree holds no ulp area and rmdir(2) finds the    *)
(* directory empty.  The kernel detaches what an exiting tracer left.      *)
CloseTask(t) ==
    /\ pc[t] = "close"
    /\ EndSession(t)
    /\ procdir' = IF t \in ulptree \/ files # {} THEN procdir ELSE "absent"
    /\ UNCHANGED <<text, vmas, meta, files>>

(* The tool is killed, or dies of its own fault.                           *)
Crash(t) ==
    /\ "crash" \in Faults
    /\ pc[t] # "idle"
    /\ EndSession(t)
    /\ Forget(file[t])
    /\ UNCHANGED <<text, vmas, files, procdir>>

-----------------------------------------------------------------------------
(* init_patch()                                                            *)

(* __make_pid_ulpname(), alloc_patch_file() and chown(2): a new file holds *)
(* a copy of the object.  An error may leave the file or no file.          *)
AllocPatchFile(t) ==
    /\ pc[t] = "alloc"
    /\ \/ \E f \in File \ (files \cup {vmas[s] : s \in Slot}) :
            /\ procdir = "present"
            /\ file' = [file EXCEPT ![t] = f]
            /\ files' = files \cup {f}
            /\ meta' = [meta EXCEPT ![f] = Blank(obj[t])]
            /\ Goto(t, "mmap") \/ Goto(t, "err")
       \/ /\ Goto(t, "err")
          /\ UNCHANGED <<file, files, meta>>
    /\ UNCHANGED <<text, vmas, procdir, tracer, cmd, obj, base, areas, ulps,
                   max_ulp_id, ulptree>>

(* create_mmap_vma_file(): attach, remote open, ftruncate, mmap and close, *)
(* detach.  An error number returned by the remote mmap(2) is taken for an *)
(* address (base stays NULL); a failed remote open returns without the     *)
(* detach.                                                                 *)
CreateMmapVmaFile(t) ==
    /\ pc[t] = "mmap"
    /\ \/ /\ Attached(t)
          /\ \E s \in Slot \ Mapped :
               /\ vmas' = [vmas EXCEPT ![s] = file[t]]
               /\ base' = [base EXCEPT ![t] = s]
          /\ ulptree' = ulptree \cup {t}
          /\ Detach(t)
          /\ Goto(t, "load")
       \/ /\ Attached(t)
          /\ ulptree' = IF Mapped = {} THEN ulptree ELSE ulptree \cup {t}
          /\ Detach(t)
          /\ Goto(t, "load")
          /\ UNCHANGED <<vmas, base>>
       \/ /\ Attach(t) \/ Detach(t)
          /\ Goto(t, "err")
          /\ UNCHANGED <<vmas, base, ulptree>>
    /\ UNCHANGED <<text, meta, files, procdir, cmd, obj, file, areas,
                   ulps, max_ulp_id>>

(* Mutant: no Build ID check.                                              *)
LoadPatchNoBuildId(t) ==
    /\ pc[t] = "load"
    /\ meta' = [meta EXCEPT ![file[t]].hdrs = "rewritten"]
    /\ Goto(t, "solve")
    /\ UNCHANGED <<text, vmas, files, procdir, tracer, session>>

(* Mutant: a failed load goes to the err label without unmapping the area. *)
LoadPatchNoUnmap(t) ==
    /\ pc[t] = "load"
    /\ Goto(t, "solve") \/ Goto(t, "err")
    /\ meta' = [meta EXCEPT ![file[t]].hdrs = "rewritten"]
    /\ UNCHANGED <<text, vmas, files, procdir, tracer, session>>

(* load_patch() up to post_relocation(): a Build ID on the ulp list is     *)
(* refused before anything is written.  Symbols and relocations change     *)
(* only the content of the file, which nothing jumps to yet.               *)
LoadPatch(t) ==
    /\ pc[t] = "load"
    /\ \/ /\ \A s \in Listed(t) : ulps[t][s].obj # obj[t]
          /\ meta' = [meta EXCEPT ![file[t]].hdrs = "rewritten"]
          /\ Goto(t, "solve") \/ Goto(t, "unmap")
       \/ /\ Goto(t, "unmap")
          /\ UNCHANGED meta
    /\ UNCHANGED <<text, vmas, files, procdir, tracer, session>>

(* Mutant: the id is max_ulp_id++ instead of ++max_ulp_id.                 *)
SolvePatchSymbolsPostIncrement(t) ==
    /\ pc[t] = "solve"
    /\ max_ulp_id' = [max_ulp_id EXCEPT ![t] = @ + 1]
    /\ meta' = [meta EXCEPT ![file[t]].id = max_ulp_id[t]]
    /\ Goto(t, "publish")
    /\ UNCHANGED <<text, vmas, files, procdir, tracer, cmd, obj, file, base,
                   areas, ulps, ulptree>>

(* solve_patch_symbols(), the lookups and the id.  The metadata is in the  *)
(* mapped file: what is stored there stays when the tool is killed.        *)
SolvePatchSymbols(t) ==
    /\ pc[t] = "solve"
    /\ \/ /\ max_ulp_id' = [max_ulp_id EXCEPT ![t] = @ + 1]
          /\ meta' = [meta EXCEPT ![file[t]].id = max_ulp_id[t] + 1]
          /\ Goto(t, "publish")
       \/ /\ Goto(t, "unmap")
          /\ UNCHANGED <<meta, max_ulp_id>>
    /\ UNCHANGED <<text, vmas, files, procdir, tracer, cmd, obj, file, base,
                   areas, ulps, ulptree>>

(* solve_patch_symbols(), the address: it is stored after the id, and both *)
(* before the original code is saved.                                      *)
PublishAddr(t) ==
    /\ pc[t] = "publish"
    /\ meta' = [meta EXCEPT ![file[t]].addr = DstAddr[obj[t]]]
    /\ Goto(t, "backup")
    /\ UNCHANGED <<text, vmas, files, procdir, tracer, session>>

(* Mutant: only the first word of the original code is saved.              *)
BackupOrigCodeHalf(t) ==
    /\ pc[t] = "backup"
    /\ meta' = [meta EXCEPT ![file[t]].orig = <<ReadWords(DstAddr[obj[t]])[1],
                                                "zero">>]
    /\ Goto(t, "copy")
    /\ UNCHANGED <<text, vmas, files, procdir, tracer, session>>

(* kick_target_process(), the backup: orig_code is read from the target.   *)
BackupOrigCode(t) ==
    /\ pc[t] = "backup"
    /\ \/ /\ meta' = [meta EXCEPT ![file[t]].orig = ReadWords(DstAddr[obj[t]])]
          /\ Goto(t, "copy")
       \/ /\ "mem" \in Faults
          /\ Goto(t, "unmap")
          /\ UNCHANGED meta
    /\ UNCHANGED <<text, vmas, files, procdir, tracer, session>>

(* kick_target_process(), the copy to target_hdr: it fails when no area is *)
(* mapped there, and writes over whatever area is.                         *)
CopyPatch(t) ==
    /\ pc[t] = "copy"
    /\ \/ /\ base[t] \in Mapped
          /\ meta' = [meta EXCEPT ![vmas[base[t]]] = meta[file[t]]]
          /\ Goto(t, "kick")
       \/ /\ base[t] \notin Mapped \/ "mem" \in Faults
          /\ Goto(t, "unmap")
          /\ UNCHANGED meta
    /\ UNCHANGED <<text, vmas, files, procdir, tracer, session>>

(* kick_target_process(), the jump: both words are written while attached. *)
KickTarget(t) ==
    /\ pc[t] = "kick"
    /\ LET a == DstAddr[obj[t]]
           jmp == <<"jmp", base[t]>>
       IN  \/ /\ WriteWords(a, jmp)
              /\ Goto(t, IF cmd[t] = "ftrace" THEN "delete" ELSE "close")
           \/ /\ WriteFails(a, jmp)
              /\ Goto(t, "unmap")
    /\ Detach(t)
    /\ UNCHANGED <<vmas, meta, files, procdir, session>>

(* delete_mmap_vma_file(): the result of the remote munmap(2) is ignored;  *)
(* update_task_vmas_ulp() adds areas to the session's tree, never removes. *)
DeleteMmapVmaFile(t) ==
    /\ pc[t] = "unmap"
    /\ \/ /\ Attached(t)
          /\ base[t] \in Slot
          /\ vmas' = [vmas EXCEPT ![base[t]] = NULL]
       \/ /\ ~Attached(t) \/ base[t] = NULL \/ "munmap" \in Faults
          /\ UNCHANGED vmas
    /\ ulptree' = IF Mapped' = {} THEN ulptree ELSE ulptree \cup {t}
    /\ Detach(t)
    /\ Goto(t, "err")
    /\ UNCHANGED <<text, meta, files, procdir, cmd, obj, file, base, areas,
                   ulps, max_ulp_id>>

(* The err label of init_patch(): the ulp file is removed.  ulftrace()     *)
(* ignores the result of init_patch() and goes on to delete_patch().       *)
RemoveUlpFile(t) ==
    /\ pc[t] = "err"
    /\ files' = files \ {file[t]}
    /\ Forget(file[t])
    /\ Goto(t, IF cmd[t] = "ftrace" THEN "delete" ELSE "close")
    /\ UNCHANGED <<text, vmas, procdir, tracer, session>>

-----------------------------------------------------------------------------
(* delete_patch()                                                          *)

(* Mutant: the first entry of the list, whatever its id.                   *)
LastUlpsAny(t) == Listed(t)

LastUlps(t) == {s \in Listed(t) : ulps[t][s].id = max_ulp_id[t]}

(* No entry of the ulp list has the largest id: -ENOENT.                   *)
NothingToDelete(t) ==
    /\ pc[t] = "delete"
    /\ LastUlps(t) = {}
    /\ Goto(t, "close")
    /\ UNCHANGED <<target, tracer, session>>

(* Mutant: a failed write of the saved code does not stop the unmapping.   *)
RestoreOrigCodeUnchecked(t) ==
    /\ pc[t] = "delete"
    /\ \E s \in LastUlps(t) :
         /\ \/ WriteWords(ulps[t][s].addr, ulps[t][s].orig)
            \/ WriteFails(ulps[t][s].addr, ulps[t][s].orig)
         /\ Attach(t)
         /\ base' = [base EXCEPT ![t] = s]
         /\ file' = [file EXCEPT ![t] = areas[t][s]]
         /\ Goto(t, "munmap")
    /\ UNCHANGED <<vmas, meta, files, procdir, cmd, obj, areas, ulps,
                   max_ulp_id, ulptree>>

(* delete_patch(), the restore: attach, and write the saved code back.  An *)
(* entry with no address (0) cannot be written to.  Areas have arbitrary   *)
(* addresses, so of several entries any may come first on the list.        *)
Restored(t, s) ==
    /\ ulps[t][s].addr # NULL
    /\ WriteWords(ulps[t][s].addr, ulps[t][s].orig)
    /\ Attach(t)
    /\ base' = [base EXCEPT ![t] = s]
    /\ file' = [file EXCEPT ![t] = areas[t][s]]
    /\ Goto(t, "munmap")

NotRestored(t, s) ==
    /\ IF ulps[t][s].addr = NULL
         THEN UNCHANGED text
         ELSE WriteFails(ulps[t][s].addr, ulps[t][s].orig)
    /\ Detach(t)
    /\ Goto(t, "close")
    /\ UNCHANGED <<base, file>>

RestoreOrigCode(t) ==
    /\ pc[t] = "delete"
    /\ \E s \in LastUlps(t) : Restored(t, s) \/ NotRestored(t, s)
    /\ UNCHANGED <<vmas, meta, files, procdir, cmd, obj, areas, ulps,
                   max_ulp_id, ulptree>>

(* Mutant: the area is left mapped.                                        *)
MunmapUlpSkipped(t) ==
    /\ pc[t] = "munmap"
    /\ Goto(t, "unlink")
    /\ UNCHANGED <<target, tracer, session>>

(* delete_patch(), the remote munmap(2) of the area: what is mapped there  *)
(* now goes, whatever it is.                                               *)
MunmapUlp(t) ==
    /\ pc[t] = "munmap"
    /\ \/ /\ Attached(t)
          /\ vmas' = [vmas EXCEPT ![base[t]] = NULL]
          /\ Goto(t, "unlink")
          /\ UNCHANGED tracer
       \/ /\ ~Attached(t) \/ "munmap" \in Faults
          /\ Detach(t)
          /\ Goto(t, "close")
          /\ UNCHANGED vmas
    /\ UNCHANGED <<text, meta, files, procdir, session>>

(* Mutant: the file is left in the directory.                              *)
UnlinkPatchFileSkipped(t) ==
    /\ pc[t] = "unlink"
    /\ Detach(t)
    /\ Goto(t, "close")
    /\ UNCHANGED <<target, session>>

(* delete_patch(), the removal of the file, and the detach.                *)
UnlinkPatchFile(t) ==
    /\ pc[t] = "unlink"
    /\ files' = files \ {file[t]}
    /\ Forget(file[t])
    /\ Detach(t)
    /\ Goto(t, "close")
    /\ UNCHANGED <<text, vmas, procdir, session>>

-----------------------------------------------------------------------------

Step(t) ==
    \/ AllocPatchFile(t)
    \/ CreateMmapVmaFile(t)
    \/ LoadPatch(t)
    \/ SolvePatchSymbols(t)
    \/ PublishAddr(t)
    \/ BackupOrigCode(t)
    \/ CopyPatch(t)
    \/ KickTarget(t)
    \/ DeleteMmapVmaFile(t)
    \/ RemoveUlpFile(t)
    \/ NothingToDelete(t)
    \/ RestoreOrigCode(t)
    \/ MunmapUlp(t)
    \/ UnlinkPatchFile(t)
    \/ CloseTask(t)

Next == \E t \in Tool : OpenTask(t) \/ Step(t) \/ Crash(t)

Spec == Init /\ [][Next]_vars

(* A tool that runs goes on running: none of its steps waits for another   *)
(* process than the target, which the kernel stops for it.                 *)
FairSpec == Spec /\ \A t \in Tool : WF_vars(Step(t))

-----------------------------------------------------------------------------
(* Properties                                                              *)

(* A word of text that is the address of a patch function lies in an area  *)
(* that is still mapped: delete_patch() and delete_mmap_vma_file() never   *)
(* unmap the code a function entry jumps to.                               *)
JumpsMapped == \A a \in Addr : text[a] \in Slot => text[a] \in Mapped

(* What unpatching will write back is as good: a saved jump leads to a     *)
(* mapped area, patched earlier, so that delete_patch(), which goes by the *)
(* largest id, removes the saver before the saved.                         *)
BackupsOlder ==
    \A s \in Mapped : \A k \in {1, 2} :
      LET w == meta[vmas[s]].orig[k]
      IN  w \in Slot => /\ w \in Mapped
                        /\ meta[vmas[w]].id < meta[vmas[s]].id

(* Two areas with an id (solve_patch_symbols() gave them one) differ in id *)
(* and in Build ID.                                                        *)
Patched == {s \in Mapped : meta[vmas[s]].id # 0}

UniquePatches ==
    \A r, s \in Patched :
      r # s => /\ meta[vmas[r]].id # meta[vmas[s]].id
               /\ meta[vmas[r]].obj # meta[vmas[s]].obj

Quiet == \A t \in Tool : pc[t] = "idle"

(* Between sessions every ulp area is completely set up: its headers are   *)
(* rewritten (open_task() can read it), it has an id and an address        *)
(* (delete_patch() can find and restore it) and saved code.                *)
AreasComplete ==
    Quiet => \A s \in Mapped :
               /\ meta[vmas[s]].hdrs = "rewritten"
               /\ meta[vmas[s]].id # 0
               /\ meta[vmas[s]].addr # NULL
               /\ \A k \in {1, 2} : meta[vmas[s]].orig[k] # "zero"

(* Between sessions the map_files directory holds the file of each ulp     *)
(* area and nothing else, so that rmdir(2) can remove it once the target   *)
(* has no patch.                                                           *)
FilesMatchAreas == Quiet => files = {vmas[s] : s \in Mapped}

(* delete_patch() works on the last patch of the target: it finds, on its  *)
(* session's list, the area with the largest id.                           *)
LastPatchFound ==
    \A t \in Tool :
      pc[t] = "delete" /\ Patched # {} =>
        \E s \in LastUlps(t) \cap Patched :
          \A r \in Patched : meta[vmas[r]].id <= meta[vmas[s]].id

(* Unpatching writes back code that was there before patching: the zeros   *)
(* of an orig_code that was never filled in are not written to the text.   *)
NoZeroText == \A a \in Addr : text[a] # "zero"

(* The patches in effect: those with an id whose jump is in place.         *)
Active ==
    {s \in Patched :
       \A t \in Tool : base[t] = s => pc[t] \notin {"publish", "backup", "copy",
                                                   "kick", "unmap", "munmap"}}

Covers(s, a) == a \in {meta[vmas[s]].addr, meta[vmas[s]].addr + 1}

(* Every word of text is what the patch with the largest id that covers it *)
(* wrote there, and the original word where no patch does: patching and    *)
(* unpatching neither lose nor leave code, also for functions that         *)
(* overlap.                                                                *)
TextExact ==
    \A a \in Addr :
      \/ /\ \A s \in Active : ~Covers(s, a)
         /\ text[a] = "text"
      \/ \E s \in Active :
           /\ Covers(s, a)
           /\ \A r \in Active : Covers(r, a) => meta[vmas[r]].id <= meta[vmas[s]].id
           /\ text[a] = IF a = meta[vmas[s]].addr THEN "jmp" ELSE s

-----------------------------------------------------------------------------
(* Sessions implement the stack of patches.  The stack is read off the ids *)
(* of the patches in effect, the code off the text of the target: only the *)
(* write of the jump and the write of the saved code are steps of it.      *)

ActiveId(i) == CHOOSE s \in Active : meta[vmas[s]].id = i

Stack ==
    [i \in {meta[vmas[s]].id : s \in Active} |-> meta[vmas[ActiveId(i)]].obj]

Code == [a \in Addr |-> IF text[a] \in Mapped THEN meta[vmas[text[a]]].obj
                                             ELSE text[a]]

Promise == INSTANCE PatchStack WITH stack <- Stack, code <- Code

(* Whatever fails on the way (allocation, mapping, loading, a refused      *)
(* read or write), init_patch() and delete_patch() push and pop a stack.   *)
ImplementsStack == Promise!Spec

(* Unpatching again and again, with no patching in between, takes away     *)
(* every ulp area: there is always one that delete_patch() finds by the    *)
(* largest id, can restore and unmaps.  Writes to the target's memory may  *)
(* fail, but not for ever.                                                 *)
NoMorePatching == \A t \in Tool : cmd[t] \notin {"patch", "ftrace"}

WriteRefused ==
    \E t \in Tool : pc[t] = "delete" /\ LastUlps(t) # {} /\ pc'[t] = "close"

UnpatchDrains ==
    /\ <>[]NoMorePatching
    /\ <>[][~WriteRefused]_vars
    /\ []<>(\E t \in Tool : pc[t] = "delete")
    => <>[](Mapped = {})

=============================================================================
