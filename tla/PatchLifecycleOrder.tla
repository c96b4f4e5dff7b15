------------------------- MODULE PatchLifecycleOrder ------------------------
(***************************************************************************)
(* What sessions leave behind when they do not overlap, tools are not      *)
(* killed and munmap(2) works in the target: complete areas, their files   *)
(* and no others.  And what the text of the target is, which a session     *)
(* changes when it puts a patch in.                                        *)
(***************************************************************************)
EXTENDS PatchLifecycleProofs

USE DEF FaultKinds, CodeWord

(* The sessions one after the other: tools are not killed, and areas can   *)
(* be unmapped.                                                            *)
Orderly == Exclusive /\ Faults \cap {"crash", "munmap"} = {}

TracerInv == \A t \in Tool : tracer = t => pc[t] # "idle"

(* Where tools are not killed, only the area being patched in has an id    *)
(* and no address, between the two stores of solve_patch_symbols().        *)
AddrInv ==
    \A s \in Mapped :
      Id(s) # 0 /\ At(s) = NULL => \E t \in Tool : pc[t] = "publish" /\ base[t] = s

TracedInv == SafeInv /\ TracerInv /\ AddrInv

LEMMA SessionTypes ==
    ASSUME TracedInv, NEW t \in Tool
    PROVE  /\ text \in [Addr -> Word]
           /\ vmas \in [Slot -> File \cup {NULL}]
           /\ meta \in [File -> Meta]
           /\ tracer \in Tool \cup {NULL}
           /\ pc \in [Tool -> Label]
           /\ file \in [Tool -> File \cup {NULL}]
           /\ base \in [Tool -> Slot \cup {NULL}]
           /\ SessionInv(t) /\ Has(t)
  BY DEF TracedInv, SafeInv, TypeInv, TypeOK

(* A session that runs alone is never refused to attach.                   *)
LEMMA AttachedAlone ==
    ASSUME TracedInv, NEW t \in Tool, pc[t] # "idle"
    PROVE  Attached(t)
  BY SessionTypes DEF TracedInv, TracerInv, SafeInv, OneSession, Attached

LEMMA TracerStep ==
    ASSUME TracedInv, NEW t \in Tool, OpenTask(t) \/ Step(t), Orderly
    PROVE  TracerInv'
  <1>1. TypeOK /\ \A u \in Tool : u # t => pc'[u] = pc[u]
    BY Frame DEF TracedInv, SafeInv, TypeInv
  <1>2. pc \in [Tool -> Label] /\ t # NULL
    BY SessionTypes, ConstantsAssumption
  <1>3. \/ pc'[t] # "idle" /\ tracer' \in {tracer, t, NULL}
        \/ tracer' \in {tracer, NULL} /\ tracer' # t
    <2> USE DEF Goto, Attach, Detach, session, target
    <2>1. CASE OpenTask(t)
      BY <1>2, <2>1, Zenon DEF OpenTask
    <2>2. CASE AllocPatchFile(t) \/ CreateMmapVmaFile(t) \/ LoadPatch(t)
      BY <1>2, <2>2, Zenon DEF AllocPatchFile, CreateMmapVmaFile, LoadPatch
    <2>3. CASE SolvePatchSymbols(t) \/ PublishAddr(t) \/ BackupOrigCode(t) \/ CopyPatch(t)
               \/ KickTarget(t)
      BY <1>2, <2>3, Zenon DEF SolvePatchSymbols, PublishAddr, BackupOrigCode, CopyPatch, KickTarget
    <2>4. CASE DeleteMmapVmaFile(t) \/ RemoveUlpFile(t) \/ NothingToDelete(t)
      BY <1>2, <2>4, Zenon DEF DeleteMmapVmaFile, RemoveUlpFile, NothingToDelete
    <2>5. CASE RestoreOrigCode(t)
      BY <1>2, <2>5, Zenon DEF RestoreOrigCode, Restored, NotRestored
    <2>6. CASE MunmapUlp(t) \/ UnlinkPatchFile(t)
      BY <1>2, <2>6, Zenon DEF MunmapUlp, UnlinkPatchFile
    <2>7. CASE CloseTask(t)
      BY <1>2, <2>7 DEF CloseTask, EndSession
    <2>8. QED
      BY <2>1, <2>2, <2>3, <2>4, <2>5, <2>6, <2>7 DEF Step
  <1>4. QED
    BY <1>1, <1>3, ConstantsAssumption DEF TracedInv, TracerInv

(* The steps that give no area an id or an address: an area of the next    *)
(* state was there with the same, or is new.                               *)
LEMMA AddrsKept ==
    ASSUME TracedInv, NEW t \in Tool, OpenTask(t) \/ Step(t),
           ~SolvePatchSymbols(t), ~PublishAddr(t)
    PROVE  \A s \in Mapped' : \/ /\ s \in Mapped
                                  /\ Id(s)' = Id(s) /\ At(s)' = At(s)
                               \/ Id(s)' = 0
  <1>1. /\ vmas \in [Slot -> File \cup {NULL}] /\ meta \in [File -> Meta]
        /\ pc \in [Tool -> Label] /\ SessionInv(t)
    BY SessionTypes
  <1>2. CASE vmas' = vmas /\ \A s \in Mapped : /\ meta'[vmas[s]].id = meta[vmas[s]].id
                                                /\ meta'[vmas[s]].addr = meta[vmas[s]].addr
    BY <1>2 DEF Id, At, Mapped
  <1>3. CASE OpenTask(t) \/ NothingToDelete(t) \/ CloseTask(t) \/ KickTarget(t) \/ RestoreOrigCode(t)
    <2>1. vmas' = vmas /\ meta' = meta
      BY <1>3, Zenon DEF OpenTask, NothingToDelete, CloseTask, KickTarget, RestoreOrigCode, target
    <2>2. QED
      BY <1>2, <2>1
  <1>4. CASE AllocPatchFile(t)
    <2>1. vmas' = vmas /\ \A s \in Mapped : meta'[vmas[s]] = meta[vmas[s]]
      BY <1>1, <1>4 DEF AllocPatchFile, Mapped
    <2>2. QED
      BY <1>2, <2>1
  <1>5. CASE CreateMmapVmaFile(t)
    <2>1. meta' = meta /\ meta[file[t]] = Blank(obj[t])
      BY <1>1, <1>5, Zenon DEF CreateMmapVmaFile, SessionInv
    <2>2. \/ vmas' = vmas
          \/ \E s \in Slot \ Mapped : vmas' = [vmas EXCEPT ![s] = file[t]]
      BY <1>5, Zenon DEF CreateMmapVmaFile
    <2>3. \A s \in Slot : vmas'[s] = vmas[s] \/ vmas'[s] = file[t]
      BY <1>1, <2>2
    <2>4. meta'[file[t]].id = 0
      BY <2>1 DEF Blank
    <2>5. QED
      BY <2>1, <2>3, <2>4, Zenon DEF Mapped, Id, At
  <1>6. CASE LoadPatch(t) \/ BackupOrigCode(t)
    <2>1. vmas' = vmas /\ \A f \in File : /\ meta'[f].id = meta[f].id
                                          /\ meta'[f].addr = meta[f].addr
      BY <1>1, <1>6 DEF LoadPatch, BackupOrigCode, Meta
    <2>2. QED
      BY <1>1, <1>2, <2>1, Zenon DEF Mapped
  <1>7. CASE CopyPatch(t)
    <2>1. NewArea(t)
      BY <1>1, <1>7, Zenon DEF CopyPatch, SessionInv, Fresh
    <2>2. vmas' = vmas /\ meta' = meta
      BY <1>1, <1>7, <2>1, ConstantsAssumption DEF CopyPatch, NewArea, Mapped
    <2>3. QED
      BY <1>2, <2>2
  <1>8. CASE DeleteMmapVmaFile(t) \/ MunmapUlp(t)
    <2>1. meta' = meta /\ (vmas' = vmas \/ vmas' = [vmas EXCEPT ![base[t]] = NULL])
      BY <1>8, Zenon DEF DeleteMmapVmaFile, MunmapUlp
    <2>2. \A s \in Slot : vmas'[s] = vmas[s] \/ vmas'[s] = NULL
      BY <1>1, <2>1
    <2>3. QED
      BY <2>1, <2>2, Zenon DEF Mapped, Id, At
  <1>9. CASE RemoveUlpFile(t) \/ UnlinkPatchFile(t)
    <2>1. vmas' = vmas /\ \A s \in Mapped : meta'[vmas[s]] = meta[vmas[s]]
      BY <1>1, <1>9, ForgetKeeps, Zenon DEF RemoveUlpFile, UnlinkPatchFile
    <2>2. QED
      BY <1>2, <2>1
  <1>10. QED
    BY <1>3, <1>4, <1>5, <1>6, <1>7, <1>8, <1>9, Zenon DEF Step

LEMMA AddrStep ==
    ASSUME TracedInv, NEW t \in Tool, OpenTask(t) \/ Step(t), Exclusive
    PROVE  AddrInv'
  <1>1. /\ vmas \in [Slot -> File \cup {NULL}] /\ meta \in [File -> Meta]
        /\ pc \in [Tool -> Label] /\ SessionInv(t) /\ Has(t)
    BY SessionTypes
  <1>2. \A u \in Tool : u # t => pc[u] = "idle"
    <2>1. SafeInv /\ TypeOK
      BY DEF TracedInv, SafeInv, TypeInv
    <2>2. QED
      BY <2>1, Alone, Frame
  <1>3. \A s \in Mapped : Id(s) # 0 /\ At(s) = NULL => pc[t] = "publish" /\ base[t] = s
    BY <1>2, Zenon DEF TracedInv, AddrInv
  <1>4. CASE PublishAddr(t) \/ SolvePatchSymbols(t)
    <2>1. /\ vmas' = vmas /\ base' = base /\ NewArea(t) /\ obj[t] \in Obj
          /\ file[t] \in File
      BY <1>1, <1>4, Zenon DEF PublishAddr, SolvePatchSymbols, session, SessionInv, Fresh, Has, Loading
    <2>2. Mapped' = Mapped
      BY <2>1 DEF Mapped
    <2>3. \A f \in File : f # file[t] => meta'[f] = meta[f]
      BY <1>1, <1>4, Zenon DEF PublishAddr, SolvePatchSymbols
    <2>4. \A s \in Mapped : s # base[t] => Id(s)' = Id(s) /\ At(s)' = At(s)
      BY <1>1, <2>1, <2>3 DEF NewArea, Mapped, Id, At
    <2>5. \A s \in Mapped : s # base[t] => ~(Id(s)' # 0 /\ At(s)' = NULL)
      BY <1>3, <2>4, Zenon
    <2>6. CASE PublishAddr(t)
      <3>1. meta'[file[t]].addr = DstAddr[obj[t]]
        BY <1>1, <2>1, <2>6 DEF PublishAddr, Meta
      <3>4. DstAddr[obj[t]] # NULL
        BY <2>1, ConstantsAssumption, Zenon
      <3>2. \A s \in Mapped : s = base[t] => At(s)' # NULL
        BY <2>1, <3>1, <3>4, ConstantsAssumption, Zenon DEF NewArea, Mapped, At
      <3>3. \A s \in Mapped : ~(Id(s)' # 0 /\ At(s)' = NULL)
        BY <2>5, <3>2, Zenon
      <3>5. QED
        BY <2>2, <3>3, Zenon DEF AddrInv
    <2>7. CASE SolvePatchSymbols(t) /\ pc'[t] = "publish"
      BY <2>1, <2>2, <2>5, <2>7, Zenon DEF AddrInv
    <2>8. CASE SolvePatchSymbols(t) /\ meta' = meta
      <3>1. pc[t] # "publish"
        BY <2>8, Zenon DEF SolvePatchSymbols
      <3>2. \A s \in Mapped : Id(s)' = Id(s) /\ At(s)' = At(s)
        BY <2>1, <2>8 DEF Id, At
      <3>3. QED
        BY <1>3, <2>2, <3>1, <3>2, Zenon DEF AddrInv
    <2>9. QED
      BY <1>1, <1>4, <2>6, <2>7, <2>8, Zenon DEF SolvePatchSymbols, Goto
  <1>5. CASE ~PublishAddr(t) /\ ~SolvePatchSymbols(t)
    <2>1. pc[t] # "publish"
      <3>1. OpenTask(t) \/ AllocPatchFile(t) \/ CreateMmapVmaFile(t) \/ LoadPatch(t)
            \/ BackupOrigCode(t) \/ CopyPatch(t) \/ KickTarget(t) => pc[t] # "publish"
        BY Zenon DEF OpenTask, AllocPatchFile, CreateMmapVmaFile, LoadPatch, BackupOrigCode,
           CopyPatch, KickTarget
      <3>2. DeleteMmapVmaFile(t) \/ RemoveUlpFile(t) \/ NothingToDelete(t) \/ RestoreOrigCode(t)
            \/ MunmapUlp(t) \/ UnlinkPatchFile(t) \/ CloseTask(t) => pc[t] # "publish"
        BY Zenon DEF DeleteMmapVmaFile, RemoveUlpFile, NothingToDelete, RestoreOrigCode,
           MunmapUlp, UnlinkPatchFile, CloseTask
      <3>3. QED
        BY <1>5, <3>1, <3>2, Zenon DEF Step
    <2>2. QED
      BY <1>3, <1>5, <2>1, AddrsKept, Zenon DEF AddrInv
  <1>6. QED
    BY <1>4, <1>5

LEMMA TracedStep == Orderly /\ TracedInv /\ [Next]_vars => TracedInv'
  <1> SUFFICES ASSUME Orderly, TracedInv, [Next]_vars PROVE TracedInv'
    OBVIOUS
  <1>1. SafeInv'
    BY SafeStep DEF Orderly, TracedInv
  <1>2. TracerInv' /\ AddrInv'
    <2>1. CASE UNCHANGED vars
      BY <2>1 DEF TracedInv, TracerInv, AddrInv, Mapped, Id, At, vars, target, session
    <2>2. ASSUME NEW t \in Tool PROVE ~Crash(t)
      BY DEF Crash, Orderly
    <2>3. QED
      BY <2>1, <2>2, TracerStep, AddrStep DEF Next, Orderly
  <1>3. QED
    BY <1>1, <1>2 DEF TracedInv

LEMMA InitTraced == Init => TracedInv
  BY InitSafe, ConstantsAssumption DEF Init, NoAreas, Mapped, TracedInv, TracerInv, AddrInv

-----------------------------------------------------------------------------
AreaFiles == {vmas[s] : s \in Mapped}

Complete(s) ==
    /\ meta[vmas[s]].hdrs = "rewritten"
    /\ Id(s) # 0
    /\ At(s) # NULL
    /\ \A k \in {1, 2} : Saved(s)[k] # "zero"

(* The file of a session is in the directory, besides those of the areas,  *)
(* from its creation until it is mapped, and from its unmapping until it   *)
(* is removed.                                                             *)
KeptFiles(t) ==
    /\ pc[t] \in {"idle", "alloc"} => file[t] = NULL
    /\ pc[t] \in {"alloc", "delete", "munmap", "close"} => files = AreaFiles
    /\ pc[t] \in {"mmap"} \cup Fresh => files = AreaFiles \cup {file[t]}
    /\ pc[t] \in {"err", "unlink"} => files \ {file[t]} = AreaFiles
    /\ pc[t] = "munmap" => vmas[base[t]] = file[t]

(* Only the area being patched in may be incomplete.                       *)
KeptAreas(t) ==
    /\ pc[t] # "idle" =>
         \A s \in Mapped : Complete(s) \/ (pc[t] \in Fresh /\ s = base[t])
    /\ pc[t] \in {"solve", "publish", "backup", "copy", "kick"} =>
         meta[file[t]].hdrs = "rewritten"
    /\ pc[t] \in {"copy", "kick"} => \A k \in {1, 2} : meta[file[t]].orig[k] # "zero"

LeftInv == Quiet => files = AreaFiles /\ \A s \in Mapped : Complete(s)

OrderInv ==
    /\ TracedInv
    /\ NoZeroText
    /\ LeftInv
    /\ \A t \in Tool : KeptFiles(t) /\ KeptAreas(t)

Kept(t) == NoZeroText /\ KeptFiles(t) /\ KeptAreas(t)

-----------------------------------------------------------------------------
LEMMA OrderTypes ==
    ASSUME OrderInv, NEW t \in Tool
    PROVE  /\ text \in [Addr -> Word]
           /\ vmas \in [Slot -> File \cup {NULL}]
           /\ meta \in [File -> Meta]
           /\ files \in SUBSET File
           /\ tracer \in Tool \cup {NULL}
           /\ pc \in [Tool -> Label]
           /\ file \in [Tool -> File \cup {NULL}]
           /\ base \in [Tool -> Slot \cup {NULL}]
           /\ KeptFiles(t) /\ KeptAreas(t) /\ SessionInv(t) /\ Has(t)
           /\ NoZeroText
           /\ NULL \notin AreaFiles
  BY DEF OrderInv, TracedInv, SafeInv, TypeInv, TypeOK, AreaFiles, Mapped

(* The areas whose files and mappings a step leaves alone stay complete.   *)
LEMMA StayComplete ==
    ASSUME NEW s \in Mapped, vmas'[s] = vmas[s], meta'[vmas[s]] = meta[vmas[s]], Complete(s)
    PROVE  Complete(s)'
  BY Zenon DEF Complete, Id, At, Saved

LEMMA SameAreas ==
    ASSUME vmas' = vmas
    PROVE  Mapped' = Mapped /\ AreaFiles' = AreaFiles
  BY DEF Mapped, AreaFiles

LEMMA NoZeroWrite ==
    ASSUME NoZeroText, text \in [Addr -> Word], NEW x, NEW w,
           WriteWords(x, w) \/ WriteFails(x, w) \/ UNCHANGED text,
           w[1] # "zero", w[2] # "zero"
    PROVE  NoZeroText'
  <1>1. \A a \in Addr : text'[a] \in {text[a], w[1], w[2], "torn"}
    BY DEF WriteWords, WriteFails
  <1>2. QED
    BY <1>1 DEF NoZeroText

LEMMA OpenTaskKept ==
    ASSUME Orderly, OrderInv, NEW t \in Tool, OpenTask(t)
    PROVE  Kept(t)'
  <1>1. Quiet /\ pc'[t] \in {"alloc", "delete", "close"} /\ pc[t] = "idle"
    BY OrderTypes, Zenon DEF OpenTask, Orderly, Quiet, Goto
  <1>2. UNCHANGED <<text, vmas, meta, files, file>>
    BY DEF OpenTask
  <1>3. files = AreaFiles /\ \A s \in Mapped : Complete(s)
    BY <1>1 DEF OrderInv, LeftInv
  <1>4. Mapped' = Mapped /\ AreaFiles' = AreaFiles /\ \A s \in Mapped : Complete(s)'
    BY <1>2, <1>3, SameAreas, StayComplete
  <1>5. file[t] = NULL /\ NoZeroText
    BY <1>1, OrderTypes DEF KeptFiles
  <1>6. QED
    BY <1>1, <1>2, <1>3, <1>4, <1>5 DEF Kept, KeptFiles, KeptAreas, NoZeroText, Fresh

LEMMA AllocPatchFileKept ==
    ASSUME Orderly, OrderInv, NEW t \in Tool, AllocPatchFile(t)
    PROVE  Kept(t)'
  <1>1. /\ pc[t] = "alloc" /\ pc'[t] \in {"mmap", "err"}
        /\ UNCHANGED <<text, vmas>>
    BY OrderTypes, Zenon DEF AllocPatchFile, Goto
  <1>2. /\ file[t] = NULL /\ files = AreaFiles /\ NoZeroText
        /\ \A s \in Mapped : Complete(s)
    BY <1>1, OrderTypes, Zenon DEF KeptFiles, KeptAreas, Fresh
  <1>3. Mapped' = Mapped /\ AreaFiles' = AreaFiles
    BY <1>1, SameAreas
  <1>4. CASE UNCHANGED <<file, files, meta>> /\ pc'[t] = "err"
    <2>1. \A s \in Mapped : Complete(s)'
      BY <1>1, <1>2, <1>4, StayComplete
    <2>2. files \ {NULL} = AreaFiles
      BY <1>2, OrderTypes
    <2>3. QED
      BY <1>1, <1>2, <1>3, <1>4, <2>1, <2>2 DEF Kept, KeptFiles, KeptAreas, NoZeroText, Fresh
  <1>5. ASSUME NEW f \in File \ (files \cup {vmas[s] : s \in Slot}),
               file' = [file EXCEPT ![t] = f], files' = files \cup {f},
               meta' = [meta EXCEPT ![f] = Blank(obj[t])]
        PROVE  Kept(t)'
    <2>1. file'[t] = f
      BY <1>5, OrderTypes
    <2>2. \A s \in Mapped : Complete(s)'
      BY <1>1, <1>2, <1>5, StayComplete, OrderTypes, Zenon DEF Mapped
    <2>3. f \notin AreaFiles
      BY <1>2, <1>5
    <2>4. QED
      BY <1>1, <1>2, <1>3, <1>5, <2>1, <2>2, <2>3, Zenon DEF Kept, KeptFiles, KeptAreas, NoZeroText, Fresh
  <1>6. QED
    BY <1>4, <1>5, OrderTypes, Zenon DEF AllocPatchFile, Goto

LEMMA CreateMmapVmaFileKept ==
    ASSUME Orderly, OrderInv, NEW t \in Tool, CreateMmapVmaFile(t)
    PROVE  Kept(t)'
  <1>1. /\ pc[t] = "mmap" /\ pc'[t] \in {"load", "err"}
        /\ UNCHANGED <<text, meta, files, file>>
    BY OrderTypes, Zenon DEF CreateMmapVmaFile, Goto
  <1>2. /\ files = AreaFiles \cup {file[t]} /\ NoZeroText
        /\ \A s \in Mapped : Complete(s)
        /\ file[t] \in File /\ \A s \in Slot : vmas[s] # file[t]
    BY <1>1, OrderTypes, Zenon DEF KeptFiles, KeptAreas, Fresh, SessionInv
  <1>3. CASE vmas' = vmas
    <2>1. Mapped' = Mapped /\ AreaFiles' = AreaFiles /\ \A s \in Mapped : Complete(s)'
      BY <1>1, <1>2, <1>3, SameAreas, StayComplete
    <2>2. file[t] \notin AreaFiles
      BY <1>2 DEF AreaFiles, Mapped
    <2>3. QED
      BY <1>1, <1>2, <2>1, <2>2, Zenon DEF Kept, KeptFiles, KeptAreas, NoZeroText, Fresh
  <1>4. ASSUME NEW b \in Slot \ Mapped, vmas' = [vmas EXCEPT ![b] = file[t]],
               base' = [base EXCEPT ![t] = b], pc'[t] = "load"
        PROVE  Kept(t)'
    <2>1. Mapped' = Mapped \cup {b}
      BY <1>2, <1>4, OrderTypes, ConstantsAssumption DEF Mapped
    <2>2. \A s \in Mapped : vmas'[s] = vmas[s]
      BY <1>4, OrderTypes DEF Mapped
    <2>3. vmas'[b] = file[t] /\ base'[t] = b
      BY <1>4, OrderTypes
    <2>4. AreaFiles' = AreaFiles \cup {file[t]}
      BY <2>1, <2>2, <2>3 DEF AreaFiles
    <2>5. \A s \in Mapped : Complete(s)'
      BY <1>1, <1>2, <2>2, StayComplete
    <2>6. QED
      BY <1>1, <1>2, <1>4, <2>1, <2>3, <2>4, <2>5 DEF Kept, KeptFiles, KeptAreas, NoZeroText, Fresh
  <1>5. QED
    BY <1>3, <1>4, OrderTypes, Zenon DEF CreateMmapVmaFile, Goto

(* The steps between the mapping and the jump write to the file of the     *)
(* session only.                                                           *)
LEMMA LoadingKept ==
    ASSUME OrderInv, NEW t \in Tool, pc[t] \in Fresh, pc'[t] \in Fresh,
           UNCHANGED <<text, vmas, files, file, base>>,
           \A f \in File : f # file[t] => meta'[f] = meta[f],
           pc'[t] \in {"solve", "publish", "backup", "copy", "kick"} =>
             meta'[file[t]].hdrs = "rewritten",
           pc'[t] \in {"copy", "kick"} => \A k \in {1, 2} : meta'[file[t]].orig[k] # "zero"
    PROVE  Kept(t)'
  <1>1. NewArea(t) /\ files = AreaFiles \cup {file[t]} /\ NoZeroText
    BY OrderTypes, Zenon DEF SessionInv, KeptFiles
  <1>2. Mapped' = Mapped /\ AreaFiles' = AreaFiles
    BY SameAreas
  <1>3. \A s \in Mapped : s # base[t] => Complete(s) /\ vmas[s] # file[t] /\ vmas[s] \in File
    BY <1>1, OrderTypes DEF NewArea, KeptAreas, Fresh, Mapped
  <1>4. \A s \in Mapped : s # base[t] => Complete(s)'
    BY <1>3, StayComplete, Zenon
  <1>5. QED
    BY <1>1, <1>2, <1>4, Zenon DEF Kept, KeptFiles, KeptAreas, NoZeroText, Fresh

LEMMA PatchingKept ==
    ASSUME Orderly, OrderInv, NEW t \in Tool,
           \/ LoadPatch(t) \/ SolvePatchSymbols(t) \/ PublishAddr(t)
           \/ BackupOrigCode(t) \/ CopyPatch(t)
    PROVE  Kept(t)'
  <1>1. /\ pc[t] \in Fresh /\ file[t] \in File /\ meta[file[t]] \in Meta
        /\ NewArea(t) /\ obj[t] \in Obj
    BY OrderTypes, Zenon DEF LoadPatch, SolvePatchSymbols, PublishAddr, BackupOrigCode, CopyPatch, Has,
       Loading, SessionInv, Fresh
  <1>2. UNCHANGED <<text, vmas, files, file, base>>
    BY Zenon DEF LoadPatch, SolvePatchSymbols, PublishAddr, BackupOrigCode, CopyPatch, session
  <1>3. CASE LoadPatch(t)
    <2>1. pc'[t] \in {"solve", "unmap"}
      BY <1>3, OrderTypes, Zenon DEF LoadPatch, Goto
    <2>2. \A f \in File : f # file[t] => meta'[f] = meta[f]
      BY <1>3, OrderTypes, Zenon DEF LoadPatch
    <2>3. pc'[t] = "solve" => meta'[file[t]].hdrs = "rewritten"
      BY <1>1, <1>3, OrderTypes DEF LoadPatch, Goto, Meta
    <2>4. QED
      BY <1>1, <1>2, <2>1, <2>2, <2>3, LoadingKept, Zenon DEF Fresh
  <1>4. CASE SolvePatchSymbols(t) \/ PublishAddr(t)
    <2>1. meta[file[t]].hdrs = "rewritten"
      BY <1>4, OrderTypes, Zenon DEF SolvePatchSymbols, PublishAddr, KeptAreas
    <2>2. pc'[t] \in {"publish", "backup", "unmap"}
      BY <1>4, OrderTypes, Zenon DEF SolvePatchSymbols, PublishAddr, Goto
    <2>3. \A f \in File : f # file[t] => meta'[f] = meta[f]
      BY <1>4, OrderTypes, Zenon DEF SolvePatchSymbols, PublishAddr
    <2>4. meta'[file[t]].hdrs = meta[file[t]].hdrs
      BY <1>1, <1>4, OrderTypes DEF SolvePatchSymbols, PublishAddr, Meta
    <2>5. QED
      BY <1>1, <1>2, <2>1, <2>2, <2>3, <2>4, LoadingKept, Zenon DEF Fresh
  <1>5. CASE BackupOrigCode(t)
    <2>1. meta[file[t]].hdrs = "rewritten" /\ NoZeroText
      BY <1>5, OrderTypes, Zenon DEF BackupOrigCode, KeptAreas
    <2>2. \A k \in {1, 2} : ReadWords(DstAddr[obj[t]])[k] # "zero"
      <3>1. DstAddr[obj[t]] \in Addr /\ DstAddr[obj[t]] + 1 \in Addr
        BY <1>1, ConstantsAssumption
      <3>2. text[DstAddr[obj[t]]] # "zero" /\ text[DstAddr[obj[t]] + 1] # "zero"
        BY <2>1, <3>1 DEF NoZeroText
      <3>3. QED
        BY <3>2 DEF ReadWords
    <2>3. pc'[t] \in {"copy", "unmap"}
      BY <1>5, OrderTypes, Zenon DEF BackupOrigCode, Goto
    <2>4. \A f \in File : f # file[t] => meta'[f] = meta[f]
      BY <1>5, OrderTypes, Zenon DEF BackupOrigCode
    <2>5. meta'[file[t]].hdrs = meta[file[t]].hdrs
      BY <1>1, <1>5, OrderTypes DEF BackupOrigCode, Meta
    <2>6. pc'[t] = "copy" => meta'[file[t]].orig = ReadWords(DstAddr[obj[t]])
      BY <1>1, <1>5, OrderTypes DEF BackupOrigCode, Goto, Meta
    <2>7. QED
      BY <1>1, <1>2, <2>1, <2>2, <2>3, <2>4, <2>5, <2>6, LoadingKept, Zenon DEF Fresh
  <1>6. CASE CopyPatch(t)
    <2>1. /\ meta[file[t]].hdrs = "rewritten"
          /\ \A k \in {1, 2} : meta[file[t]].orig[k] # "zero"
      BY <1>6, OrderTypes, Zenon DEF CopyPatch, KeptAreas
    <2>2. meta' = meta
      BY <1>1, <1>6, OrderTypes, ConstantsAssumption DEF CopyPatch, NewArea, Mapped
    <2>3. pc'[t] \in {"kick", "unmap"}
      BY <1>6, OrderTypes, Zenon DEF CopyPatch, Goto
    <2>4. QED
      BY <1>1, <1>2, <2>1, <2>2, <2>3, LoadingKept, Zenon DEF Fresh
  <1>7. QED
    BY <1>3, <1>4, <1>5, <1>6

LEMMA KickTargetKept ==
    ASSUME Orderly, OrderInv, NEW t \in Tool, KickTarget(t)
    PROVE  Kept(t)'
  <1>1. /\ pc[t] = "kick" /\ base[t] \in Slot /\ NewArea(t)
        /\ files = AreaFiles \cup {file[t]} /\ NoZeroText
        /\ meta[file[t]].hdrs = "rewritten"
        /\ \A k \in {1, 2} : meta[file[t]].orig[k] # "zero"
        /\ meta[file[t]].id # 0 /\ meta[file[t]].addr = DstAddr[obj[t]]
        /\ obj[t] \in Obj
    BY OrderTypes, Zenon DEF KickTarget, Has, Loading, SessionInv, Fresh, KeptFiles, KeptAreas
  <1>2. UNCHANGED <<vmas, meta, files, file, base>>
    BY DEF KickTarget, session
  <1>3. vmas[base[t]] = file[t] /\ base[t] \in Mapped
    BY <1>1, ConstantsAssumption, Zenon DEF NewArea, Mapped
  <1>4. Mapped' = Mapped /\ AreaFiles' = AreaFiles
    BY <1>2, SameAreas
  <1>5. Complete(base[t])
    BY <1>1, <1>3, ConstantsAssumption DEF Complete, Id, At, Saved
  <1>6. \A s \in Mapped : Complete(s)
    BY <1>1, <1>5, OrderTypes, Zenon DEF KeptAreas
  <1>7. \A s \in Mapped : Complete(s)'
    BY <1>2, <1>6, StayComplete
  <1>8. NoZeroText'
    <2>1. base[t] # "zero"
      BY <1>1, ConstantsAssumption, Zenon
    <2>2. QED
      BY <1>1, <2>1, OrderTypes, NoZeroWrite DEF KickTarget
  <1>9. pc'[t] \in {"delete", "close", "unmap"}
    BY OrderTypes DEF KickTarget, Goto
  <1>10. files = AreaFiles
    BY <1>1, <1>3, Zenon DEF AreaFiles
  <1>11. QED
    BY <1>1, <1>2, <1>4, <1>7, <1>8, <1>9, <1>10, Zenon DEF Kept, KeptFiles, KeptAreas, Fresh

(* Unmapping takes one file from those of the areas.                       *)
LEMMA UnmapFiles ==
    ASSUME OrderInv, NEW b \in Mapped, vmas' = [vmas EXCEPT ![b] = NULL], meta' = meta,
           \A s \in Mapped : s # b => Complete(s)
    PROVE  /\ AreaFiles' = AreaFiles \ {vmas[b]}
           /\ \A s \in Mapped' : Complete(s)'
  <1>1. vmas \in [Slot -> File \cup {NULL}] /\ OneArea
    BY DEF OrderInv, TracedInv, SafeInv, TypeInv, TypeOK
  <1>2. Mapped' = Mapped \ {b} /\ \A s \in Mapped' : vmas'[s] = vmas[s]
    BY <1>1 DEF Mapped
  <1>3. AreaFiles' = AreaFiles \ {vmas[b]}
    BY <1>1, <1>2 DEF AreaFiles, OneArea
  <1>4. QED
    BY <1>2, <1>3, StayComplete

LEMMA DeleteMmapVmaFileKept ==
    ASSUME Orderly, OrderInv, NEW t \in Tool, DeleteMmapVmaFile(t)
    PROVE  Kept(t)'
  <1>1. /\ pc[t] = "unmap" /\ pc'[t] = "err" /\ NewArea(t) /\ NoZeroText
        /\ files = AreaFiles \cup {file[t]} /\ base[t] \in Slot \cup {NULL}
        /\ \A s \in Mapped : s # base[t] => Complete(s)
    <2>1. /\ pc[t] = "unmap" /\ pc'[t] = "err" /\ NoZeroText
          /\ base[t] \in Slot \cup {NULL}
          /\ SessionInv(t) /\ KeptFiles(t) /\ KeptAreas(t)
      BY OrderTypes, Zenon DEF DeleteMmapVmaFile, Goto
    <2>2. QED
      BY <2>1, Zenon DEF SessionInv, Fresh, KeptFiles, KeptAreas
  <1>2. UNCHANGED <<text, meta, files, file>>
    BY DEF DeleteMmapVmaFile
  <1>3. Attached(t)
    BY <1>1, AttachedAlone DEF OrderInv
  <1>4. CASE base[t] = NULL
    <2>1. vmas' = vmas
      BY <1>4, ConstantsAssumption DEF DeleteMmapVmaFile
    <2>2. \A s \in Mapped : s # base[t] /\ vmas[s] # file[t]
      BY <1>1, <1>4, ConstantsAssumption DEF NewArea, Mapped
    <2>3. Mapped' = Mapped /\ AreaFiles' = AreaFiles /\ \A s \in Mapped : Complete(s)'
      BY <1>1, <1>2, <2>1, <2>2, SameAreas, StayComplete
    <2>4. file[t] \notin AreaFiles
      BY <2>2 DEF AreaFiles
    <2>5. QED
      BY <1>1, <1>2, <2>3, <2>4 DEF Kept, KeptFiles, KeptAreas, NoZeroText, Fresh
  <1>5. CASE base[t] # NULL
    <2>1. vmas' = [vmas EXCEPT ![base[t]] = NULL]
      BY <1>3, <1>5 DEF DeleteMmapVmaFile, Orderly
    <2>2. base[t] \in Mapped /\ vmas[base[t]] = file[t]
      BY <1>1, <1>5, ConstantsAssumption, Zenon DEF NewArea, Mapped
    <2>3. AreaFiles' = AreaFiles \ {file[t]} /\ \A s \in Mapped' : Complete(s)'
      BY <1>1, <1>2, <2>1, <2>2, UnmapFiles, Zenon
    <2>4. QED
      BY <1>1, <1>2, <2>3, Zenon DEF Kept, KeptFiles, KeptAreas, NoZeroText, Fresh
  <1>6. QED
    BY <1>4, <1>5

LEMMA MunmapUlpKept ==
    ASSUME Orderly, OrderInv, NEW t \in Tool, MunmapUlp(t)
    PROVE  Kept(t)'
  <1>1. /\ pc[t] = "munmap" /\ NoZeroText /\ files = AreaFiles
        /\ vmas[base[t]] = file[t] /\ ListInv(t) /\ base[t] \in Listed(t)
        /\ \A s \in Mapped : Complete(s)
    BY OrderTypes, Zenon DEF MunmapUlp, SessionInv, Current, Label, Fresh, KeptFiles, KeptAreas
  <1>2. UNCHANGED <<text, meta, files, file>>
    BY DEF MunmapUlp, session
  <1>3. Attached(t)
    BY <1>1, AttachedAlone DEF OrderInv
  <1>4. vmas' = [vmas EXCEPT ![base[t]] = NULL] /\ pc'[t] = "unlink"
    BY <1>3, OrderTypes, Zenon DEF MunmapUlp, Orderly, Goto
  <1>5. base[t] \in Mapped
    BY <1>1, ListedMapped
  <1>6. AreaFiles' = AreaFiles \ {file[t]} /\ \A s \in Mapped' : Complete(s)'
    BY <1>1, <1>2, <1>4, <1>5, UnmapFiles, Zenon
  <1>7. QED
    BY <1>1, <1>2, <1>4, <1>6 DEF Kept, KeptFiles, KeptAreas, NoZeroText, Fresh

LEMMA RemoveFileKept ==
    ASSUME Orderly, OrderInv, NEW t \in Tool, RemoveUlpFile(t) \/ UnlinkPatchFile(t)
    PROVE  Kept(t)'
  <1>1. /\ pc[t] \in {"err", "unlink"} /\ NoZeroText
        /\ files' = AreaFiles /\ \A s \in Mapped : Complete(s)
    <2>1. pc[t] \in {"err", "unlink"} /\ files' = files \ {file[t]}
      BY DEF RemoveUlpFile, UnlinkPatchFile
    <2>2. QED
      BY <2>1, OrderTypes, Zenon DEF KeptFiles, KeptAreas, Fresh
  <1>5. pc'[t] \in {"delete", "close"}
    BY OrderTypes, Zenon DEF RemoveUlpFile, UnlinkPatchFile, Goto
  <1>2. UNCHANGED <<text, vmas>> /\ Forget(file[t])
    BY DEF RemoveUlpFile, UnlinkPatchFile
  <1>3. \A s \in Mapped : meta'[vmas[s]] = meta[vmas[s]]
    BY <1>2, OrderTypes, ForgetKeeps, Zenon
  <1>4. Mapped' = Mapped /\ AreaFiles' = AreaFiles /\ \A s \in Mapped : Complete(s)'
    BY <1>1, <1>2, <1>3, SameAreas, StayComplete
  <1>6. QED
    BY <1>1, <1>2, <1>4, <1>5, Zenon DEF Kept, KeptFiles, KeptAreas, NoZeroText, Fresh

LEMMA RestoreOrigCodeKept ==
    ASSUME Orderly, OrderInv, NEW t \in Tool, RestoreOrigCode(t)
    PROVE  Kept(t)'
  <1>1. /\ pc[t] = "delete" /\ NoZeroText /\ files = AreaFiles /\ ListInv(t)
        /\ \A s \in Mapped : Complete(s)
    BY OrderTypes, Zenon DEF RestoreOrigCode, SessionInv, Current, Label, Fresh, KeptFiles, KeptAreas
  <1>2. UNCHANGED <<vmas, meta, files>>
    BY DEF RestoreOrigCode
  <1>3. Mapped' = Mapped /\ AreaFiles' = AreaFiles /\ \A s \in Mapped : Complete(s)'
    BY <1>1, <1>2, SameAreas, StayComplete
  <1>4. PICK s \in LastUlps(t) : Restored(t, s) \/ NotRestored(t, s)
    BY DEF RestoreOrigCode
  <1>5. /\ s \in Mapped /\ vmas[s] = areas[t][s]
        /\ \A k \in {1, 2} : ulps[t][s].orig[k] # "zero"
    BY <1>1, <1>4, ListedMapped DEF LastUlps, ListInv, Complete, Saved
  <1>6. NoZeroText'
    BY <1>1, <1>4, <1>5, OrderTypes, NoZeroWrite, Zenon DEF Restored, NotRestored
  <1>7. \/ pc'[t] = "close"
        \/ pc'[t] = "munmap" /\ base'[t] = s /\ file'[t] = areas[t][s]
    BY <1>4, OrderTypes, Zenon DEF Restored, NotRestored, Goto
  <1>8. QED
    BY <1>1, <1>2, <1>3, <1>5, <1>6, <1>7, Zenon DEF Kept, KeptFiles, KeptAreas, Fresh

(* Nothing is left behind by a session that closes.                        *)
LEMMA CloseTaskKept ==
    ASSUME OrderInv, NEW t \in Tool, NothingToDelete(t) \/ CloseTask(t)
    PROVE  Kept(t)' /\ files' = AreaFiles' /\ \A s \in Mapped' : Complete(s)'
  <1>1. /\ pc[t] \in {"delete", "close"} /\ NoZeroText /\ files = AreaFiles
        /\ \A s \in Mapped : Complete(s)
    BY OrderTypes, Zenon DEF NothingToDelete, CloseTask, Fresh, KeptFiles, KeptAreas
  <1>2. /\ UNCHANGED <<text, vmas, meta, files>>
        /\ \/ pc'[t] = "close"
           \/ pc'[t] = "idle" /\ file'[t] = NULL
    BY OrderTypes, Zenon DEF NothingToDelete, CloseTask, EndSession, Goto, target
  <1>3. Mapped' = Mapped /\ AreaFiles' = AreaFiles /\ \A s \in Mapped : Complete(s)'
    BY <1>1, <1>2, SameAreas, StayComplete
  <1>4. QED
    BY <1>1, <1>2, <1>3, Zenon DEF Kept, KeptFiles, KeptAreas, NoZeroText, Fresh

-----------------------------------------------------------------------------
LEMMA OrderStep == Orderly /\ OrderInv /\ [Next]_vars => OrderInv'
  <1> SUFFICES ASSUME Orderly, OrderInv, [Next]_vars PROVE OrderInv'
    OBVIOUS
  <1>1. TracedInv'
    BY TracedStep DEF OrderInv
  <1>2. CASE UNCHANGED vars
    <2>1. /\ text' = text /\ vmas' = vmas /\ meta' = meta /\ files' = files
          /\ tracer' = tracer /\ pc' = pc /\ file' = file /\ base' = base
      BY <1>2 DEF vars, target, session
    <2>2. Mapped' = Mapped /\ AreaFiles' = AreaFiles
      BY <2>1, SameAreas
    <2>3. \A s : Complete(s)' = Complete(s)
      BY <2>1 DEF Complete, Id, At, Saved
    <2>4. \A t \in Tool : KeptFiles(t)' = KeptFiles(t) /\ KeptAreas(t)' = KeptAreas(t)
      BY <2>1, <2>2, <2>3, Zenon DEF KeptFiles, KeptAreas
    <2>5. NoZeroText' /\ LeftInv'
      BY <2>1, <2>2, <2>3 DEF OrderInv, NoZeroText, LeftInv, Quiet
    <2>6. QED
      BY <1>1, <2>4, <2>5 DEF OrderInv
  <1>3. ASSUME NEW t \in Tool, OpenTask(t) \/ Step(t)
        PROVE  OrderInv'
    <2>1. Kept(t)'
      BY <1>3, OpenTaskKept, AllocPatchFileKept, CreateMmapVmaFileKept, PatchingKept,
         KickTargetKept, DeleteMmapVmaFileKept, RemoveFileKept, RestoreOrigCodeKept,
         MunmapUlpKept, CloseTaskKept, Zenon
         DEF Step
    <2>2. \A u \in Tool : u # t => pc'[u] = "idle" /\ file'[u] = NULL
      <3>1. SafeInv /\ TypeOK /\ Exclusive
        BY DEF OrderInv, TracedInv, SafeInv, TypeInv, Orderly
      <3>2. \A u \in Tool : u # t => pc'[u] = "idle" /\ pc[u] = "idle" /\ file'[u] = file[u]
        BY <1>3, <3>1, Alone, Frame
      <3>3. QED
        BY <3>2, OrderTypes, Zenon DEF KeptFiles
    <2>3. \A u \in Tool : KeptFiles(u)' /\ KeptAreas(u)'
      BY <2>1, <2>2, Zenon DEF Kept, KeptFiles, KeptAreas, Fresh
    <2>4. LeftInv'
      <3>1. CASE CloseTask(t)
        BY <3>1, CloseTaskKept DEF LeftInv
      <3>2. CASE ~CloseTask(t)
        <4>1. pc'[t] # "idle"
          BY <1>3, <3>2, OrderTypes, Zenon DEF Step, OpenTask, AllocPatchFile, CreateMmapVmaFile,
             LoadPatch, SolvePatchSymbols, PublishAddr, BackupOrigCode, CopyPatch, KickTarget,
             DeleteMmapVmaFile, RemoveUlpFile, NothingToDelete, RestoreOrigCode,
             Restored, NotRestored, MunmapUlp, UnlinkPatchFile, Goto
        <4>2. QED
          BY <4>1 DEF LeftInv, Quiet
      <3>3. QED
        BY <3>1, <3>2
    <2>5. QED
      BY <1>1, <2>1, <2>3, <2>4 DEF OrderInv, Kept
  <1>4. ASSUME NEW t \in Tool PROVE ~Crash(t)
    BY DEF Crash, Orderly
  <1>5. QED
    BY <1>2, <1>3, <1>4 DEF Next

LEMMA InitOrder == Init => OrderInv
  <1> SUFFICES ASSUME Init PROVE OrderInv
    OBVIOUS
  <1>1. Mapped = {} /\ AreaFiles = {} /\ files = {}
    BY DEF Init, NoAreas, Mapped, AreaFiles
  <1>2. \A t \in Tool : pc[t] = "idle" /\ file[t] = NULL
    BY Zenon DEF Init
  <1>3. NoZeroText
    BY DEF Init, NoZeroText
  <1>4. QED
    BY <1>1, <1>2, <1>3, InitTraced, Zenon DEF OrderInv, LeftInv, KeptFiles, KeptAreas, Fresh

LEMMA OrderInvariant == Orderly => (Spec => []OrderInv)
  <1> SUFFICES ASSUME Orderly PROVE Spec => []OrderInv
    OBVIOUS
  <1>1. OrderInv /\ [Next]_vars => OrderInv'
    BY OrderStep
  <1>2. QED
    BY <1>1, InitOrder, PTL DEF Spec

(* When, besides, no tool is killed and munmap(2) works in the target,     *)
(* sessions leave map_files with the files of the areas and no other,      *)
(* whichever step of init_patch() and delete_patch() fails.                *)
THEOREM FilesAreThoseOfAreas == Orderly => (Spec => []FilesMatchAreas)
  <1>1. OrderInv => FilesMatchAreas
    BY DEF OrderInv, LeftInv, FilesMatchAreas, AreaFiles
  <1>2. QED
    BY <1>1, OrderInvariant, PTL

(* Under the same conditions the areas that sessions leave are set up      *)
(* completely: a later open_task() can read and delete_patch() can restore *)
(* each of them.                                                           *)
THEOREM AreasAreComplete == Orderly => (Spec => []AreasComplete)
  <1>1. OrderInv => AreasComplete
    BY Zenon DEF OrderInv, LeftInv, AreasComplete, Complete, Id, At, Saved
  <1>2. QED
    BY <1>1, OrderInvariant, PTL

(* Under the same conditions no zeros of an orig_code that was not filled  *)
(* in are ever written to the text of the target.                          *)
THEOREM ZerosNeverWritten == Orderly => (Spec => []NoZeroText)
  <1>1. OrderInv => NoZeroText
    BY DEF OrderInv
  <1>2. QED
    BY <1>1, OrderInvariant, PTL

-----------------------------------------------------------------------------

(* Besides, no write of code is cut short.                                 *)
Untorn == Orderly /\ "short" \notin Faults

(* Labels at which the area of a session has an id but no jump leads to it.*)
Half == {"publish", "backup", "copy", "kick", "unmap", "munmap"}

(* w is the word that the patches in S ask for at a.                       *)
Exact(w, a, S) ==
    \/ /\ \A s \in S : ~Covers(s, a)
       /\ w = "text"
    \/ \E s \in S : /\ Covers(s, a)
                    /\ \A r \in S : Covers(r, a) => Id(r) <= Id(s)
                    /\ w = IF a = At(s) THEN "jmp" ELSE s

ObjOf(s) == meta[vmas[s]].obj

Older(s) == {r \in Active : Id(r) < Id(s)}

(* A patch saved the words that the patches before it ask for.             *)
SavedExact(s) ==
    \A k \in {1, 2} : Exact(Saved(s)[k], At(s) + k - 1, Older(s))

(* So did one that is about to be put in effect.                           *)
BackupExact(t) ==
    pc[t] \in {"copy", "kick"} =>
      \A k \in {1, 2} : Exact(meta[file[t]].orig[k], DstAddr[obj[t]] + k - 1, Active)

TextInv ==
    /\ TracedInv
    /\ \A a \in Addr : Exact(text[a], a, Active)
    /\ \A s \in Active : SavedExact(s)
    /\ \A t \in Tool : BackupExact(t)

-----------------------------------------------------------------------------
LEMMA ExactSame ==
    ASSUME NEW w, NEW a, NEW S, Exact(w, a, S),
           \A s \in S : Id(s)' = Id(s) /\ At(s)' = At(s)
    PROVE  Exact(w, a, S)'
  BY Zenon DEF Exact, Covers, Id, At

(* A patch that does not cover a word can come and go.                     *)
LEMMA ExactOther ==
    ASSUME NEW w, NEW a, NEW S, NEW b, ~Covers(b, a), Exact(w, a, S)
    PROVE  Exact(w, a, S \cup {b}) /\ Exact(w, a, S \ {b})
  BY DEF Exact

(* With one session at a time, only its own area can be half patched.      *)
LEMMA ActiveAlone ==
    ASSUME Exclusive, SafeInv, NEW t \in Tool, OpenTask(t) \/ Step(t)
    PROVE  /\ Active = {s \in Patched : base[t] = s => pc[t] \notin Half}
           /\ Active' = {s \in Patched' : base'[t] = s => pc'[t] \notin Half}
  <1>1. \A u \in Tool : u # t => pc'[u] = "idle" /\ pc[u] = "idle"
    BY Alone, Frame, Zenon DEF SafeInv, TypeInv
  <1>2. QED
    BY <1>1 DEF Active, Half

(* What keeps the text exact: no code is written, and the patches in       *)
(* effect stay what they were.                                             *)
Same ==
    /\ text' = text
    /\ Active' = Active
    /\ \A s \in Active : /\ Id(s)' = Id(s) /\ At(s)' = At(s) /\ Saved(s)' = Saved(s)
                         /\ ObjOf(s)' = ObjOf(s)

TextKept ==
    /\ \A a \in Addr : Exact(text[a], a, Active)
    /\ \A s \in Active : SavedExact(s)

LEMMA SameKept ==
    ASSUME TextKept, Same
    PROVE  TextKept'
  <1>1. \A s \in Active : Id(s)' = Id(s) /\ At(s)' = At(s) /\ Saved(s)' = Saved(s)
    BY DEF Same
  <1>2. \A a \in Addr : Exact(text[a], a, Active)'
    <2>1. ASSUME NEW a \in Addr, NEW w, NEW S, w = text'[a], S = Active'
          PROVE  Exact(w, a, S)'
      BY <1>1, <2>1, ExactSame DEF TextKept, Same
    <2>2. QED
      BY <2>1
  <1>3. \A s \in Active' : SavedExact(s)'
    <2>1. ASSUME NEW s \in Active, NEW k \in {1, 2}, NEW w, NEW a, NEW S,
                 w = Saved(s)', a = At(s)' + k - 1, S = Older(s)'
          PROVE  Exact(w[k], a, S)'
      <3>1. S = Older(s) /\ w = Saved(s) /\ a = At(s) + k - 1
        BY <1>1, <2>1 DEF Older, Same
      <3>2. Exact(w[k], a, S) /\ S \subseteq Active
        BY <3>1 DEF TextKept, SavedExact, Older
      <3>3. QED
        BY <1>1, <3>2, ExactSame
    <2>2. QED
      BY <2>1 DEF SavedExact, Same
  <1>4. QED
    BY <1>2, <1>3 DEF TextKept

(* A step that touches one area at most, in effect neither before nor      *)
(* after it.                                                               *)
LEMMA SameBut ==
    ASSUME Exclusive, SafeInv, NEW t \in Tool, OpenTask(t) \/ Step(t), NEW b,
           text' = text,
           \A s \in Slot : s # b => vmas'[s] = vmas[s],
           \A s \in Mapped : s # b => meta'[vmas[s]] = meta[vmas[s]],
           b \notin Active, b \notin Active',
           \A s \in Slot : s # b => (base[t] = s /\ pc[t] \in Half <=> base'[t] = s /\ pc'[t] \in Half)
    PROVE  Same
  <1>1. \A s \in Slot : s # b => (s \in Mapped <=> s \in Mapped')
    BY DEF Mapped
  <1>2. \A s \in Mapped : s # b => /\ Id(s)' = Id(s) /\ At(s)' = At(s) /\ Saved(s)' = Saved(s)
                                   /\ ObjOf(s)' = ObjOf(s)
    BY DEF Id, At, Saved, ObjOf, Mapped
  <1>3. \A s \in Slot : s # b => (s \in Patched <=> s \in Patched')
    BY <1>1, <1>2, Zenon DEF Patched, Id
  <1>4. Active \subseteq Slot /\ Active' \subseteq Slot /\ Active \subseteq Mapped
    BY Zenon DEF Active, Patched, Mapped
  <1>5. \A s \in Slot : s # b => (s \in Active <=> s \in Active')
    BY <1>3, ActiveAlone
  <1>6. QED
    BY <1>2, <1>4, <1>5 DEF Same

LEMMA NoNull == NULL \notin Active /\ NULL \notin Active'
  BY ConstantsAssumption DEF Active, Patched, Mapped

LEMMA SessionSame ==
    ASSUME Exclusive, TracedInv, NEW t \in Tool,
           \/ OpenTask(t) \/ AllocPatchFile(t) \/ RemoveUlpFile(t) \/ NothingToDelete(t)
           \/ UnlinkPatchFile(t) \/ CloseTask(t)
    PROVE  Same
  <1>1. /\ text' = text /\ vmas' = vmas
        /\ pc[t] \notin Half /\ pc'[t] \notin Half
    BY SessionTypes, Zenon DEF OpenTask, AllocPatchFile, RemoveUlpFile, NothingToDelete,
       UnlinkPatchFile, CloseTask, EndSession, Goto, Half, target
  <1>2. \A s \in Mapped : meta'[vmas[s]] = meta[vmas[s]]
    <2>1. CASE AllocPatchFile(t)
      BY <2>1, SessionTypes DEF AllocPatchFile, Mapped
    <2>2. CASE RemoveUlpFile(t) \/ UnlinkPatchFile(t)
      BY <2>2, SessionTypes, ForgetKeeps, Zenon DEF RemoveUlpFile, UnlinkPatchFile
    <2>3. CASE OpenTask(t) \/ NothingToDelete(t) \/ CloseTask(t)
      BY <2>3, Zenon DEF OpenTask, NothingToDelete, CloseTask, target
    <2>4. QED
      BY <2>1, <2>2, <2>3
  <1>3. SafeInv /\ (OpenTask(t) \/ Step(t))
    BY DEF TracedInv, Step
  <1>4. QED
    BY <1>1, <1>2, <1>3, NoNull, SameBut, Zenon

LEMMA LoadingSame ==
    ASSUME Exclusive, TracedInv, NEW t \in Tool,
           \/ LoadPatch(t) \/ SolvePatchSymbols(t) \/ PublishAddr(t)
           \/ BackupOrigCode(t) \/ CopyPatch(t)
    PROVE  Same
  <1>a. text' = text /\ vmas' = vmas /\ base' = base
    BY Zenon DEF LoadPatch, SolvePatchSymbols, PublishAddr, BackupOrigCode, CopyPatch, session
  <1>b. pc[t] \in {"load", "solve", "publish", "backup", "copy"}
    BY Zenon DEF LoadPatch, SolvePatchSymbols, PublishAddr, BackupOrigCode, CopyPatch
  <1>c. meta \in [File -> Meta] /\ pc \in [Tool -> Label]
    BY SessionTypes
  <1>1. /\ text' = text /\ vmas' = vmas /\ base' = base
        /\ NewArea(t) /\ file[t] \in File
    BY <1>a, <1>b, SessionTypes, Zenon DEF SessionInv, Fresh, NewArea
  <1>2. \A f \in File : f # file[t] => meta'[f] = meta[f]
    <2>1. CASE LoadPatch(t) \/ CopyPatch(t)
      <3>1. base[t] # NULL => vmas[base[t]] = file[t]
        BY <1>1 DEF NewArea
      <3>2. QED
        BY <2>1, <3>1, <1>c, ConstantsAssumption, Zenon DEF LoadPatch, CopyPatch, Mapped
    <2>2. CASE SolvePatchSymbols(t) \/ PublishAddr(t) \/ BackupOrigCode(t)
      BY <2>2, <1>c, ZenonT(30) DEF SolvePatchSymbols, PublishAddr, BackupOrigCode
    <2>3. QED
      BY <2>1, <2>2
  <1>3. \A s \in Mapped : s # base[t] => meta'[vmas[s]] = meta[vmas[s]]
    BY <1>1, <1>2, SessionTypes DEF NewArea, Mapped
  <1>4. SafeInv /\ Step(t)
    BY DEF TracedInv, Step
  <1>5. \/ pc[t] \in Half
        \/ meta[file[t]].id = 0
    BY <1>b, SessionTypes, Zenon DEF SessionInv, Half
  <1>6. \/ pc'[t] \in Half
        \/ meta'[file[t]].id = 0
    <2>1. CASE LoadPatch(t)
      <3>1. meta[file[t]].id = 0
        BY <2>1, SessionTypes, Zenon DEF LoadPatch, SessionInv
      <3>2. QED
        BY <2>1, <3>1, <1>1, <1>c DEF LoadPatch, Meta, Half, Goto
    <2>2. CASE SolvePatchSymbols(t)
      <3>1. meta[file[t]].id = 0
        BY <2>2, SessionTypes, Zenon DEF SolvePatchSymbols, SessionInv
      <3>2. QED
        BY <2>2, <3>1, <1>1, <1>c, Zenon DEF SolvePatchSymbols, Half, Goto
    <2>3. CASE PublishAddr(t) \/ BackupOrigCode(t) \/ CopyPatch(t)
      BY <2>3, <1>c, Zenon DEF PublishAddr, BackupOrigCode, CopyPatch, Half, Goto
    <2>4. QED
      BY <2>1, <2>2, <2>3
  <1>7. base[t] \in Mapped => vmas[base[t]] = file[t]
    BY <1>1, ConstantsAssumption, Zenon DEF NewArea, Mapped
  <1>8. base[t] \notin Active
    BY <1>4, <1>5, <1>7, ActiveAlone DEF Patched
  <1>9. base[t] \notin Active'
    BY <1>1, <1>4, <1>6, <1>7, ActiveAlone, Zenon DEF Patched, Mapped
  <1>10. QED
    BY <1>1, <1>3, <1>4, <1>8, <1>9, SameBut

LEMMA MappingSame ==
    ASSUME Orderly, TracedInv, NEW t \in Tool,
           CreateMmapVmaFile(t) \/ DeleteMmapVmaFile(t) \/ MunmapUlp(t)
    PROVE  Same
  <1>1. text' = text /\ meta' = meta /\ SafeInv /\ Step(t) /\ Exclusive
    BY Zenon DEF CreateMmapVmaFile, DeleteMmapVmaFile, MunmapUlp, TracedInv, Step, Orderly
  <1>2. CASE CreateMmapVmaFile(t)
    <2>1. /\ base[t] = NULL /\ pc[t] = "mmap" /\ pc'[t] \in {"load", "err"}
          /\ file[t] \in File /\ meta[file[t]] = Blank(obj[t])
      BY <1>2, SessionTypes, Zenon DEF CreateMmapVmaFile, SessionInv, Goto
    <2>2. \/ vmas' = vmas /\ base' = base
          \/ \E s \in Slot \ Mapped : vmas' = [vmas EXCEPT ![s] = file[t]] /\ base'[t] = s
      BY <1>2, SessionTypes, Zenon DEF CreateMmapVmaFile
    <2>3. base'[t] \notin Active
      BY <2>1, <2>2, NoNull, Zenon DEF Active, Patched
    <2>4. base'[t] \notin Active'
      <3>1. CASE vmas' = vmas /\ base' = base
        BY <2>1, <3>1, NoNull
      <3>2. ASSUME NEW s \in Slot \ Mapped, vmas' = [vmas EXCEPT ![s] = file[t]], base'[t] = s
            PROVE  base'[t] \notin Active'
        <4>1. vmas'[s] = file[t] /\ meta'[file[t]].id = 0
          BY <1>1, <2>1, <3>2, SessionTypes DEF Blank
        <4>2. QED
          BY <3>2, <4>1, Zenon DEF Active, Patched
      <3>3. QED
        BY <2>2, <3>1, <3>2
    <2>5. \A s \in Slot : s # base'[t] => vmas'[s] = vmas[s]
      BY <2>2, SessionTypes
    <2>6. pc[t] \notin Half /\ pc'[t] \notin Half
      BY <2>1, Zenon DEF Half
    <2>7. QED
      BY <1>1, <2>3, <2>4, <2>5, <2>6, SameBut
  <1>3. CASE DeleteMmapVmaFile(t) \/ MunmapUlp(t)
    <2>1. pc[t] \in {"unmap", "munmap"} /\ base' = base /\ pc'[t] \notin Half
      <3>1. pc[t] # "idle"
        BY <1>3, Zenon DEF DeleteMmapVmaFile, MunmapUlp
      <3>2. Attached(t)
        BY <3>1, AttachedAlone
      <3>3. QED
        BY <1>3, <3>2, SessionTypes, Zenon DEF DeleteMmapVmaFile, MunmapUlp, Orderly, Goto, Half, session
    <2>2. base[t] \in Slot => vmas' = [vmas EXCEPT ![base[t]] = NULL]
      <3>1. Attached(t)
        BY <2>1, AttachedAlone
      <3>2. QED
        BY <1>3, <3>1, ConstantsAssumption, ZenonT(30) DEF DeleteMmapVmaFile, MunmapUlp, Orderly
    <2>3. base[t] \notin Slot => base[t] = NULL /\ vmas' = vmas
      <3>1. MunmapUlp(t) => base[t] \in Slot
        BY SessionTypes, Zenon DEF MunmapUlp, SessionInv, Listed
      <3>2. QED
        BY <1>3, <3>1, SessionTypes, Zenon DEF DeleteMmapVmaFile
    <2>4. base[t] \notin Active'
      BY <2>2, <2>3, NoNull, SessionTypes, ZenonT(30) DEF Active, Patched, Mapped
    <2>5. base[t] \notin Active
      BY <1>1, <2>1, ActiveAlone, Zenon DEF Half
    <2>6. \A s \in Slot : s # base[t] => vmas'[s] = vmas[s]
      BY <2>2, <2>3, SessionTypes
    <2>7. QED
      BY <1>1, <2>1, <2>4, <2>5, <2>6, SameBut
  <1>4. QED
    BY <1>2, <1>3

LEMMA ActiveTypes ==
    ASSUME TracedInv
    PROVE  \A s \in Active : /\ s \in Slot /\ s \in Mapped /\ s \in Patched
                             /\ vmas[s] \in File /\ Id(s) \in Nat \ {0}
                             /\ At(s) \in Nat /\ At(s) \in Addr
  <1>1. \A s \in Active : /\ s \in Slot /\ s \in Mapped /\ s \in Patched /\ vmas[s] \in File
                          /\ meta[vmas[s]] \in Meta /\ Id(s) # 0
    BY Zenon DEF Active, Patched, Mapped, Id, TracedInv, SafeInv, TypeInv, TypeOK
  <1>2. \A s \in Active : Id(s) \in Nat /\ At(s) \in Addr \cup {NULL} /\ At(s) # NULL
    <2>1. \A s \in Active : \A t \in Tool : ~(pc[t] = "publish" /\ base[t] = s)
      BY Zenon DEF Active
    <2>2. \A s \in Active : At(s) # NULL
      BY <1>1, <2>1, Zenon DEF TracedInv, AddrInv
    <2>3. QED
      BY <1>1, <2>2, Zenon DEF Id, At, Meta
  <1>3. QED
    BY <1>1, <1>2, ConstantsAssumption, Zenon

(* The jump of session t puts b in effect, over the others.                *)
Put(t, b) ==
    /\ vmas' = vmas /\ meta' = meta
    /\ pc[t] = "kick" /\ pc'[t] \in {"delete", "close"}
    /\ b \notin Active /\ Active' = Active \cup {b}
    /\ b \in Mapped /\ b \in Patched /\ vmas[b] = file[t]
    /\ Id(b) = max_ulp_id[t] /\ Id(b) \in Nat \ {0} /\ \A s \in Active : Id(s) < Id(b)
    /\ obj[t] \in Obj /\ ObjOf(b) = obj[t] /\ At(b) = DstAddr[obj[t]]
    /\ WriteWords(At(b), <<"jmp", b>>)

LEMMA KickTargetPuts ==
    ASSUME Untorn, TracedInv, NEW t \in Tool, KickTarget(t)
    PROVE  Same \/ \E b \in Slot : Put(t, b)
  <1>1. /\ pc[t] = "kick" /\ base[t] \in Slot /\ NewArea(t) /\ obj[t] \in Obj
        /\ meta[file[t]].id = max_ulp_id[t] /\ meta[file[t]].id # 0
        /\ meta[file[t]].obj = obj[t] /\ meta[file[t]].addr = DstAddr[obj[t]]
        /\ \A s \in Mapped : s # base[t] => Id(s) < max_ulp_id[t]
    BY SessionTypes, ZenonT(30) DEF KickTarget, SessionInv, Has, Loading, Fresh
  <1>2. vmas' = vmas /\ meta' = meta /\ base' = base
    BY ZenonT(30) DEF KickTarget, session
  <1>3. SafeInv /\ Step(t) /\ Exclusive /\ "short" \notin Faults
    BY DEF TracedInv, Step, Untorn, Orderly
  <1>4. CASE text' = text /\ pc'[t] = "unmap"
    <2>1. base[t] \notin Active /\ base[t] \notin Active'
      BY <1>1, <1>2, <1>3, <1>4, ActiveAlone, Zenon DEF Half
    <2>2. QED
      BY <1>1, <1>2, <1>3, <1>4, <2>1, SameBut, Zenon DEF Half
  <1>5. CASE WriteWords(DstAddr[obj[t]], <<"jmp", base[t]>>) /\ pc'[t] \in {"delete", "close"}
    <2>1. PICK b \in Slot : b = base[t]
      BY <1>1, Zenon
    <2>2. /\ vmas[b] = file[t] /\ b \in Mapped /\ b \in Patched
          /\ Id(b) = max_ulp_id[t] /\ ObjOf(b) = obj[t] /\ At(b) = DstAddr[obj[t]]
      BY <1>1, <2>1, ConstantsAssumption DEF NewArea, Mapped, Patched, Id, At, ObjOf
    <2>3. Patched' = Patched
      BY <1>2 DEF Patched, Mapped
    <2>4. b \notin Active /\ Active' = Active \cup {b}
      BY <1>1, <1>2, <1>3, <1>5, <2>1, <2>2, <2>3, ActiveAlone, Zenon DEF Half
    <2>5. \A s \in Active : Id(s) < Id(b)
      BY <1>1, <2>1, <2>2, <2>4, Zenon DEF Active, Patched
    <2>6. Id(b) \in Nat \ {0}
      BY <1>1, <2>2, SessionTypes, ZenonT(30) DEF Id, Meta, Mapped
    <2>7. QED
      BY <1>1, <1>2, <1>5, <2>1, <2>2, <2>4, <2>5, <2>6, Zenon DEF Put
  <1>6. QED
    BY <1>3, <1>4, <1>5, SessionTypes, Zenon DEF KickTarget, WriteFails, Goto

(* A jump over code that was backed up leaves the text exact.              *)
LEMMA PutExact ==
    ASSUME TracedInv, TextKept, NEW t \in Tool, BackupExact(t), NEW b \in Slot, Put(t, b)
    PROVE  TextKept'
  <1>1. PICK d \in Addr : d = At(b) /\ d \in Nat /\ d + 1 \in Addr
    BY ConstantsAssumption, Zenon DEF Put
  <1>2. \A s \in Slot : Id(s)' = Id(s) /\ At(s)' = At(s) /\ Saved(s)' = Saved(s)
    BY DEF Put, Id, At, Saved
  <1>3. /\ Active' = Active \cup {b} /\ Id(b) \in Nat
        /\ \A s \in Active : s \in Slot /\ Id(s) \in Nat /\ Id(s) < Id(b)
    BY ActiveTypes DEF Put
  <1>4. \A k \in {1, 2} : Exact(Saved(b)[k], d + k - 1, Active)
    BY <1>1, Zenon DEF Put, BackupExact, Saved
  <1>5. text' = [text EXCEPT ![d] = "jmp", ![d + 1] = b] /\ text \in [Addr -> Word]
    BY <1>1, SessionTypes, Zenon DEF Put, WriteWords
  <1>6. ASSUME NEW a \in Addr PROVE Exact(text[a], a, Active)'
    <2>1. CASE a \in {d, d + 1}
      <3>1. text'[a] = IF a = At(b)' THEN "jmp" ELSE b
        BY <1>1, <1>2, <1>5, <2>1
      <3>2. Covers(b, a)'
        BY <1>1, <1>2, <2>1, Zenon DEF Covers, At
      <3>3. \A r \in Active' : Id(r)' <= Id(b)'
        BY <1>2, <1>3
      <3>4. QED
        BY <1>3, <3>1, <3>2, <3>3 DEF Exact
    <2>2. CASE a \notin {d, d + 1}
      <3>1. ~Covers(b, a) /\ text'[a] = text[a]
        BY <1>1, <1>5, <2>2, Zenon DEF Covers, At
      <3>2. ASSUME NEW w, NEW S, w = text'[a], S = Active' PROVE Exact(w, a, S)'
        <4>1. Exact(w, a, S) /\ \A s \in S : Id(s)' = Id(s) /\ At(s)' = At(s)
          BY <1>2, <1>3, <3>1, <3>2, ExactOther DEF TextKept
        <4>2. QED
          BY <4>1, ExactSame, Zenon
      <3>3. QED
        BY <3>2
    <2>3. QED
      BY <2>1, <2>2
  <1>7. ASSUME NEW s \in Active' PROVE SavedExact(s)'
    <2>1. ASSUME NEW k \in {1, 2}, NEW w, NEW a, NEW S,
                 w = Saved(s)', a = At(s)' + k - 1, S = Older(s)'
          PROVE  Exact(w[k], a, S)'
      <3>1. s \in Slot /\ w = Saved(s) /\ a = At(s) + k - 1
        BY <1>2, <1>3, <2>1
      <3>2. S \subseteq Active /\ Exact(w[k], a, S)
        <4>1. CASE s = b
          <5>1. S = Active
            BY <1>2, <1>3, <2>1, <4>1 DEF Older
          <5>2. QED
            BY <1>1, <1>4, <3>1, <4>1, <5>1
        <4>2. CASE s # b
          <5>1. s \in Active /\ S = Older(s)
            BY <1>2, <1>3, <2>1, <4>2 DEF Older
          <5>2. QED
            BY <3>1, <5>1, Zenon DEF TextKept, SavedExact, Older
        <4>3. QED
          BY <4>1, <4>2
      <3>3. QED
        BY <1>2, <1>3, <3>2, ExactSame
    <2>2. QED
      BY <2>1 DEF SavedExact
  <1>8. QED
    BY <1>6, <1>7 DEF TextKept

=============================================================================
