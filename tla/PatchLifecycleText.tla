------------------------- MODULE PatchLifecycleText -------------------------
(***************************************************************************)
(* The text of the target is what the patches in effect ask for, and the   *)
(* sessions implement the stack of patches that PatchStack promises.       *)
(***************************************************************************)
EXTENDS PatchLifecycleOrder, SequenceTheorems

USE DEF FaultKinds, CodeWord

(* The write of the saved code takes b out of effect, under the others.    *)
Taken(t, b) ==
    /\ vmas' = vmas /\ meta' = meta
    /\ pc[t] = "delete" /\ pc'[t] = "munmap"
    /\ b \in Active /\ Active' = Active \ {b}
    /\ \A s \in Active : s # b => Id(s) < Id(b)
    /\ WriteWords(At(b), Saved(b))

LEMMA RestoreOrigCodeTakes ==
    ASSUME Untorn, TracedInv, NEW t \in Tool, RestoreOrigCode(t)
    PROVE  Same \/ \E b \in Slot : Taken(t, b)
  <1>1. pc[t] = "delete" /\ ListInv(t) /\ vmas' = vmas /\ meta' = meta
    BY SessionTypes, Zenon DEF RestoreOrigCode, SessionInv, Current, Label
  <1>2. SafeInv /\ Step(t) /\ Exclusive /\ "short" \notin Faults
    BY DEF TracedInv, Step, Untorn, Orderly
  <1>3. PICK b \in LastUlps(t) : Restored(t, b) \/ NotRestored(t, b)
    BY SMTT(30) DEF RestoreOrigCode
  <1>4. CASE NotRestored(t, b)
    <2>1. text' = text /\ base' = base /\ pc'[t] = "close"
      BY <1>2, <1>4, SessionTypes, ZenonT(30) DEF NotRestored, WriteFails, Goto
    <2>2. QED
      BY <1>1, <1>2, <2>1, NoNull, SameBut DEF Half
  <1>5. CASE Restored(t, b)
    <2>1. /\ b \in Mapped /\ b \in Slot
          /\ Id(b) = max_ulp_id[t] /\ At(b) = ulps[t][b].addr /\ Saved(b) = ulps[t][b].orig
          /\ At(b) # NULL
      BY <1>1, <1>3, <1>5, ListedMapped, Zenon DEF LastUlps, Listed, ListInv, Id, At, Saved, Restored
    <2>2. b \in Patched /\ Patched' = Patched
      BY <1>1, <1>2, <2>1, Zenon DEF SafeInv, IdAddr, Patched, Mapped, Id
    <2>3. base'[t] = b /\ pc'[t] = "munmap"
      BY <1>5, SessionTypes, ZenonT(30) DEF Restored, Goto
    <2>4. b \in Active /\ Active' = Active \ {b}
      BY <1>1, <1>2, <2>2, <2>3, ActiveAlone DEF Half
    <2>5. \A s \in Active : Id(s) <= Id(b) /\ (s # b => Id(s) # Id(b))
      BY <1>1, <1>2, <2>1, <2>2, ActiveTypes, Zenon DEF ListInv, SafeInv, UniquePatches, Id
    <2>6. \A s \in Active : s # b => Id(s) < Id(b)
      BY <2>4, <2>5, ActiveTypes
    <2>7. WriteWords(At(b), Saved(b))
      BY <1>5, <2>1, Zenon DEF Restored
    <2>8. QED
      BY <1>1, <2>1, <2>3, <2>4, <2>6, <2>7 DEF Taken
  <1>6. QED
    BY <1>3, <1>4, <1>5

LEMMA TakenExact ==
    ASSUME TracedInv, TextKept, NEW t \in Tool, NEW b \in Slot, Taken(t, b)
    PROVE  TextKept'
  <1>1. \A s \in Slot : Id(s)' = Id(s) /\ At(s)' = At(s) /\ Saved(s)' = Saved(s)
    BY DEF Taken, Id, At, Saved
  <1>2. /\ b \in Active /\ Active' = Active \ {b} /\ At(b) \in Nat
        /\ \A s \in Active : s \in Slot /\ Id(s) \in Nat /\ (s # b => Id(s) < Id(b))
    BY ActiveTypes DEF Taken
  <1>3. text' = [text EXCEPT ![At(b)] = Saved(b)[1], ![At(b) + 1] = Saved(b)[2]]
        /\ text \in [Addr -> Word]
    BY SessionTypes DEF Taken, WriteWords
  <1>4. ASSUME NEW a \in Addr PROVE Exact(text[a], a, Active)'
    <2>1. ASSUME NEW w, NEW S, w = text'[a], S = Active' PROVE Exact(w, a, S)'
      <3>1. Exact(w, a, S)
        <4>1. CASE Covers(b, a)
          <5>1. S = Older(b)
            BY <1>2, <2>1 DEF Older
          <5>2. PICK k \in {1, 2} : a = At(b) + k - 1
            BY <1>2, <4>1 DEF Covers, At
          <5>3. w = Saved(b)[k]
            BY <1>2, <1>3, <2>1, <5>2
          <5>4. QED
            BY <1>2, <5>1, <5>2, <5>3 DEF TextKept, SavedExact
        <4>2. CASE ~Covers(b, a)
          <5>1. text'[a] = text[a]
            BY <1>3, <4>2, Zenon DEF Covers, At
          <5>2. QED
            BY <1>2, <2>1, <4>2, <5>1, ExactOther DEF TextKept
        <4>3. QED
          BY <4>1, <4>2
      <3>2. QED
        BY <1>1, <1>2, <2>1, <3>1, ExactSame
    <2>2. QED
      BY <2>1
  <1>5. ASSUME NEW s \in Active' PROVE SavedExact(s)'
    <2>1. ASSUME NEW k \in {1, 2}, NEW w, NEW a, NEW S,
                 w = Saved(s)', a = At(s)' + k - 1, S = Older(s)'
          PROVE  Exact(w[k], a, S)'
      <3>1. s \in Active /\ s # b /\ s \in Slot /\ w = Saved(s) /\ a = At(s) + k - 1
        BY <1>1, <1>2, <2>1
      <3>2. S = Older(s)
        BY <1>1, <1>2, <2>1, <3>1 DEF Older
      <3>3. Exact(w[k], a, S) /\ S \subseteq Active
        BY <3>1, <3>2 DEF TextKept, SavedExact, Older
      <3>4. QED
        BY <1>1, <1>2, <3>3, ExactSame
    <2>2. QED
      BY <2>1 DEF SavedExact
  <1>6. QED
    BY <1>4, <1>5 DEF TextKept

LEMMA BackupSame ==
    ASSUME Same, NEW t \in Tool, file' = file, obj' = obj,
           \A k \in {1, 2} : Exact(meta'[file[t]].orig[k], DstAddr[obj[t]] + k - 1, Active)
    PROVE  BackupExact(t)'
  <1>1. ASSUME NEW k \in {1, 2}, NEW w, NEW a, NEW S,
               w = meta'[file'[t]].orig, a = DstAddr[obj'[t]] + k - 1, S = Active'
        PROVE  Exact(w[k], a, S)'
    <2>1. Exact(w[k], a, S) /\ \A s \in S : Id(s)' = Id(s) /\ At(s)' = At(s)
      BY <1>1, Zenon DEF Same
    <2>2. QED
      BY <2>1, ExactSame, Zenon
  <1>2. QED
    BY <1>1, Zenon DEF BackupExact

(* What a session backs up is what the patches in effect ask for, and stays*)
(* so until the jump.                                                      *)
LEMMA BackupKept ==
    ASSUME Untorn, TextInv, NEW t \in Tool, OpenTask(t) \/ Step(t)
    PROVE  BackupExact(t)'
  <1>1. TracedInv /\ Exclusive
    BY SMTT(30) DEF TextInv, Untorn, Orderly
  <1>2. SUFFICES ASSUME pc'[t] \in {"copy", "kick"} PROVE BackupExact(t)'
    BY DEF BackupExact
  <1>3. BackupOrigCode(t) \/ CopyPatch(t)
    <2>1. pc \in [Tool -> Label]
      BY <1>1, SessionTypes
    <2>2. ~OpenTask(t) /\ ~AllocPatchFile(t) /\ ~CreateMmapVmaFile(t) /\ ~LoadPatch(t)
      BY <1>2, <2>1, Zenon DEF OpenTask, AllocPatchFile, CreateMmapVmaFile, LoadPatch, Goto
    <2>3. /\ ~SolvePatchSymbols(t) /\ ~PublishAddr(t) /\ ~KickTarget(t)
          /\ ~DeleteMmapVmaFile(t) /\ ~RemoveUlpFile(t)
      BY <1>2, <2>1, Zenon DEF SolvePatchSymbols, PublishAddr, KickTarget, DeleteMmapVmaFile, RemoveUlpFile, Goto
    <2>4. ~NothingToDelete(t) /\ ~RestoreOrigCode(t) /\ ~MunmapUlp(t)
      BY <1>2, <2>1, Zenon DEF NothingToDelete, RestoreOrigCode, Restored, NotRestored, MunmapUlp, Goto
    <2>5. ~UnlinkPatchFile(t) /\ ~CloseTask(t)
      BY <1>2, <2>1 DEF UnlinkPatchFile, CloseTask, EndSession, Goto
    <2>6. QED
      BY <2>2, <2>3, <2>4, <2>5, Zenon DEF Step
  <1>4. Same /\ file' = file /\ obj' = obj
    BY <1>1, <1>3, LoadingSame, Zenon DEF BackupOrigCode, CopyPatch, session
  <1>5. file[t] \in File /\ obj[t] \in Obj /\ NewArea(t)
    BY <1>1, <1>3, SessionTypes, Zenon DEF BackupOrigCode, CopyPatch, Has, Loading, SessionInv, Fresh
  <1>6. PICK d \in Addr : d = DstAddr[obj[t]] /\ d \in Nat /\ d + 1 \in Addr
    BY <1>5, ConstantsAssumption, Zenon
  <1>7. \A k \in {1, 2} : Exact(meta'[file[t]].orig[k], d + k - 1, Active)
    <2>1. CASE BackupOrigCode(t)
      <3>1. meta'[file[t]].orig = <<text[d], text[d + 1]>>
        BY <1>1, <1>2, <1>5, <1>6, <2>1, SessionTypes DEF BackupOrigCode, ReadWords, Goto, Meta
      <3>2. Exact(text[d], d, Active) /\ Exact(text[d + 1], d + 1, Active)
        BY <1>6 DEF TextInv
      <3>3. d + 1 - 1 = d /\ d + 2 - 1 = d + 1
        BY <1>6
      <3>4. QED
        BY <3>1, <3>2, <3>3
    <2>2. CASE CopyPatch(t)
      <3>1. meta' = meta
        BY <1>1, <1>5, <2>2, SessionTypes, ConstantsAssumption DEF CopyPatch, NewArea, Mapped
      <3>2. pc[t] = "copy"
        BY <2>2 DEF CopyPatch
      <3>3. QED
        BY <1>6, <3>1, <3>2, Zenon DEF TextInv, BackupExact
    <2>3. QED
      BY <1>3, <2>1, <2>2, ZenonT(30)
  <1>8. QED
    BY <1>4, <1>6, <1>7, BackupSame, Zenon

(* A step puts a patch in effect, takes one out, or neither.               *)
LEMMA StepKinds ==
    ASSUME Untorn, TracedInv, NEW t \in Tool, OpenTask(t) \/ Step(t)
    PROVE  Same \/ \E b \in Slot : Put(t, b) \/ Taken(t, b)
  <1>1. Orderly /\ Exclusive
    BY DEF Untorn, Orderly
  <1>2. CASE KickTarget(t)
    BY <1>2, KickTargetPuts
  <1>3. CASE RestoreOrigCode(t)
    BY <1>3, RestoreOrigCodeTakes
  <1>4. CASE ~KickTarget(t) /\ ~RestoreOrigCode(t)
    BY <1>1, <1>4, SessionSame, LoadingSame, MappingSame DEF Step
  <1>5. QED
    BY <1>2, <1>3, <1>4

LEMMA TextStep == Untorn /\ TextInv /\ [Next]_vars => TextInv'
  <1> SUFFICES ASSUME Untorn, TextInv, [Next]_vars PROVE TextInv'
    OBVIOUS
  <1>1. TracedInv /\ TracedInv' /\ TextKept /\ Orderly /\ Exclusive
    BY TracedStep, SMTT(30) DEF TextInv, TextKept, Untorn, Orderly
  <1>2. CASE UNCHANGED vars
    <2>1. /\ text' = text /\ vmas' = vmas /\ meta' = meta /\ pc' = pc
          /\ obj' = obj /\ file' = file /\ base' = base
      BY <1>2 DEF vars, target, session
    <2>2. Same
      BY <2>1 DEF Same, Active, Patched, Mapped, Id, At, Saved, ObjOf
    <2>3. TextKept'
      BY <1>1, <2>2, SameKept
    <2>4. ASSUME NEW t \in Tool PROVE BackupExact(t)'
      <3>1. CASE pc[t] \in {"copy", "kick"}
        BY <2>1, <2>2, <3>1, BackupSame, Zenon DEF TextInv, BackupExact
      <3>2. CASE pc[t] \notin {"copy", "kick"}
        BY <2>1, <3>2, SMTT(30) DEF BackupExact
      <3>3. QED
        BY <3>1, <3>2
    <2>5. QED
      BY <1>1, <2>3, <2>4 DEF TextInv, TextKept
  <1>3. ASSUME NEW t \in Tool, OpenTask(t) \/ Step(t)
        PROVE  TextInv'
    <2>1. TextKept'
      <3>1. CASE Same
        BY <1>1, <3>1, SameKept, Zenon
      <3>2. ASSUME NEW b \in Slot, Put(t, b) PROVE TextKept'
        BY <1>1, <3>2, PutExact DEF TextInv
      <3>3. ASSUME NEW b \in Slot, Taken(t, b) PROVE TextKept'
        BY <1>1, <3>3, TakenExact
      <3>4. QED
        BY <1>1, <1>3, <3>1, <3>2, <3>3, StepKinds
    <2>2. ASSUME NEW u \in Tool PROVE BackupExact(u)'
      <3>1. CASE u = t
        BY <1>3, <3>1, BackupKept
      <3>2. CASE u # t
        <4>1. pc'[u] = "idle"
          BY <1>1, <1>3, <3>2, Alone DEF TracedInv
        <4>2. QED
          BY <4>1 DEF BackupExact
      <3>3. QED
        BY <3>1, <3>2
    <2>3. QED
      BY <1>1, <2>1, <2>2 DEF TextInv, TextKept
  <1>4. ASSUME NEW t \in Tool PROVE ~Crash(t)
    BY <1>1 DEF Crash, Orderly
  <1>5. QED
    BY <1>2, <1>3, <1>4 DEF Next

LEMMA InitText == Init => TextInv
  <1> SUFFICES ASSUME Init PROVE TextInv
    OBVIOUS
  <1>1. Active = {} /\ \A t \in Tool : pc[t] = "idle"
    BY DEF Init, Active, Patched, Mapped, NoAreas
  <1>2. \A a \in Addr : Exact(text[a], a, Active)
    BY <1>1 DEF Init, Exact
  <1>3. QED
    BY <1>1, <1>2, InitTraced DEF TextInv, BackupExact

(* When sessions do not overlap, no tool is killed, munmap(2) works in the *)
(* target and no write is cut short, each word of the target's text is     *)
(* what the last patch that covers it wrote there, and the original word   *)
(* where there is none: kick_target_process() and delete_patch() lose and  *)
(* leave no code, whatever functions overlap and whatever else fails.      *)
THEOREM TextIsExact == Untorn => (Spec => []TextExact)
  <1> SUFFICES ASSUME Untorn PROVE Spec => []TextExact
    OBVIOUS
  <1>1. TextInv /\ [Next]_vars => TextInv'
    BY TextStep
  <1>2. TextInv => TextExact
    BY DEF TextInv, TextExact, Exact, Id, At
  <1>3. QED
    BY <1>1, <1>2, InitText, PTL DEF Spec

-----------------------------------------------------------------------------
Ids == {Id(s) : s \in Active}

(* Patches in effect are numbered from 1 and patch the function of their   *)
(* object; the session that patches gives the next number.                 *)
Numbered(t) ==
    /\ pc[t] \in {"alloc", "mmap", "load", "solve"} => Ids = 1 .. max_ulp_id[t]
    /\ pc[t] \in {"publish", "backup", "copy", "kick"} => Ids = 1 .. max_ulp_id[t] - 1

StackInv ==
    /\ TextInv
    /\ \E n \in Nat : Ids = 1 .. n
    /\ \A s \in Active : ObjOf(s) \in Obj /\ At(s) = DstAddr[ObjOf(s)]
    /\ \A t \in Tool : Numbered(t)

-----------------------------------------------------------------------------
LEMMA SameNumbered ==
    ASSUME Untorn, TextInv, StackInv, NEW t \in Tool, OpenTask(t) \/ Step(t), Same
    PROVE  Ids' = Ids /\ Numbered(t)'
  <1>1. TracedInv /\ Ids' = Ids
    BY DEF TextInv, Same, Ids
  <1>2. max_ulp_id \in [Tool -> Nat] /\ pc \in [Tool -> Label]
    BY <1>1 DEF TracedInv, SafeInv, TypeInv, TypeOK
  <1>3. Numbered(t)
    BY DEF StackInv
  <1>4. CASE OpenTask(t)
    <2>1. pc[t] = "idle" /\ Quiet /\ pc'[t] \in {"alloc", "delete", "close"}
      BY <1>2, <1>4, Zenon DEF OpenTask, Quiet, Goto, Untorn, Orderly
    <2>2. Active = Patched
      BY <2>1 DEF Active, Quiet
    <2>3. PICK m \in {0} \cup {ReadUlps[s].id : s \in Slot} :
            /\ \A s \in Slot : ReadUlps[s].id <= m
            /\ max_ulp_id' = [max_ulp_id EXCEPT ![t] = m]
      BY <1>4, Zenon DEF OpenTask
    <2>4. PICK n \in Nat : Ids = 1 .. n
      BY DEF StackInv
    <2>5. \A s \in Slot : ReadUlps[s].id = IF s \in Mapped THEN Id(s) ELSE 0
      BY Zenon DEF ReadUlps, Mapped, Id, Blank
    <2>6. m \in 0 .. n
      <3>1. \A s \in Mapped : Id(s) = 0 \/ Id(s) \in Ids
        BY <2>2, Zenon DEF Ids, Patched, Id
      <3>2. QED
        BY <2>3, <2>4, <2>5, <3>1
    <2>7. n = 0 \/ n <= m
      <3>1. ASSUME n # 0 PROVE n <= m
        <4>1. n \in Ids
          BY <2>4, <3>1
        <4>2. PICK s \in Active : Id(s) = n
          BY <4>1 DEF Ids
        <4>3. s \in Slot /\ s \in Mapped
          BY <1>1, ActiveTypes
        <4>4. QED
          BY <2>3, <2>5, <4>2, <4>3
      <3>2. QED
        BY <3>1
    <2>8. m = n
      BY <2>4, <2>6, <2>7
    <2>9. max_ulp_id'[t] = n
      BY <1>2, <2>3, <2>8
    <2>10. QED
      BY <1>1, <2>1, <2>4, <2>9 DEF Numbered
  <1>5. CASE SolvePatchSymbols(t)
    BY <1>1, <1>2, <1>3, <1>5 DEF SolvePatchSymbols, Goto, Numbered
  <1>6. CASE ~OpenTask(t) /\ ~SolvePatchSymbols(t)
    <2>1. \/ pc'[t] \notin {"alloc", "mmap", "load", "solve", "publish", "backup", "copy", "kick"}
          \/ max_ulp_id' = max_ulp_id /\ pc[t] = "alloc" /\ pc'[t] = "mmap"
          \/ max_ulp_id' = max_ulp_id /\ pc[t] = "mmap" /\ pc'[t] = "load"
          \/ max_ulp_id' = max_ulp_id /\ pc[t] = "load" /\ pc'[t] = "solve"
          \/ max_ulp_id' = max_ulp_id /\ pc[t] = "publish" /\ pc'[t] = "backup"
          \/ max_ulp_id' = max_ulp_id /\ pc[t] = "backup" /\ pc'[t] = "copy"
          \/ max_ulp_id' = max_ulp_id /\ pc[t] = "copy" /\ pc'[t] = "kick"
      <3> USE <1>2 DEF Goto, session
      <3>1. CASE AllocPatchFile(t) \/ CreateMmapVmaFile(t) \/ LoadPatch(t)
        BY <3>1, Zenon DEF AllocPatchFile, CreateMmapVmaFile, LoadPatch
      <3>2. CASE PublishAddr(t) \/ BackupOrigCode(t) \/ CopyPatch(t) \/ KickTarget(t)
        BY <3>2, Zenon DEF PublishAddr, BackupOrigCode, CopyPatch, KickTarget
      <3>3. CASE DeleteMmapVmaFile(t) \/ RemoveUlpFile(t) \/ NothingToDelete(t)
                 \/ MunmapUlp(t) \/ UnlinkPatchFile(t) \/ CloseTask(t)
        BY <3>3, Zenon DEF DeleteMmapVmaFile, RemoveUlpFile, NothingToDelete, MunmapUlp,
           UnlinkPatchFile, CloseTask, EndSession
      <3>4. CASE RestoreOrigCode(t)
        BY <3>4, Zenon DEF RestoreOrigCode, Restored, NotRestored
      <3>5. QED
        BY <1>6, <3>1, <3>2, <3>3, <3>4, Zenon DEF Step
    <2>2. QED
      BY <1>1, <1>3, <2>1 DEF Numbered
  <1>7. QED
    BY <1>1, <1>4, <1>5, <1>6

LEMMA StackStep == Untorn /\ StackInv /\ [Next]_vars => StackInv'
  <1> SUFFICES ASSUME Untorn, StackInv, [Next]_vars PROVE StackInv'
    OBVIOUS
  <1>1. TextInv /\ TextInv' /\ TracedInv /\ Orderly /\ Exclusive
    BY TextStep, Zenon DEF StackInv, TextInv, Untorn, Orderly
  <1>2. CASE UNCHANGED vars
    <2>1. /\ vmas' = vmas /\ meta' = meta /\ pc' = pc /\ base' = base
          /\ max_ulp_id' = max_ulp_id
      BY <1>2 DEF vars, target, session
    <2>2. Active' = Active /\ \A s : Id(s)' = Id(s) /\ At(s)' = At(s) /\ ObjOf(s)' = ObjOf(s)
      BY <2>1 DEF Active, Patched, Mapped, Id, At, ObjOf
    <2>3. Ids' = Ids
      BY <2>2 DEF Ids
    <2>4. \A t \in Tool : Numbered(t)' = Numbered(t)
      BY <2>1, <2>3 DEF Numbered
    <2>5. QED
      BY <1>1, <2>2, <2>3, <2>4 DEF StackInv
  <1>3. ASSUME NEW t \in Tool, OpenTask(t) \/ Step(t)
        PROVE  StackInv'
    <2>1. \A u \in Tool : u # t => Numbered(u)'
      <3>1. \A u \in Tool : u # t => pc'[u] = "idle"
        BY <1>1, <1>3, Alone DEF TracedInv
      <3>2. QED
        BY <3>1 DEF Numbered
    <2>2. SUFFICES /\ \E n \in Nat : Ids' = 1 .. n
                   /\ \A s \in Active' : ObjOf(s)' \in Obj /\ At(s)' = DstAddr[ObjOf(s)']
                   /\ Numbered(t)'
      BY <1>1, <2>1 DEF StackInv
    <2>3. CASE Same
      <3>1. Ids' = Ids /\ Numbered(t)'
        BY <1>1, <1>3, <2>3, SameNumbered
      <3>2. QED
        BY <2>3, <3>1 DEF StackInv, Same
    <2>4. ASSUME NEW b \in Slot, Put(t, b)
          PROVE  /\ \E n \in Nat : Ids' = 1 .. n
                 /\ \A s \in Active' : ObjOf(s)' \in Obj /\ At(s)' = DstAddr[ObjOf(s)']
                 /\ Numbered(t)'
      <3>1. \A s \in Slot : Id(s)' = Id(s) /\ At(s)' = At(s) /\ ObjOf(s)' = ObjOf(s)
        BY <2>4, Zenon DEF Put, Id, At, ObjOf
      <3>2. \A s \in Active' : s \in Slot
        BY <1>1, <2>4, ActiveTypes DEF Put
      <3>3. Ids' = Ids \cup {Id(b)}
        BY <2>4, <3>1, <3>2 DEF Ids, Put
      <3>4. Id(b) \in Nat \ {0} /\ Ids = 1 .. Id(b) - 1
        BY <2>4, Zenon DEF Put, StackInv, Numbered
      <3>5. Ids' = 1 .. Id(b)
        BY <3>3, <3>4
      <3>6. Numbered(t)'
        BY <2>4 DEF Put, Numbered
      <3>7. \A s \in Active' : ObjOf(s)' \in Obj /\ At(s)' = DstAddr[ObjOf(s)']
        BY <2>4, <3>1, <3>2 DEF Put, StackInv
      <3>8. QED
        BY <3>4, <3>5, <3>6, <3>7
    <2>5. ASSUME NEW b \in Slot, Taken(t, b)
          PROVE  /\ \E n \in Nat : Ids' = 1 .. n
                 /\ \A s \in Active' : ObjOf(s)' \in Obj /\ At(s)' = DstAddr[ObjOf(s)']
                 /\ Numbered(t)'
      <3>1. \A s \in Slot : Id(s)' = Id(s) /\ At(s)' = At(s) /\ ObjOf(s)' = ObjOf(s)
        BY <2>5 DEF Taken, Id, At, ObjOf
      <3>2. \A s \in Active : s \in Slot /\ Id(s) \in Nat \ {0} /\ (s # b => Id(s) < Id(b))
        BY <1>1, <2>5, ActiveTypes DEF Taken
      <3>3. Ids' = Ids \ {Id(b)}
        BY <2>5, <3>1, <3>2 DEF Ids, Taken
      <3>4. Ids = 1 .. Id(b)
        <4>1. PICK n \in Nat : Ids = 1 .. n
          BY DEF StackInv
        <4>2. Id(b) \in 1 .. n /\ \A i \in 1 .. n : i <= Id(b)
          BY <2>5, <3>2, <4>1 DEF Ids, Taken
        <4>3. QED
          BY <4>1, <4>2
      <3>5. Id(b) - 1 \in Nat /\ Ids' = 1 .. Id(b) - 1
        BY <2>5, <3>2, <3>3, <3>4 DEF Taken
      <3>6. Numbered(t)'
        BY <2>5 DEF Taken, Numbered
      <3>7. \A s \in Active' : ObjOf(s)' \in Obj /\ At(s)' = DstAddr[ObjOf(s)']
        BY <2>5, <3>1, <3>2 DEF Taken, StackInv
      <3>8. QED
        BY <3>5, <3>6, <3>7
    <2>6. QED
      BY <1>1, <1>3, <2>3, <2>4, <2>5, StepKinds
  <1>4. ASSUME NEW t \in Tool PROVE ~Crash(t)
    BY <1>1 DEF Crash, Orderly
  <1>5. QED
    BY <1>2, <1>3, <1>4 DEF Next

-----------------------------------------------------------------------------
(* The stack read off the ids.                                             *)
StackFacts ==
    /\ DOMAIN Stack = Ids
    /\ \A s \in Active : Stack[Id(s)] = ObjOf(s)
    /\ Stack = [i \in Ids |-> Stack[i]]

Rendered == Code = Promise!Render(Stack)

LEMMA StackIs == TracedInv => StackFacts
  <1> SUFFICES ASSUME TracedInv PROVE StackFacts
    OBVIOUS
  <1>1. \A r, s \in Active : Id(r) = Id(s) => r = s
    BY ActiveTypes, Zenon DEF TracedInv, SafeInv, UniquePatches, Id
  <1>2. \A s \in Active : ActiveId(Id(s)) \in Active /\ Id(ActiveId(Id(s))) = Id(s)
    BY Zenon DEF ActiveId, Id
  <1>3. \A s \in Active : ActiveId(Id(s)) = s
    BY <1>1, <1>2
  <1>4. Ids = {meta[vmas[s]].id : s \in Active}
    BY DEF Ids, Id
  <1>5. \A s \in Active : Id(s) \in Ids
    BY DEF Ids
  <1>6. Stack = [i \in Ids |-> meta[vmas[ActiveId(i)]].obj]
    BY <1>4 DEF Stack
  <1>7. QED
    BY <1>3, <1>5, <1>6 DEF ObjOf, StackFacts

(* The code that the stack makes is the text of the target.                *)
LEMMA CodeRendered == StackInv => Rendered
  <1> SUFFICES ASSUME StackInv PROVE Code = Promise!Render(Stack)
    BY DEF Rendered
  <1>1. TracedInv /\ StackFacts /\ \A a \in Addr : Exact(text[a], a, Active)
    BY StackIs DEF StackInv, TextInv
  <1>2. ASSUME NEW a \in Addr
        PROVE  Code[a] = Promise!Render(Stack)[a]
    <2> DEFINE over == {i \in DOMAIN Stack : a \in Promise!Entry(Stack[i])}
    <2>1. over = {Id(s) : s \in {r \in Active : Covers(r, a)}}
      <3>1. \A s \in Active : a \in Promise!Entry(Stack[Id(s)]) <=> Covers(s, a)
        BY <1>1, Zenon DEF StackFacts, StackInv, Promise!Entry, Covers, At
      <3>2. QED
        BY <1>1, <3>1, Zenon DEF StackFacts, Ids
    <2>2. Promise!Render(Stack)[a] =
            IF over = {} THEN "text"
            ELSE Promise!Word(Stack[CHOOSE i \in over : \A j \in over : j <= i], a)
      BY DEF Promise!Render
    <2>3. Code[a] = IF text[a] \in Mapped THEN ObjOf(text[a]) ELSE text[a]
      BY DEF Code, ObjOf
    <2>4. CASE (\A s \in Active : ~Covers(s, a)) /\ text[a] = "text"
      <3>1. over = {}
        BY <2>1, <2>4
      <3>2. text[a] \notin Mapped
        BY <2>4, ConstantsAssumption DEF Mapped
      <3>3. QED
        BY <2>2, <2>3, <2>4, <3>1, <3>2
    <2>5. ASSUME NEW s \in Active, Covers(s, a),
                 \A r \in Active : Covers(r, a) => Id(r) <= Id(s),
                 text[a] = IF a = At(s) THEN "jmp" ELSE s
          PROVE  Code[a] = Promise!Render(Stack)[a]
      <3>1. Id(s) \in over /\ \A j \in over : j <= Id(s)
        BY <2>1, <2>5
      <3>2. \A i \in over : i \in Nat
        BY <1>1, <2>1, ActiveTypes
      <3>3. \A i \in over : (\A j \in over : j <= i) => i = Id(s)
        BY <3>1, <3>2
      <3>4. (CHOOSE i \in over : \A j \in over : j <= i) = Id(s)
        BY <3>1, <3>3
      <3>5. Promise!Render(Stack)[a] = Promise!Word(ObjOf(s), a)
        BY <1>1, <2>2, <3>1, <3>4, Zenon DEF StackFacts
      <3>6. Promise!Word(ObjOf(s), a) = IF a = At(s) THEN "jmp" ELSE ObjOf(s)
        BY DEF Promise!Word, StackInv
      <3>7. s \in Mapped /\ "jmp" \notin Mapped
        BY <1>1, ActiveTypes, ConstantsAssumption DEF Mapped
      <3>8. QED
        BY <2>3, <2>5, <3>5, <3>6, <3>7
    <2>6. QED
      BY <1>1, <2>4, <2>5 DEF Exact
  <1>3. Code = [a \in Addr |-> Code[a]]
    BY DEF Code
  <1>4. Promise!Render(Stack) = [a \in Addr |-> Promise!Render(Stack)[a]]
    BY DEF Promise!Render
  <1>5. QED
    BY <1>2, <1>3, <1>4

LEMMA AppendIs ==
    ASSUME NEW S, NEW n \in Nat, NEW q \in [1 .. n -> S], NEW e \in S, NEW u,
           u = [i \in 1 .. n + 1 |-> u[i]], \A i \in 1 .. n : u[i] = q[i], u[n + 1] = e
    PROVE  u = Append(q, e)
  <1>1. q \in Seq(S) /\ Len(q) = n
    OBVIOUS
  <1>2. /\ Append(q, e) \in Seq(S) /\ Len(Append(q, e)) = n + 1
        /\ \A i \in 1 .. n : Append(q, e)[i] = q[i]
        /\ Append(q, e)[n + 1] = e
    BY <1>1, AppendProperties
  <1>3. \A i \in 1 .. n + 1 : Append(q, e)[i] = u[i]
    <2>1. \A i \in 1 .. n + 1 : i \in 1 .. n \/ i = n + 1
      OBVIOUS
    <2>2. QED
      BY <1>2, <2>1, Zenon
  <1>4. Append(q, e) = [i \in 1 .. n + 1 |-> Append(q, e)[i]]
    BY <1>2, LenProperties, Zenon
  <1>5. QED
    BY <1>3, <1>4

LEMMA FrontIs ==
    ASSUME NEW S, NEW n \in Nat \ {0}, NEW q \in [1 .. n -> S], NEW u,
           u = [i \in 1 .. n - 1 |-> u[i]], \A i \in 1 .. n - 1 : u[i] = q[i]
    PROVE  q # <<>> /\ u = SubSeq(q, 1, Len(q) - 1)
  <1>1. q \in Seq(S) /\ Len(q) = n
    OBVIOUS
  <1>2. /\ SubSeq(q, 1, n - 1) \in Seq(S) /\ Len(SubSeq(q, 1, n - 1)) = n - 1
        /\ \A i \in 1 .. n - 1 : SubSeq(q, 1, n - 1)[i] = q[i]
    <2>1. /\ SubSeq(q, 1, n - 1) \in Seq(S)
          /\ Len(SubSeq(q, 1, n - 1)) = IF 1 <= n - 1 THEN n - 1 - 1 + 1 ELSE 0
          /\ \A i \in 1 .. n - 1 - 1 + 1 : SubSeq(q, 1, n - 1)[i] = q[1 + i - 1]
      BY SubSeqProperties
    <2>2. QED
      BY <2>1
  <1>3. SubSeq(q, 1, n - 1) = [i \in 1 .. n - 1 |-> SubSeq(q, 1, n - 1)[i]]
    BY <1>2, LenProperties
  <1>4. q # <<>>
    BY <1>1
  <1>5. QED
    BY <1>1, <1>2, <1>3, <1>4

(* Every step of a session is a step of the stack or leaves it alone.      *)
LEMMA StackSimulates == Untorn /\ StackInv /\ [Next]_vars => [Promise!Next]_<<Stack, Code>>
  <1> SUFFICES ASSUME Untorn, StackInv, [Next]_vars
               PROVE  [Promise!Next]_<<Stack, Code>>
    OBVIOUS
  <1>1. /\ TracedInv /\ TracedInv' /\ StackInv' /\ Exclusive
        /\ StackFacts /\ Code = Promise!Render(Stack)
    BY StackStep, StackIs, CodeRendered, Zenon DEF StackInv, TextInv, Rendered, Untorn, Orderly
  <1>2. StackFacts'
    BY <1>1, StackIs, PTL
  <1>3. Code' = Promise!Render(Stack')
    <2>1. Rendered'
      BY <1>1, CodeRendered, PTL
    <2>2. QED
      BY <2>1, Zenon DEF Rendered, Promise!Render, Promise!Entry, Promise!Word
  <1>4. PICK n \in Nat : Ids = 1 .. n
    BY DEF StackInv
  <1>5. Stack \in [1 .. n -> Obj]
    <2>1. \A i \in 1 .. n : \E s \in Active : Id(s) = i
      BY <1>4 DEF Ids
    <2>2. QED
      BY <1>1, <1>4, <2>1 DEF StackFacts, StackInv
  <1>6. CASE Same
    <2>1. Ids' = Ids
      BY <1>6 DEF Same, Ids
    <2>2. \A i \in Ids : Stack'[i] = Stack[i]
      <3>1. \A i \in Ids : \E s \in Active : Id(s) = i
        BY DEF Ids
      <3>2. QED
        BY <1>1, <1>2, <1>6, <3>1 DEF StackFacts, Same
    <2>3. Stack' = Stack
      BY <1>1, <1>2, <2>1, <2>2 DEF StackFacts
    <2>4. QED
      BY <1>1, <1>3, <2>3
  <1>7. ASSUME NEW t \in Tool, NEW b \in Slot, Put(t, b)
        PROVE  Promise!Apply(obj[t])
    <2>1. \A s \in Slot : Id(s)' = Id(s) /\ ObjOf(s)' = ObjOf(s)
      BY <1>7, Zenon DEF Put, Id, ObjOf
    <2>2. /\ Active' = Active \cup {b} /\ obj[t] \in Obj /\ ObjOf(b) = obj[t]
          /\ \A s \in Active : s \in Slot /\ s # b
      BY <1>1, <1>7, ActiveTypes DEF Put
    <2>3. Id(b) \in Nat \ {0} /\ Ids = 1 .. Id(b) - 1
      BY <1>7, Zenon DEF Put, StackInv, Numbered
    <2>4. n = Id(b) - 1
      BY <1>4, <2>3
    <2>5. Ids' = 1 .. n + 1
      <3>1. Ids' = Ids \cup {Id(b)}
        BY <2>1, <2>2 DEF Ids
      <3>2. QED
        BY <2>3, <2>4, <3>1
    <2>6. \A i \in 1 .. n : Stack'[i] = Stack[i]
      <3>1. \A i \in 1 .. n : \E s \in Active : Id(s) = i
        BY <1>4 DEF Ids
      <3>2. QED
        BY <1>1, <1>2, <2>1, <2>2, <3>1 DEF StackFacts
    <2>7. Stack'[n + 1] = obj[t]
      BY <1>2, <2>1, <2>2, <2>3, <2>4 DEF StackFacts
    <2>8. Stack' = [i \in 1 .. n + 1 |-> Stack'[i]]
      BY <1>2, <2>5 DEF StackFacts
    <2>9. Stack' = Append(Stack, obj[t])
      BY <1>5, <2>2, <2>6, <2>7, <2>8, AppendIs
    <2>10. \A i \in DOMAIN Stack : Stack[i] # obj[t]
      <3>1. \A s \in Active : ObjOf(s) # ObjOf(b)
        BY <1>1, <1>7, <2>2, ActiveTypes, Zenon DEF Put, TracedInv, SafeInv, UniquePatches, ObjOf
      <3>2. \A i \in DOMAIN Stack : \E s \in Active : Id(s) = i
        BY <1>1 DEF StackFacts, Ids
      <3>3. QED
        BY <1>1, <2>2, <3>1, <3>2 DEF StackFacts
    <2>11. QED
      BY <1>3, <2>9, <2>10 DEF Promise!Apply
  <1>8. ASSUME NEW t \in Tool, NEW b \in Slot, Taken(t, b)
        PROVE  Promise!Revert
    <2>1. \A s \in Slot : Id(s)' = Id(s) /\ ObjOf(s)' = ObjOf(s)
      BY <1>8 DEF Taken, Id, ObjOf
    <2>2. /\ b \in Active /\ Active' = Active \ {b}
          /\ \A s \in Active : s \in Slot /\ Id(s) \in Nat \ {0} /\ (s # b => Id(s) < Id(b))
      BY <1>1, <1>8, ActiveTypes DEF Taken
    <2>3. Id(b) \in 1 .. n /\ \A i \in 1 .. n : i <= Id(b)
      BY <1>4, <2>2 DEF Ids
    <2>4. n = Id(b) /\ n # 0
      BY <2>3
    <2>5. Ids' = 1 .. n - 1
      <3>1. Ids' = Ids \ {Id(b)}
        BY <2>1, <2>2 DEF Ids
      <3>2. QED
        BY <1>4, <2>4, <3>1
    <2>6. \A i \in 1 .. n - 1 : Stack'[i] = Stack[i]
      <3>1. \A i \in 1 .. n - 1 : \E s \in Active' : Id(s) = i
        BY <1>4, <2>2, <2>4 DEF Ids
      <3>2. QED
        BY <1>1, <1>2, <2>1, <2>2, <3>1 DEF StackFacts
    <2>7. Stack' = [i \in 1 .. n - 1 |-> Stack'[i]]
      BY <1>2, <2>5 DEF StackFacts
    <2>8. Stack # <<>> /\ Stack' = SubSeq(Stack, 1, Len(Stack) - 1)
      BY <1>5, <2>4, <2>6, <2>7, FrontIs
    <2>9. QED
      BY <1>3, <2>8 DEF Promise!Revert
  <1>9. CASE UNCHANGED vars
    <2>1. vmas' = vmas /\ meta' = meta /\ pc' = pc /\ base' = base /\ text' = text
      BY <1>9 DEF vars, target, session
    <2>2. Same
      BY <2>1 DEF Same, Active, Patched, Mapped, Id, At, Saved, ObjOf
    <2>3. QED
      BY <1>6, <2>2
  <1>10. ASSUME NEW t \in Tool, OpenTask(t) \/ Step(t)
         PROVE  [Promise!Next]_<<Stack, Code>>
    <2>1. obj[t] \in Obj \/ ~\E b \in Slot : Put(t, b)
      BY Zenon DEF Put
    <2>2. QED
      BY <1>1, <1>6, <1>7, <1>8, <1>10, <2>1, StepKinds DEF Promise!Next
  <1>11. ASSUME NEW t \in Tool PROVE ~Crash(t)
    BY DEF Crash, Untorn, Orderly
  <1>12. QED
    BY <1>9, <1>10, <1>11 DEF Next

(* Under the same conditions sessions implement the stack of patches: the  *)
(* writes of kick_target_process() push a patch that is not in effect yet, *)
(* those of delete_patch() pop the last, the text is always what the stack *)
(* says, and nothing else that a tool does or that fails is visible.       *)
THEOREM SessionsImplementStack == Untorn => (Spec => ImplementsStack)
  <1> SUFFICES ASSUME Untorn PROVE Spec => ImplementsStack
    OBVIOUS
  <1>1. Init => StackInv /\ Promise!Init
    <2> SUFFICES ASSUME Init PROVE StackInv /\ Promise!Init
      OBVIOUS
    <2>1. Active = {} /\ Ids = {} /\ \A t \in Tool : pc[t] = "idle"
      BY DEF Init, Active, Patched, Mapped, NoAreas, Ids
    <2>2. StackInv
      <3>1. Ids = 1 .. 0
        BY <2>1
      <3>2. QED
        BY <2>1, <3>1, InitText DEF StackInv, Numbered
    <2>3. Stack = <<>>
      BY <2>1 DEF Stack
    <2>4. Code = [a \in Addr |-> "text"]
      BY ConstantsAssumption DEF Code, Init, Mapped
    <2>5. QED
      BY <2>2, <2>3, <2>4 DEF Promise!Init
  <1>2. StackInv /\ [Next]_vars => StackInv' /\ [Promise!Next]_<<Stack, Code>>
    BY StackStep, StackSimulates
  <1>3. QED
    BY <1>1, <1>2, PTL DEF Spec, ImplementsStack, Promise!Spec

=============================================================================
