------------------------- MODULE PatchLifecycleAreas ------------------------
(***************************************************************************)
(* Type correctness, and the inductive invariant behind the safety of      *)
(* jumps: what it needs of a step that leaves, unmaps or writes.           *)
(***************************************************************************)
EXTENDS PatchLifecycle, TLAPS

Loading == {"alloc", "mmap", "load", "solve", "publish", "backup", "copy", "kick"}

(* Where a session needs an object, a file or an area, it has one.         *)
Has(t) ==
    /\ pc[t] \in Loading => obj[t] \in Obj
    /\ pc[t] \in Loading \ {"alloc"} => file[t] \in File
    /\ pc[t] = "kick" => base[t] \in Slot

TypeInv ==
    /\ TypeOK
    /\ \A t \in Tool : Has(t)

USE DEF FaultKinds, CodeWord

LEMMA BlankType == \A o \in Obj \cup {NULL} : Blank(o) \in Meta
  BY DEF Blank, Meta, Word

LEMMA WriteType ==
    ASSUME text \in [Addr -> Word], NEW a, NEW w \in Word \X Word,
           WriteWords(a, w)
    PROVE  text' \in [Addr -> Word]
  BY Zenon DEF WriteWords

LEMMA WriteFailsType ==
    ASSUME text \in [Addr -> Word], NEW a, NEW w \in Word \X Word,
           WriteFails(a, w)
    PROVE  text' \in [Addr -> Word]
  BY DEF WriteFails, WriteWords, Word

LEMMA InitType == Init => TypeInv
  <1> SUFFICES ASSUME Init PROVE TypeInv
    OBVIOUS
  <1>2. QED
    BY BlankType DEF Init, TypeInv, TypeOK, NoAreas, NoUlps, Word, Command,
                     Label, Loading, Has

LEMMA TypeOKStep == TypeInv /\ [Next]_vars => TypeOK'
  <1> SUFFICES ASSUME TypeInv, [Next]_vars PROVE TypeOK'
    OBVIOUS
  <1>a. text \in [Addr -> Word] /\ vmas \in [Slot -> File \cup {NULL}]
    BY DEF TypeInv, TypeOK
  <1>b. meta \in [File -> Meta]
    BY DEF TypeInv, TypeOK
  <1>c. pc \in [Tool -> Label]
    BY DEF TypeInv, TypeOK
  <1>d. /\ obj \in [Tool -> Obj \cup {NULL}]
        /\ file \in [Tool -> File \cup {NULL}]
        /\ base \in [Tool -> Slot \cup {NULL}]
    BY DEF TypeInv, TypeOK
  <1>e. /\ areas \in [Tool -> [Slot -> File \cup {NULL}]]
        /\ ulps \in [Tool -> [Slot -> Meta]]
        /\ max_ulp_id \in [Tool -> Nat]
    BY DEF TypeInv, TypeOK
  <1>f. /\ \A t \in Tool : pc[t] \in Loading => obj[t] \in Obj
        /\ \A t \in Tool : pc[t] \in Loading \ {"alloc"} => file[t] \in File
        /\ \A t \in Tool : pc[t] = "kick" => base[t] \in Slot
    BY DEF TypeInv, Has
  <1>g. cmd \in [Tool -> Command] /\ files \in SUBSET File
    BY DEF TypeInv, TypeOK
  <1>1. CASE UNCHANGED vars
    BY <1>1 DEF vars, target, session, TypeInv, TypeOK
  <1>2. ASSUME NEW t \in Tool, OpenTask(t) PROVE TypeOK'
    <2>2. ReadUlps \in [Slot -> Meta]
      BY <1>a, <1>b, BlankType DEF ReadUlps
    <2>3. max_ulp_id' \in [Tool -> Nat]
      <3>1. \A s \in Slot : ReadUlps[s].id \in Nat
        BY <2>2 DEF Meta
      <3>2. QED
        BY <1>e, <1>2, <3>1 DEF OpenTask
    <2>4. cmd' \in [Tool -> Command] /\ obj' \in [Tool -> Obj \cup {NULL}]
      BY <1>2, <1>d, <1>g DEF OpenTask, Command
    <2>5. pc' \in [Tool -> Label]
      BY <1>2, <1>c, <1>d DEF OpenTask, Goto, Label
    <2>6. QED
      BY <2>2, <2>3, <2>4, <2>5, <1>2, Zenon DEF OpenTask, TypeInv, TypeOK
  <1>3. ASSUME NEW t \in Tool, AllocPatchFile(t) PROVE TypeOK'
    <2>2. meta' \in [File -> Meta]
      BY <1>3, <1>b, <1>d, BlankType DEF AllocPatchFile
    <2>3. file' \in [Tool -> File \cup {NULL}] /\ files' \in SUBSET File
      BY <1>3, <1>d, <1>g DEF AllocPatchFile
    <2>4. pc' \in [Tool -> Label]
      BY <1>3, <1>c DEF AllocPatchFile, Goto, Label
    <2>5. QED
      BY <2>2, <2>3, <2>4, <1>3, Zenon DEF AllocPatchFile, TypeInv, TypeOK
  <1>4. ASSUME NEW t \in Tool, CreateMmapVmaFile(t) PROVE TypeOK'
    <2>2. /\ vmas' \in [Slot -> File \cup {NULL}]
          /\ base' \in [Tool -> Slot \cup {NULL}]
      BY <1>4, <1>a, <1>d DEF CreateMmapVmaFile
    <2>3. tracer' \in Tool \cup {NULL}
      BY <1>4 DEF TypeInv, TypeOK, CreateMmapVmaFile, Attach, Detach
    <2>4. pc' \in [Tool -> Label]
      BY <1>4, <1>c, <1>d DEF CreateMmapVmaFile, Goto, Label
    <2>5. QED
      BY <2>2, <2>3, <2>4, <1>4 DEF CreateMmapVmaFile, TypeInv, TypeOK
  <1>5. ASSUME NEW t \in Tool, LoadPatch(t) PROVE TypeOK'
    <2>2. meta' \in [File -> Meta]
      BY <1>5, <1>b DEF LoadPatch, Meta
    <2>3. pc' \in [Tool -> Label]
      BY <1>5, <1>c DEF LoadPatch, Goto, Label
    <2>4. QED
      BY <2>2, <2>3, <1>5, Zenon DEF LoadPatch, session, TypeInv, TypeOK
  <1>6. ASSUME NEW t \in Tool, SolvePatchSymbols(t) PROVE TypeOK'
    <2>1. max_ulp_id[t] + 1 \in Nat
      BY <1>e
    <2>2. meta' \in [File -> Meta]
      BY <1>6, <1>b, <2>1 DEF SolvePatchSymbols, Meta
    <2>5. max_ulp_id' \in [Tool -> Nat]
      BY <1>6, <1>e, <2>1, Zenon DEF SolvePatchSymbols
    <2>3. pc' \in [Tool -> Label]
      BY <1>6, <1>c DEF SolvePatchSymbols, Goto, Label
    <2>4. QED
      BY <2>2, <2>3, <2>5, <1>6, Zenon DEF SolvePatchSymbols, TypeInv, TypeOK
  <1>7. ASSUME NEW t \in Tool, BackupOrigCode(t) PROVE TypeOK'
    <2>2. meta' \in [File -> Meta]
      <3>1. ReadWords(DstAddr[obj[t]]) \in Word \X Word
        BY <1>7, <1>a, <1>f, ConstantsAssumption, Zenon DEF BackupOrigCode, ReadWords, Loading
      <3>2. QED
        BY <1>7, <1>b, <3>1 DEF BackupOrigCode, Meta
    <2>3. pc' \in [Tool -> Label]
      BY <1>7, <1>c DEF BackupOrigCode, Goto, Label
    <2>4. QED
      BY <2>2, <2>3, <1>7, Zenon DEF BackupOrigCode, session, TypeInv, TypeOK
  <1>8. ASSUME NEW t \in Tool, CopyPatch(t) PROVE TypeOK'
    <2>2. meta' \in [File -> Meta]
      BY <1>8, <1>a, <1>b, <1>f DEF CopyPatch, Mapped, Loading
    <2>3. pc' \in [Tool -> Label]
      BY <1>8, <1>c, <1>f DEF CopyPatch, Goto, Label
    <2>4. QED
      BY <2>2, <2>3, <1>8, Zenon DEF CopyPatch, session, TypeInv, TypeOK
  <1>9. ASSUME NEW t \in Tool, KickTarget(t) PROVE TypeOK'
    <2>2. text' \in [Addr -> Word]
      <3>1. <<"jmp", base[t]>> \in Word \X Word
        BY <1>9, <1>f DEF KickTarget, Word
      <3>2. QED
        BY <1>9, <1>a, <3>1, WriteType, WriteFailsType DEF KickTarget
    <2>3. pc' \in [Tool -> Label]
      BY <1>9, <1>c DEF KickTarget, Goto, Label
    <2>4. tracer' \in Tool \cup {NULL}
      BY <1>9 DEF KickTarget, Detach, TypeInv, TypeOK
    <2>5. QED
      BY <2>2, <2>3, <2>4, <1>9, Zenon DEF KickTarget, session, TypeInv, TypeOK
  <1>10. ASSUME NEW t \in Tool, DeleteMmapVmaFile(t) PROVE TypeOK'
    <2>2. QED
      BY <1>10, Zenon DEF DeleteMmapVmaFile, Goto, Label, Attached, Detach,
         TypeInv, TypeOK
  <1>11. ASSUME NEW t \in Tool, RemoveUlpFile(t) PROVE TypeOK'
    <2>2. QED
      BY <1>11, BlankType, Zenon DEF RemoveUlpFile, Goto, Label, Forget, session,
         TypeInv, TypeOK
  <1>12. ASSUME NEW t \in Tool, NothingToDelete(t) PROVE TypeOK'
    <2>2. QED
      BY <1>12, Zenon DEF NothingToDelete, Goto, Label, target, session, TypeInv,
         TypeOK
  <1>13. ASSUME NEW t \in Tool, RestoreOrigCode(t) PROVE TypeOK'
    <2>2. PICK s \in LastUlps(t) : Restored(t, s) \/ NotRestored(t, s)
      BY <1>13 DEF RestoreOrigCode
    <2>3. s \in Slot /\ ulps[t][s].orig \in Word \X Word
      BY <2>2, <1>e DEF LastUlps, Listed, Meta
    <2>4. text' \in [Addr -> Word]
      BY <2>2, <2>3, <1>a, WriteType, WriteFailsType, Zenon DEF Restored, NotRestored
    <2>1. areas[t][s] \in File \cup {NULL}
      BY <2>3, <1>e
    <2>5. /\ file' \in [Tool -> File \cup {NULL}]
          /\ base' \in [Tool -> Slot \cup {NULL}]
      BY <2>1, <2>2, <2>3, <1>d DEF Restored, NotRestored
    <2>6. pc' \in [Tool -> Label]
      BY <2>2, <1>c DEF Restored, NotRestored, Goto, Label
    <2>7. tracer' \in Tool \cup {NULL}
      BY <2>2, Zenon DEF Restored, NotRestored, Attach, Detach, TypeInv, TypeOK
    <2>8. QED
      BY <2>4, <2>5, <2>6, <2>7, <1>13, Zenon DEF RestoreOrigCode, TypeInv, TypeOK
  <1>14. ASSUME NEW t \in Tool, MunmapUlp(t) PROVE TypeOK'
    <2>2. vmas' \in [Slot -> File \cup {NULL}]
      BY <1>14, <1>a DEF MunmapUlp
    <2>3. pc' \in [Tool -> Label]
      BY <1>14, <1>c DEF MunmapUlp, Goto, Label
    <2>4. tracer' \in Tool \cup {NULL}
      BY <1>14 DEF MunmapUlp, Detach, TypeInv, TypeOK
    <2>5. QED
      BY <2>2, <2>3, <2>4, <1>14, Zenon DEF MunmapUlp, session, TypeInv, TypeOK
  <1>15. ASSUME NEW t \in Tool, UnlinkPatchFile(t) PROVE TypeOK'
    <2>2. QED
      BY <1>15, BlankType, Zenon DEF UnlinkPatchFile, Goto, Label, Attached,
         Detach, Forget, session, TypeInv, TypeOK
  <1>16. ASSUME NEW t \in Tool, CloseTask(t) PROVE TypeOK'
    <2>2. QED
      BY <1>16, BlankType, Zenon DEF CloseTask, EndSession, Goto, Label, Command,
         NoAreas, NoUlps, TypeInv, TypeOK
  <1>17. ASSUME NEW t \in Tool, Crash(t) PROVE TypeOK'
    <2>2. QED
      BY <1>17, BlankType, Zenon DEF Crash, EndSession, Goto, Label, Command,
         NoAreas, NoUlps, Forget, TypeInv, TypeOK
  <1>18. ASSUME NEW t \in Tool, PublishAddr(t) PROVE TypeOK'
    <2>1. DstAddr[obj[t]] \in Addr
      BY <1>18, <1>f, ConstantsAssumption, Zenon DEF PublishAddr, Loading
    <2>2. meta' \in [File -> Meta]
      BY <1>18, <1>b, <2>1 DEF PublishAddr, Meta
    <2>3. pc' \in [Tool -> Label]
      BY <1>18, <1>c DEF PublishAddr, Goto, Label
    <2>4. QED
      BY <2>2, <2>3, <1>18, Zenon DEF PublishAddr, session, TypeInv, TypeOK
  <1>19. QED
    BY <1>1, <1>2, <1>3, <1>4, <1>5, <1>6, <1>7, <1>8, <1>9, <1>10, <1>11, <1>12, <1>13, <1>14, <1>15, <1>16, <1>17, <1>18 DEF Next, Step

(* A step of one tool leaves the session of another alone.                 *)
LEMMA Frame ==
    ASSUME TypeOK, NEW t \in Tool, OpenTask(t) \/ Step(t) \/ Crash(t),
           NEW u \in Tool, u # t
    PROVE  /\ pc'[u] = pc[u]
           /\ obj'[u] = obj[u]
           /\ file'[u] = file[u]
           /\ base'[u] = base[u]
  <1>1. /\ pc \in [Tool -> Label]
        /\ obj \in [Tool -> Obj \cup {NULL}]
        /\ file \in [Tool -> File \cup {NULL}]
        /\ base \in [Tool -> Slot \cup {NULL}]
    BY DEF TypeOK
  <1>2. CASE OpenTask(t)
    BY <1>1, <1>2, Zenon DEF OpenTask, Goto, session
  <1>3. CASE AllocPatchFile(t)
    BY <1>1, <1>3 DEF AllocPatchFile, Goto, session
  <1>4. CASE CreateMmapVmaFile(t)
    BY <1>1, <1>4 DEF CreateMmapVmaFile, Goto, session
  <1>5. CASE LoadPatch(t)
    BY <1>1, <1>5 DEF LoadPatch, Goto, session
  <1>6. CASE SolvePatchSymbols(t)
    BY <1>1, <1>6 DEF SolvePatchSymbols, Goto, session
  <1>7. CASE BackupOrigCode(t)
    BY <1>1, <1>7 DEF BackupOrigCode, Goto, session
  <1>8. CASE CopyPatch(t)
    BY <1>1, <1>8 DEF CopyPatch, Goto, session
  <1>9. CASE KickTarget(t)
    BY <1>1, <1>9 DEF KickTarget, Goto, session
  <1>10. CASE DeleteMmapVmaFile(t)
    BY <1>1, <1>10 DEF DeleteMmapVmaFile, Goto, session
  <1>11. CASE RemoveUlpFile(t)
    BY <1>1, <1>11 DEF RemoveUlpFile, Goto, session
  <1>12. CASE NothingToDelete(t)
    BY <1>1, <1>12 DEF NothingToDelete, Goto, session
  <1>13. CASE RestoreOrigCode(t)
    BY <1>1, <1>13 DEF RestoreOrigCode, Restored, NotRestored, Goto, session
  <1>14. CASE MunmapUlp(t)
    BY <1>1, <1>14 DEF MunmapUlp, Goto, session
  <1>15. CASE UnlinkPatchFile(t)
    BY <1>1, <1>15 DEF UnlinkPatchFile, Goto, session
  <1>16. CASE CloseTask(t)
    BY <1>1, <1>16 DEF CloseTask, EndSession, Goto, session
  <1>17. CASE Crash(t)
    BY <1>1, <1>17 DEF Crash, EndSession, Goto, session
  <1>18. CASE PublishAddr(t)
    BY <1>1, <1>18 DEF PublishAddr, Goto, session
  <1>19. QED
    BY <1>2, <1>3, <1>4, <1>5, <1>6, <1>7, <1>8, <1>9, <1>10, <1>11, <1>12, <1>13, <1>14, <1>15, <1>16, <1>17, <1>18, Zenon DEF Step

LEMMA HasStep ==
    ASSUME TypeInv, NEW t \in Tool, OpenTask(t) \/ Step(t) \/ Crash(t)
    PROVE  \A u \in Tool : Has(u)'
  <1>1. /\ pc \in [Tool -> Label]
        /\ obj \in [Tool -> Obj \cup {NULL}]
        /\ file \in [Tool -> File \cup {NULL}]
        /\ base \in [Tool -> Slot \cup {NULL}]
        /\ Has(t)
    BY DEF TypeInv, TypeOK
  <1> USE DEF Has, Loading
  <1>2. CASE OpenTask(t)
    <2>1. Has(t)'
      BY <1>1, <1>2 DEF OpenTask, Goto, session
    <2>2. QED
      BY <2>1, Frame DEF TypeInv
  <1>3. CASE AllocPatchFile(t)
    <2>1. Has(t)'
      BY <1>1, <1>3 DEF AllocPatchFile, Goto, session
    <2>2. QED
      BY <2>1, Frame DEF TypeInv
  <1>4. CASE CreateMmapVmaFile(t)
    <2>1. Has(t)'
      BY <1>1, <1>4 DEF CreateMmapVmaFile, Goto, session
    <2>2. QED
      BY <2>1, Frame DEF TypeInv
  <1>5. CASE LoadPatch(t)
    <2>1. Has(t)'
      BY <1>1, <1>5 DEF LoadPatch, Goto, session
    <2>2. QED
      BY <2>1, Frame DEF TypeInv
  <1>6. CASE SolvePatchSymbols(t)
    <2>1. Has(t)'
      BY <1>1, <1>6 DEF SolvePatchSymbols, Goto, session
    <2>2. QED
      BY <2>1, Frame DEF TypeInv
  <1>7. CASE BackupOrigCode(t)
    <2>1. Has(t)'
      BY <1>1, <1>7 DEF BackupOrigCode, Goto, session
    <2>2. QED
      BY <2>1, Frame DEF TypeInv
  <1>8. CASE CopyPatch(t)
    <2>1. Has(t)'
      BY <1>1, <1>8 DEF CopyPatch, Mapped, Goto, session
    <2>2. QED
      BY <2>1, Frame DEF TypeInv
  <1>9. CASE KickTarget(t)
    <2>1. Has(t)'
      BY <1>1, <1>9 DEF KickTarget, Goto, session
    <2>2. QED
      BY <2>1, Frame DEF TypeInv
  <1>10. CASE DeleteMmapVmaFile(t)
    <2>1. Has(t)'
      BY <1>1, <1>10 DEF DeleteMmapVmaFile, Goto, session
    <2>2. QED
      BY <2>1, Frame DEF TypeInv
  <1>11. CASE RemoveUlpFile(t)
    <2>1. Has(t)'
      BY <1>1, <1>11 DEF RemoveUlpFile, Goto, session
    <2>2. QED
      BY <2>1, Frame DEF TypeInv
  <1>12. CASE NothingToDelete(t)
    <2>1. Has(t)'
      BY <1>1, <1>12 DEF NothingToDelete, Goto, session
    <2>2. QED
      BY <2>1, Frame DEF TypeInv
  <1>13. CASE RestoreOrigCode(t)
    <2>1. Has(t)'
      BY <1>1, <1>13 DEF RestoreOrigCode, Restored, NotRestored, Goto, session
    <2>2. QED
      BY <2>1, Frame DEF TypeInv
  <1>14. CASE MunmapUlp(t)
    <2>1. Has(t)'
      BY <1>1, <1>14 DEF MunmapUlp, Goto, session
    <2>2. QED
      BY <2>1, Frame DEF TypeInv
  <1>15. CASE UnlinkPatchFile(t)
    <2>1. Has(t)'
      BY <1>1, <1>15 DEF UnlinkPatchFile, Goto, session
    <2>2. QED
      BY <2>1, Frame DEF TypeInv
  <1>16. CASE CloseTask(t)
    <2>1. Has(t)'
      BY <1>1, <1>16 DEF CloseTask, EndSession, Goto, session
    <2>2. QED
      BY <2>1, Frame DEF TypeInv
  <1>17. CASE Crash(t)
    <2>1. Has(t)'
      BY <1>1, <1>17, Zenon DEF Crash, EndSession, Goto, session
    <2>2. QED
      BY <2>1, Frame DEF TypeInv
  <1>18. CASE PublishAddr(t)
    <2>1. Has(t)'
      BY <1>1, <1>18 DEF PublishAddr, Goto, session
    <2>2. QED
      BY <2>1, Frame DEF TypeInv
  <1>19. QED
    BY <1>2, <1>3, <1>4, <1>5, <1>6, <1>7, <1>8, <1>9, <1>10, <1>11, <1>12, <1>13, <1>14, <1>15, <1>16, <1>17, <1>18, Zenon DEF Step

LEMMA TypeStep == TypeInv /\ [Next]_vars => TypeInv'
  <1> SUFFICES ASSUME TypeInv, [Next]_vars PROVE TypeInv'
    OBVIOUS
  <1>1. TypeOK'
    BY TypeOKStep
  <1>2. CASE UNCHANGED vars
    BY <1>1, <1>2 DEF vars, session, TypeInv, Has
  <1>3. CASE Next
    BY <1>1, <1>3, HasStep DEF Next, TypeInv
  <1>4. QED
    BY <1>2, <1>3

(* Every reachable state is well typed: in particular the word             *)
(* kick_target_process() writes as the address of the patch function is    *)
(* the address of an area, never an error number of the remote mmap(2).    *)
THEOREM TypeCorrect == Spec => []TypeOK
  <1>1. TypeInv => TypeOK
    BY DEF TypeInv
  <1>2. QED
    BY InitType, TypeStep, <1>1, PTL DEF Spec

-----------------------------------------------------------------------------
(* Labels at which base[t], if any, is the area being patched in: nothing  *)
(* jumps to it yet.                                                        *)
Fresh == {"load", "solve", "publish", "backup", "copy", "kick", "unmap"}

(* Labels at which what the session read when it opened still holds.       *)
Current == Label \ {"idle", "unlink", "close"}

Id(s) == meta[vmas[s]].id
At(s) == meta[vmas[s]].addr
Saved(s) == meta[vmas[s]].orig

OneSession ==
    \A t, u \in Tool : pc[t] # "idle" /\ pc[u] # "idle" => t = u

(* No two areas map the same file.                                         *)
OneArea == \A r, s \in Mapped : vmas[r] = vmas[s] => r = s

(* An area has an id before it has an address, and an address before it    *)
(* has saved code.                                                         *)
IdAddr ==
    \A s \in Mapped : /\ At(s) # NULL => Id(s) # 0
                      /\ At(s) = NULL => Saved(s) = <<"zero", "zero">>

(* The word of text that holds the address of an area is the second word   *)
(* of the function that area patches.                                      *)
JumpInv ==
    \A a \in Addr : \A s \in Slot :
      text[a] = s => s \in Mapped /\ At(s) # NULL /\ a = At(s) + 1

SavedInv ==
    \A s \in Mapped : \A k \in {1, 2} : \A w \in Slot :
      Saved(s)[k] = w =>
        w \in Mapped /\ At(w) # NULL /\ Id(w) < Id(s) /\ At(s) + k = At(w) + 2

(* The session's list is still exact, and max_ulp_id bounds every id.      *)
ListInv(t) ==
    /\ \A s \in Listed(t) : /\ vmas[s] = areas[t][s]
                            /\ ulps[t][s] = meta[areas[t][s]]
    /\ \A s \in Mapped : Id(s) <= max_ulp_id[t]

(* All ulp areas are on the session's list, but the one being added.       *)
AllListed(t) == \A s \in Mapped : s \in Listed(t) \/ s = base[t]

NewFile(t) == \A s \in Listed(t) : areas[t][s] # file[t]

NewArea(t) ==
    /\ file[t] \in File
    /\ \A s \in Mapped : vmas[s] = file[t] => s = base[t]
    /\ base[t] # NULL =>
         /\ vmas[base[t]] = file[t]
         /\ \A a \in Addr : text[a] # base[t]
         /\ \A s \in Mapped : \A k \in {1, 2} : Saved(s)[k] # base[t]

SessionInv(t) ==
    /\ pc[t] \in Current => ListInv(t)
    /\ pc[t] \in {"idle", "alloc", "mmap"} => base[t] = NULL
    /\ pc[t] \in Loading => AllListed(t)
    /\ pc[t] \in {"mmap"} \cup Fresh => NewFile(t)
    /\ pc[t] = "mmap" => file[t] \in File /\ \A s \in Slot : vmas[s] # file[t]
    /\ pc[t] = "mmap" => meta[file[t]] = Blank(obj[t])
    /\ pc[t] \in Fresh => NewArea(t)
    /\ pc[t] \in {"load", "solve"} => meta[file[t]].id = 0
    /\ pc[t] \in {"load", "solve", "publish"} =>
         /\ meta[file[t]].addr = NULL
         /\ meta[file[t]].orig = <<"zero", "zero">>
    /\ pc[t] \in Fresh \ {"unmap"} => meta[file[t]].obj = obj[t]
    /\ pc[t] = "solve" => \A s \in Listed(t) : ulps[t][s].obj # obj[t]
    /\ pc[t] \in {"backup", "copy", "kick"} => meta[file[t]].addr = DstAddr[obj[t]]
    /\ pc[t] \in {"publish", "backup", "copy", "kick"} =>
         /\ meta[file[t]].id = max_ulp_id[t]
         /\ meta[file[t]].id # 0
         /\ \A s \in Mapped : s # base[t] => Id(s) < max_ulp_id[t]
    /\ pc[t] = "munmap" =>
         /\ base[t] \in Listed(t)
         /\ Id(base[t]) = max_ulp_id[t]
         /\ \A a \in Addr : text[a] # base[t]

SafeInv ==
    /\ TypeInv
    /\ OneSession
    /\ OneArea
    /\ IdAddr
    /\ JumpInv
    /\ SavedInv
    /\ UniquePatches
    /\ \A t \in Tool : SessionInv(t)

AreasInv == OneArea /\ IdAddr /\ JumpInv /\ SavedInv /\ UniquePatches

-----------------------------------------------------------------------------
(* Steps that change no text, no mapping and nothing but the headers of a  *)
(* mapped file.                                                            *)
LEMMA AreasKept ==
    ASSUME AreasInv,
           text' = text, vmas' = vmas,
           \A s \in Mapped : /\ meta'[vmas[s]].id = meta[vmas[s]].id
                             /\ meta'[vmas[s]].obj = meta[vmas[s]].obj
                             /\ meta'[vmas[s]].addr = meta[vmas[s]].addr
                             /\ meta'[vmas[s]].orig = meta[vmas[s]].orig
    PROVE  AreasInv'
  <1>1. Mapped' = Mapped
    BY DEF Mapped
  <1>2. \A s \in Mapped : Id(s)' = Id(s) /\ At(s)' = At(s) /\ Saved(s)' = Saved(s)
    BY DEF Id, At, Saved
  <1>3. Patched' = Patched
    BY <1>1 DEF Patched
  <1>4. OneArea' /\ IdAddr'
    BY <1>1, <1>2 DEF AreasInv, OneArea, IdAddr
  <1>5. JumpInv'
    BY <1>1, <1>2 DEF AreasInv, JumpInv
  <1>6. SavedInv'
    BY <1>1, <1>2 DEF AreasInv, SavedInv
  <1>7. UniquePatches'
    BY <1>3 DEF AreasInv, UniquePatches, Patched
  <1>8. QED
    BY <1>4, <1>5, <1>6, <1>7 DEF AreasInv

(* An area that no text and no saved code refers to is unmapped.           *)
LEMMA AreasUnmap ==
    ASSUME AreasInv, vmas \in [Slot -> File \cup {NULL}], NEW b \in Slot,
           text' = text, meta' = meta, vmas' = [vmas EXCEPT ![b] = NULL],
           \A a \in Addr : text[a] # b,
           \A s \in Mapped : \A k \in {1, 2} : Saved(s)[k] # b
    PROVE  AreasInv'
  <1>1. Mapped' = Mapped \ {b}
    BY DEF Mapped
  <1>2. \A s \in Mapped' : /\ Id(s)' = Id(s) /\ At(s)' = At(s)
                           /\ Saved(s)' = Saved(s) /\ vmas'[s] = vmas[s]
    BY <1>1, Zenon DEF Id, At, Saved, Mapped
  <1>3. Patched' = Patched \ {b}
    BY <1>1, <1>2 DEF Patched, Id
  <1>4. OneArea' /\ IdAddr'
    BY <1>1, <1>2 DEF AreasInv, OneArea, IdAddr
  <1>5. JumpInv'
    BY <1>1, <1>2 DEF AreasInv, JumpInv
  <1>6. SavedInv'
    BY <1>1, <1>2 DEF AreasInv, SavedInv
  <1>7. UniquePatches'
    BY <1>1, <1>2, <1>3 DEF AreasInv, UniquePatches, Patched
  <1>8. QED
    BY <1>4, <1>5, <1>6, <1>7 DEF AreasInv

(* Two words are written, or the write fails: each address among them is   *)
(* that of an area that patches this function.                             *)
LEMMA AreasWrite ==
    ASSUME AreasInv, text \in [Addr -> Word], vmas' = vmas, meta' = meta,
           vmas \in [Slot -> File \cup {NULL}], meta \in [File -> Meta],
           NEW x \in Addr, NEW w \in Word \X Word,
           WriteWords(x, w) \/ WriteFails(x, w) \/ UNCHANGED text,
           \A k \in {1, 2} : \A s \in Slot :
             w[k] = s => s \in Mapped /\ At(s) # NULL /\ x + k = At(s) + 2
    PROVE  AreasInv'
  <1>1. Mapped' = Mapped
    BY DEF Mapped
  <1>2. \A s \in Mapped : Id(s)' = Id(s) /\ At(s)' = At(s) /\ Saved(s)' = Saved(s)
    BY DEF Id, At, Saved
  <1>3. Patched' = Patched
    BY <1>1 DEF Patched
  <1>4. OneArea' /\ IdAddr'
    BY <1>1, <1>2 DEF AreasInv, OneArea, IdAddr
  <1>5. SavedInv'
    BY <1>1, <1>2 DEF AreasInv, SavedInv
  <1>6. UniquePatches'
    BY <1>3, Zenon DEF AreasInv, UniquePatches, Patched
  <1>7. JumpInv'
    <2>1. \A a \in Addr : \/ text'[a] = text[a]
                          \/ text'[a] = "torn"
                          \/ a = x /\ text'[a] = w[1]
                          \/ a = x + 1 /\ text'[a] = w[2]
      BY ConstantsAssumption DEF WriteWords, WriteFails
    <2>2. \A s \in Slot : s # "torn"
      BY ConstantsAssumption
    <2>5. \A s \in Mapped : At(s) # NULL => At(s) \in Nat
      <3>1. \A s \in Mapped : At(s) \in Addr \cup {NULL}
        BY DEF Mapped, At, Meta
      <3>2. QED
        BY <3>1, ConstantsAssumption, Zenon
    <2>3. ASSUME NEW a \in Addr, NEW s \in Slot, text'[a] = s
          PROVE  s \in Mapped /\ At(s) # NULL /\ a = At(s) + 1
      <3>1. CASE text'[a] = text[a]
        BY <2>3, <3>1 DEF AreasInv, JumpInv
      <3>2. CASE a = x /\ text'[a] = w[1]
        <4>1. s \in Mapped /\ At(s) # NULL /\ x + 1 = At(s) + 2
          BY <2>3, <3>2
        <4>2. QED
          BY <4>1, <3>2, <2>5, ConstantsAssumption
      <3>3. CASE a = x + 1 /\ text'[a] = w[2]
        <4>1. s \in Mapped /\ At(s) # NULL /\ x + 2 = At(s) + 2
          BY <2>3, <3>3
        <4>2. QED
          BY <4>1, <3>3, <2>5, ConstantsAssumption
      <3>4. QED
        BY <2>1, <2>2, <2>3, <3>1, <3>2, <3>3
    <2>4. QED
      BY <1>1, <1>2, <2>3 DEF JumpInv
  <1>8. QED
    BY <1>4, <1>5, <1>6, <1>7 DEF AreasInv

(* When sessions do not overlap, the tools that do not step are idle.      *)
LEMMA Alone ==
    ASSUME Exclusive, SafeInv, NEW t \in Tool,
           OpenTask(t) \/ Step(t) \/ Crash(t),
           NEW u \in Tool, u # t
    PROVE  pc'[u] = "idle" /\ base'[u] = NULL
  <1>1. pc[u] = "idle"
    <2>1. CASE OpenTask(t)
      BY <2>1, Zenon DEF OpenTask
    <2>2. CASE Step(t) \/ Crash(t)
      <3>1. pc[t] # "idle"
        <4>1. \/ AllocPatchFile(t) \/ CreateMmapVmaFile(t) \/ LoadPatch(t)
              => pc[t] # "idle"
          BY Zenon DEF AllocPatchFile, CreateMmapVmaFile, LoadPatch
        <4>4. \/ SolvePatchSymbols(t) \/ PublishAddr(t) \/ BackupOrigCode(t)
              \/ CopyPatch(t) \/ KickTarget(t)
              => pc[t] # "idle"
          BY Zenon DEF SolvePatchSymbols, PublishAddr, BackupOrigCode, CopyPatch, KickTarget
        <4>2. \/ DeleteMmapVmaFile(t) \/ RemoveUlpFile(t) \/ NothingToDelete(t)
              \/ RestoreOrigCode(t) \/ MunmapUlp(t) \/ UnlinkPatchFile(t) \/ CloseTask(t)
              => pc[t] # "idle"
          BY Zenon DEF DeleteMmapVmaFile, RemoveUlpFile, NothingToDelete, RestoreOrigCode,
             MunmapUlp, UnlinkPatchFile, CloseTask
        <4>3. QED
          BY <2>2, <4>1, <4>2, <4>4, Zenon DEF Step, Crash
      <3>2. QED
        BY <3>1 DEF SafeInv, OneSession
    <2>3. QED
      BY <2>1, <2>2
  <1>2. base[u] = NULL
    BY <1>1, Zenon DEF SafeInv, SessionInv
  <1>3. TypeOK
    BY DEF SafeInv, TypeInv
  <1>4. QED
    BY <1>1, <1>2, <1>3, Frame

LEMMA IdleSession ==
    ASSUME NEW t \in Tool,
           \/ pc'[t] \in {"unlink", "close"}
           \/ pc'[t] = "idle" /\ base'[t] = NULL
    PROVE  SessionInv(t)'
  BY Zenon DEF SessionInv, Current, Loading, Fresh

(* The files of listed areas are mapped.                                   *)
LEMMA ListedMapped ==
    ASSUME NEW t \in Tool, ListInv(t)
    PROVE  Listed(t) \subseteq Mapped
  BY DEF ListInv, Listed, Mapped

LEMMA OpenTaskSafe ==
    ASSUME SafeInv, NEW t \in Tool, OpenTask(t)
    PROVE  AreasInv' /\ SessionInv(t)'
  <1>1. AreasInv'
    BY AreasKept, Zenon DEF OpenTask, SafeInv, AreasInv
  <1>2. /\ vmas \in [Slot -> File \cup {NULL}]
        /\ pc \in [Tool -> Label]
        /\ areas \in [Tool -> [Slot -> File \cup {NULL}]]
        /\ ulps \in [Tool -> [Slot -> Meta]]
        /\ max_ulp_id \in [Tool -> Nat]
    BY DEF SafeInv, TypeInv, TypeOK
  <1>0. pc[t] = "idle" /\ base' = base /\ SessionInv(t)
    BY DEF OpenTask, SafeInv
  <1>3. base'[t] = NULL
    BY <1>0 DEF SessionInv
  <1>4. /\ areas'[t] = vmas /\ ulps'[t] = ReadUlps
        /\ vmas' = vmas /\ meta' = meta
        /\ \A s \in Slot : ReadUlps[s].id <= max_ulp_id'[t]
    BY <1>2 DEF OpenTask
  <1>5. \A s \in Mapped : ReadUlps[s] = meta[vmas[s]]
    BY DEF ReadUlps, Mapped
  <1>6. Listed(t)' = Mapped /\ Mapped' = Mapped
    BY <1>4 DEF Listed, Mapped
  <1>7. ListInv(t)'
    BY <1>4, <1>5, <1>6 DEF ListInv, Id, Mapped
  <1>8. AllListed(t)'
    BY <1>6 DEF AllListed
  <1>9. pc'[t] \in {"alloc", "delete", "close"}
    BY <1>2 DEF OpenTask, Goto
  <1>10. QED
    BY <1>1, <1>3, <1>7, <1>8, <1>9, Zenon DEF SessionInv, Fresh

=============================================================================
