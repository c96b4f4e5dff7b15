------------------------ MODULE PatchLifecycleProofs ------------------------
(***************************************************************************)
(* A session keeps the invariant from open_task() to close_task(): the     *)
(* mapping of the file, the loading of the object, the solving of its      *)
(* symbols, the patching and the unpatching.  Jumps lead to mapped         *)
(* patches, saved code is older and no two patches are one.                *)
(***************************************************************************)
EXTENDS PatchLifecycleAreas

USE DEF FaultKinds, CodeWord

LEMMA AllocPatchFileSafe ==
    ASSUME SafeInv, NEW t \in Tool, AllocPatchFile(t)
    PROVE  AreasInv' /\ SessionInv(t)'
  <1>1. /\ pc \in [Tool -> Label]
        /\ meta \in [File -> Meta]
        /\ file \in [Tool -> File \cup {NULL}]
        /\ vmas \in [Slot -> File \cup {NULL}]
    BY DEF SafeInv, TypeInv, TypeOK
  <1>0. pc[t] = "alloc" /\ SessionInv(t) /\ AreasInv
    BY DEF AllocPatchFile, SafeInv, AreasInv
  <1>2. ListInv(t) /\ base[t] = NULL /\ AllListed(t) /\ AreasInv
    BY <1>0, SMTT(30) DEF SessionInv, Current, Label, Loading
  <1>3. /\ vmas' = vmas /\ text' = text /\ base' = base /\ areas' = areas
        /\ ulps' = ulps /\ max_ulp_id' = max_ulp_id /\ obj' = obj
    BY DEF AllocPatchFile
  <1>4. \A s \in Mapped : meta'[vmas[s]] = meta[vmas[s]]
    BY <1>1 DEF AllocPatchFile, Mapped
  <1>5. AreasInv'
    BY <1>2, <1>3, <1>4, AreasKept
  <1>6. Listed(t)' = Listed(t) /\ Mapped' = Mapped /\ Listed(t) \subseteq Mapped
    BY <1>2, <1>3, ListedMapped DEF Listed, Mapped
  <1>7. ListInv(t)'
    BY <1>2, <1>3, <1>4, <1>6 DEF ListInv, Id
  <1>8. AllListed(t)'
    BY <1>2, <1>3, <1>6 DEF AllListed
  <1>9. CASE pc'[t] = "mmap"
    <2>1. PICK f \in File \ (files \cup {vmas[s] : s \in Slot}) :
             /\ file' = [file EXCEPT ![t] = f]
             /\ meta' = [meta EXCEPT ![f] = Blank(obj[t])]
      BY <1>1, <1>9 DEF AllocPatchFile, Goto
    <2>2. file'[t] = f /\ \A s \in Slot : vmas[s] # f
      BY <2>1, <1>1
    <2>3. NewFile(t)'
      BY <2>2, <1>2, <1>3, <1>6 DEF NewFile, ListInv, Mapped
    <2>4. meta'[file'[t]] = Blank(obj'[t])
      BY <2>1, <2>2, <1>1, <1>3, SMTT(30)
    <2>5. QED
      BY <1>2, <1>3, <1>5, <1>7, <1>8, <1>9, <2>2, <2>3, <2>4, Zenon DEF SessionInv, Fresh
  <1>10. CASE pc'[t] = "err"
    BY <1>5, <1>7, <1>10, SMTT(30) DEF SessionInv, Fresh, Loading
  <1>11. QED
    BY <1>9, <1>10, <1>1 DEF AllocPatchFile, Goto

LEMMA CreateMmapVmaFileSafe ==
    ASSUME SafeInv, NEW t \in Tool, CreateMmapVmaFile(t)
    PROVE  AreasInv' /\ SessionInv(t)'
  <1>1. /\ pc \in [Tool -> Label]
        /\ base \in [Tool -> Slot \cup {NULL}]
        /\ vmas \in [Slot -> File \cup {NULL}]
        /\ max_ulp_id[t] \in Nat
    BY DEF SafeInv, TypeInv, TypeOK
  <1>0. pc[t] = "mmap" /\ SessionInv(t) /\ AreasInv
    BY SMTT(30) DEF CreateMmapVmaFile, SafeInv, AreasInv
  <1>2. ListInv(t) /\ base[t] = NULL /\ AllListed(t) /\ NewFile(t) /\ AreasInv
    BY <1>0 DEF SessionInv, Current, Label, Loading
  <1>3. /\ file[t] \in File /\ \A s \in Slot : vmas[s] # file[t]
        /\ meta[file[t]] = Blank(obj[t])
    BY <1>0 DEF SessionInv
  <1>4. /\ text' = text /\ meta' = meta /\ file' = file /\ areas' = areas
        /\ ulps' = ulps /\ max_ulp_id' = max_ulp_id /\ obj' = obj
    BY SMTT(30) DEF CreateMmapVmaFile
  <1>5. /\ meta[file[t]].id = 0 /\ meta[file[t]].addr = NULL
        /\ meta[file[t]].orig = <<"zero", "zero">> /\ meta[file[t]].obj = obj[t]
    BY <1>3 DEF Blank
  <1>6. Listed(t)' = Listed(t) /\ Listed(t) \subseteq Mapped
    BY <1>2, <1>4, ListedMapped DEF Listed
  <1>7. NewFile(t)'
    BY <1>2, <1>4, <1>6 DEF NewFile
  <1>8. ASSUME NEW b \in Slot \ Mapped, vmas' = [vmas EXCEPT ![b] = file[t]],
               base' = [base EXCEPT ![t] = b], pc'[t] = "load"
        PROVE  AreasInv' /\ SessionInv(t)'
    <2>1. Mapped' = Mapped \cup {b} /\ b \notin Mapped /\ b \in Slot
      BY <1>8, <1>1, <1>3, ConstantsAssumption DEF Mapped
    <2>2. /\ \A s \in Mapped : /\ vmas'[s] = vmas[s] /\ Id(s)' = Id(s)
                              /\ At(s)' = At(s) /\ Saved(s)' = Saved(s)
          /\ vmas'[b] = file[t] /\ base'[t] = b
      BY <1>8, <1>1, <1>4, <2>1, Zenon DEF Id, At, Saved, Mapped
    <2>3. Id(b)' = 0 /\ At(b)' = NULL /\ Saved(b)' = <<"zero", "zero">>
      BY <2>2, <1>4, <1>5, Zenon DEF Id, At, Saved
    <2>4. \A k \in {1, 2} : \A s \in Slot : Saved(b)'[k] # s
      BY <2>3, ConstantsAssumption
    <2>5. OneArea'
      BY <2>1, <2>2, <1>2, <1>3, SMTT(30) DEF AreasInv, OneArea, Mapped
    <2>6. IdAddr'
      BY <2>1, <2>2, <2>3, <1>2, SMTT(30) DEF AreasInv, IdAddr
    <2>7. JumpInv'
      BY <2>1, <2>2, <1>2, <1>4 DEF AreasInv, JumpInv
    <2>8. SavedInv'
      BY <2>1, <2>2, <2>4, <1>2 DEF AreasInv, SavedInv
    <2>9. Patched' = Patched
      BY <2>1, <2>2, <2>3 DEF Patched, Id
    <2>10. UniquePatches'
      BY <2>2, <2>9, <1>2, <1>4, SMTT(30) DEF AreasInv, UniquePatches, Patched
    <2>11. ListInv(t)'
      BY <2>1, <2>2, <2>3, <1>1, <1>2, <1>4, <1>6, SMTT(30) DEF ListInv
    <2>12. NewArea(t)'
      <3>1. \A a \in Addr : text[a] # b
        BY <2>1, <1>2 DEF AreasInv, JumpInv
      <3>2. \A s \in Mapped : \A k \in {1, 2} : Saved(s)[k] # b
        BY <2>1, <1>2 DEF AreasInv, SavedInv
      <3>3. \A s \in Mapped' : vmas'[s] = file'[t] => s = b
        BY <2>1, <2>2, <1>3, <1>4, Zenon DEF Mapped
      <3>4. \A s \in Mapped' : \A k \in {1, 2} : Saved(s)'[k] # b
        BY <2>1, <2>2, <2>4, <3>2
      <3>5. \A a \in Addr : text'[a] # b
        BY <3>1, <1>4
      <3>6. file'[t] \in File /\ vmas'[b] = file'[t] /\ base'[t] = b
        BY <2>2, <1>3, <1>4
      <3>7. QED
        BY <3>3, <3>4, <3>5, <3>6, Zenon DEF NewArea
    <2>13. AllListed(t)'
      BY <2>1, <2>2, <1>2, <1>6, ConstantsAssumption DEF AllListed, Mapped
    <2>14. AreasInv'
      BY <2>5, <2>6, <2>7, <2>8, <2>10 DEF AreasInv
    <2>15. QED
      BY <1>4, <1>5, <1>7, <1>8, <2>11, <2>12, <2>13, <2>14, Zenon DEF SessionInv
  <1>9. ASSUME vmas' = vmas, base' = base, pc'[t] \in {"load", "err"}
        PROVE  AreasInv' /\ SessionInv(t)'
    <2>1. AreasInv'
      BY <1>2, <1>4, <1>9, AreasKept, ZenonT(30)
    <2>2. Mapped' = Mapped /\ \A s \in Slot : Id(s)' = Id(s)
      BY <1>4, <1>9 DEF Mapped, Id
    <2>3. ListInv(t)'
      BY <2>2, <1>2, <1>4, <1>6, <1>9, ZenonT(30) DEF ListInv, Mapped
    <2>4. AllListed(t)'
      BY <2>2, <1>2, <1>6, <1>9, ZenonT(30) DEF AllListed
    <2>5. NewArea(t)'
      BY <1>2, <1>3, <1>4, <1>9 DEF NewArea, Mapped
    <2>6. QED
      BY <1>4, <1>5, <1>7, <1>9, <2>1, <2>3, <2>4, <2>5, Zenon
         DEF SessionInv, Loading, Fresh
  <1>10. QED
    BY <1>1, <1>8, <1>9 DEF CreateMmapVmaFile, Goto

(* What the steps of load_patch() and kick_target_process() that write     *)
(* only the patch file, before the jump, have in common.                   *)
WritesFile(t) ==
    /\ text' = text /\ vmas' = vmas /\ base' = base /\ file' = file
    /\ areas' = areas /\ ulps' = ulps
    /\ \A f \in File : f # file[t] => meta'[f] = meta[f]
    /\ max_ulp_id'[t] \in Nat /\ max_ulp_id'[t] >= max_ulp_id[t]
    /\ meta'[file[t]].id <= max_ulp_id'[t]
    /\ \A k \in {1, 2} : meta'[file[t]].orig[k] # base[t] \/ base[t] = NULL

(* What they leave of the other areas and of the session's list.           *)
OthersKept(t) ==
    /\ Mapped' = Mapped
    /\ Listed(t)' = Listed(t)
    /\ \A s \in Mapped : s # base[t] => vmas[s] # file[t] /\ meta'[vmas[s]] = meta[vmas[s]]

LEMMA FileWritten ==
    ASSUME SafeInv, NEW t \in Tool, pc[t] \in Fresh, WritesFile(t)
    PROVE  /\ OthersKept(t)
           /\ ListInv(t)' /\ NewFile(t)' /\ NewArea(t)'
           /\ AllListed(t) => AllListed(t)'
  <1> USE DEF WritesFile
  <1>1. vmas \in [Slot -> File \cup {NULL}] /\ meta \in [File -> Meta]
        /\ base[t] \in Slot \cup {NULL} /\ max_ulp_id[t] \in Nat
    BY Zenon DEF SafeInv, TypeInv, TypeOK
  <1>2. ListInv(t) /\ NewFile(t) /\ NewArea(t)
    <2>1. SessionInv(t)
      BY ZenonT(30) DEF SafeInv
    <2>2. QED
      BY <2>1, ZenonT(30) DEF SessionInv, Current, Label, Fresh
  <1>3. Mapped' = Mapped /\ Listed(t)' = Listed(t) /\ Listed(t) \subseteq Mapped
    BY <1>2, ListedMapped, Zenon DEF Mapped, Listed
  <1>4. \A s \in Mapped : s # base[t] => vmas[s] # file[t] /\ meta'[vmas[s]] = meta[vmas[s]]
    BY <1>1, <1>2, Zenon DEF NewArea, Mapped
  <1>5. base[t] # NULL => vmas[base[t]] = file[t]
    BY <1>2, Zenon DEF NewArea
  <1>6. NULL \notin Mapped
    BY ConstantsAssumption, Zenon DEF Mapped
  <1>7. ListInv(t)'
    <2>1. \A s \in Listed(t) : s # base[t]
      BY <1>2, <1>3, <1>5, <1>6 DEF ListInv, NewFile
    <2>2. \A s \in Mapped : meta[vmas[s]].id \in Nat
      BY <1>1, Zenon DEF Mapped, Meta
    <2>3. \A s \in Mapped : meta'[vmas[s]].id <= max_ulp_id'[t]
      <3>1. SUFFICES ASSUME NEW s \in Mapped PROVE meta'[vmas[s]].id <= max_ulp_id'[t]
        OBVIOUS
      <3>2. CASE s = base[t]
        BY <3>2, <1>5, <1>6, Zenon
      <3>3. CASE s # base[t]
        BY <3>3, <1>1, <1>2, <1>4, <2>2 DEF ListInv, Id
      <3>4. QED
        BY <3>2, <3>3, ZenonT(30)
    <2>4. QED
      BY <1>2, <1>3, <1>4, <2>1, <2>3 DEF ListInv, Id
  <1>8. NewFile(t)'
    BY <1>2, <1>3, Zenon DEF NewFile
  <1>9. NewArea(t)'
    <2>1. ASSUME base[t] # NULL, NEW s \in Mapped, NEW k \in {1, 2}
          PROVE  Saved(s)'[k] # base[t]
      <3>1. CASE s = base[t]
        BY <2>1, <3>1, <1>5, Zenon DEF Saved
      <3>2. CASE s # base[t]
        BY <2>1, <3>2, <1>2, <1>4, Zenon DEF Saved, NewArea
      <3>3. QED
        BY <3>1, <3>2
    <2>2. QED
      BY <2>1, <1>2, <1>3, Zenon DEF NewArea
  <1>10. AllListed(t) => AllListed(t)'
    BY <1>3 DEF AllListed
  <1>11. OthersKept(t)
    BY <1>3, <1>4, Zenon DEF OthersKept
  <1>12. QED
    BY <1>7, <1>8, <1>9, <1>10, <1>11, Zenon

LEMMA LoadPatchSafe ==
    ASSUME SafeInv, NEW t \in Tool, LoadPatch(t)
    PROVE  AreasInv' /\ SessionInv(t)'
  <1>1. /\ pc \in [Tool -> Label]
        /\ meta \in [File -> Meta]
        /\ vmas \in [Slot -> File \cup {NULL}]
        /\ base[t] \in Slot \cup {NULL}
        /\ max_ulp_id[t] \in Nat
    BY DEF SafeInv, TypeInv, TypeOK
  <1>0. pc[t] = "load" /\ SessionInv(t) /\ AreasInv
    BY DEF LoadPatch, SafeInv, AreasInv
  <1>2. AllListed(t) /\ NewArea(t) /\ AreasInv /\ pc[t] \in Fresh
    BY <1>0, Zenon DEF SessionInv, Loading, Fresh
  <1>3. /\ file[t] \in File /\ meta[file[t]].id = 0 /\ meta[file[t]].addr = NULL
        /\ meta[file[t]].orig = <<"zero", "zero">> /\ meta[file[t]].obj = obj[t]
    BY <1>0, <1>2, Zenon DEF SessionInv, NewArea
  <1>4. /\ text' = text /\ vmas' = vmas /\ file' = file /\ areas' = areas
        /\ ulps' = ulps /\ max_ulp_id' = max_ulp_id /\ obj' = obj /\ base' = base
    BY DEF LoadPatch, session
  <1>5. /\ \A f \in File : f # file[t] => meta'[f] = meta[f]
        /\ \A f \in File : /\ meta'[f].id = meta[f].id
                           /\ meta'[f].obj = meta[f].obj
                           /\ meta'[f].addr = meta[f].addr
                           /\ meta'[f].orig = meta[f].orig
    BY <1>1 DEF LoadPatch, Meta
  <1>6. AreasInv'
    BY <1>1, <1>2, <1>4, <1>5, AreasKept, Zenon DEF Mapped
  <1>7. \A k \in {1, 2} : meta'[file[t]].orig[k] # base[t] \/ base[t] = NULL
    BY <1>1, <1>3, <1>5, ConstantsAssumption
  <1>12. WritesFile(t)
    BY <1>1, <1>3, <1>4, <1>5, <1>7 DEF WritesFile
  <1>13. /\ ListInv(t)' /\ NewFile(t)' /\ NewArea(t)' /\ AllListed(t)'
         /\ OthersKept(t)
    BY <1>2, <1>12, FileWritten
  <1>8. ListInv(t)' /\ NewFile(t)' /\ NewArea(t)' /\ AllListed(t)' /\ Listed(t)' = Listed(t)
    BY <1>13 DEF OthersKept
  <1>9. CASE pc'[t] = "solve"
    <2>1. \A s \in Listed(t) : ulps[t][s].obj # obj[t]
      BY <1>1, <1>9 DEF LoadPatch, Goto
    <2>2. QED
      <3>1. /\ meta'[file[t]].id = 0 /\ meta'[file[t]].addr = NULL
            /\ meta'[file[t]].orig = <<"zero", "zero">>
            /\ meta'[file[t]].obj = obj[t]
        BY <1>3, <1>5, Zenon
      <3>2. QED
        BY <1>4, <1>6, <1>8, <1>9, <2>1, <3>1, Zenon DEF SessionInv
  <1>10. CASE pc'[t] = "unmap"
    BY <1>6, <1>8, <1>10, Zenon DEF SessionInv, Loading
  <1>11. QED
    BY <1>1, <1>9, <1>10 DEF LoadPatch, Goto

LEMMA SolvePatchSymbolsSafe ==
    ASSUME SafeInv, NEW t \in Tool, SolvePatchSymbols(t)
    PROVE  AreasInv' /\ SessionInv(t)'
  <1>1. /\ pc \in [Tool -> Label]
        /\ meta \in [File -> Meta]
        /\ vmas \in [Slot -> File \cup {NULL}]
        /\ base[t] \in Slot \cup {NULL}
        /\ max_ulp_id \in [Tool -> Nat]
    BY DEF SafeInv, TypeInv, TypeOK
  <1>0. pc[t] = "solve" /\ SessionInv(t) /\ AreasInv
    BY DEF SolvePatchSymbols, SafeInv, AreasInv
  <1>2. AllListed(t) /\ NewArea(t) /\ ListInv(t) /\ AreasInv /\ pc[t] \in Fresh
    BY <1>0, Zenon DEF SessionInv, Loading, Fresh, Current, Label
  <1>3. /\ file[t] \in File /\ meta[file[t]].id = 0 /\ meta[file[t]].addr = NULL
        /\ meta[file[t]].orig = <<"zero", "zero">> /\ meta[file[t]].obj = obj[t]
        /\ \A s \in Listed(t) : ulps[t][s].obj # obj[t]
    BY <1>0, <1>2, Zenon DEF SessionInv, NewArea
  <1>4. /\ text' = text /\ vmas' = vmas /\ file' = file /\ areas' = areas
        /\ ulps' = ulps /\ obj' = obj /\ base' = base
    BY DEF SolvePatchSymbols
  <1>8. file[t] \in File
    BY <1>3
  <1>5. CASE meta' = meta /\ max_ulp_id' = max_ulp_id /\ pc'[t] = "unmap"
    <2>1. AreasInv'
      BY <1>2, <1>4, <1>5, AreasKept
    <2>2. \A k \in {1, 2} : meta'[file[t]].orig[k] # base[t] \/ base[t] = NULL
      BY <1>1, <1>3, <1>5, ConstantsAssumption, SMTT(30)
    <2>5. WritesFile(t)
      BY <1>1, <1>3, <1>4, <1>5, <2>2 DEF WritesFile
    <2>3. ListInv(t)' /\ NewFile(t)' /\ NewArea(t)'
      BY <1>2, <2>5, FileWritten
    <2>4. QED
      BY <1>5, <2>1, <2>3, Zenon DEF SessionInv, Loading
  <1>6. ASSUME max_ulp_id' = [max_ulp_id EXCEPT ![t] = @ + 1],
               meta' = [meta EXCEPT ![file[t]].id = max_ulp_id[t] + 1],
               pc'[t] = "publish"
        PROVE  AreasInv' /\ SessionInv(t)'
    <2>1. /\ \A f \in File : f # file[t] => meta'[f] = meta[f]
          /\ \A f \in File : /\ meta'[f].obj = meta[f].obj
                             /\ meta'[f].addr = meta[f].addr
                             /\ meta'[f].orig = meta[f].orig
          /\ meta'[file[t]].id = max_ulp_id[t] + 1
          /\ max_ulp_id'[t] = max_ulp_id[t] + 1
      <3>1. \A f \in File : f # file[t] => meta'[f] = meta[f]
        BY <1>6, <1>1, Zenon
      <3>2. /\ meta'[file[t]].obj = meta[file[t]].obj
            /\ meta'[file[t]].addr = meta[file[t]].addr
            /\ meta'[file[t]].orig = meta[file[t]].orig
        BY <1>6, <1>1, file[t] \in File DEF Meta
      <3>3. meta'[file[t]].id = max_ulp_id[t] + 1
        BY <1>6, <1>1, <1>8 DEF Meta
      <3>4. max_ulp_id'[t] = max_ulp_id[t] + 1
        BY <1>6, <1>1
      <3>5. \A f \in File : /\ meta'[f].obj = meta[f].obj
                           /\ meta'[f].addr = meta[f].addr
                           /\ meta'[f].orig = meta[f].orig
        BY <3>1, <3>2
      <3>6. QED
        BY <3>1, <3>3, <3>4, <3>5, Zenon
    <2>2. \A k \in {1, 2} : meta'[file[t]].orig[k] # base[t] \/ base[t] = NULL
      BY <1>1, <1>3, <2>1, ConstantsAssumption, SMTT(30)
    <2>3. /\ Mapped' = Mapped /\ Listed(t)' = Listed(t)
          /\ \A s \in Mapped : s # base[t] => vmas[s] # file[t] /\ meta'[vmas[s]] = meta[vmas[s]]
          /\ ListInv(t)' /\ NewFile(t)' /\ NewArea(t)' /\ AllListed(t)'
      <3>1. WritesFile(t)
        BY <1>1, <1>4, <2>1, <2>2 DEF WritesFile
      <3>2. OthersKept(t) /\ ListInv(t)' /\ NewFile(t)' /\ NewArea(t)' /\ AllListed(t)'
        BY <1>2, <3>1, FileWritten
      <3>3. QED
        BY <3>2, Zenon DEF OthersKept
    <2>4. /\ base[t] \in Mapped => vmas[base[t]] = file[t]
          /\ base[t] \in Mapped => \A a \in Addr : text[a] # base[t]
          /\ base[t] \in Mapped => \A s \in Mapped : \A k \in {1, 2} : Saved(s)[k] # base[t]
      BY <1>2, ConstantsAssumption, ZenonT(30) DEF NewArea, Mapped
    <2>5. \A s \in Mapped : s # base[t] => Id(s)' = Id(s) /\ At(s)' = At(s) /\ Saved(s)' = Saved(s)
      BY <2>3, <1>4 DEF Id, At, Saved
    <2>6. \A s \in Mapped : s = base[t] => /\ Id(s)' = max_ulp_id[t] + 1
                                          /\ At(s)' = NULL
                                          /\ Saved(s)' = <<"zero", "zero">>
      <3>1. meta'[file[t]].orig = <<"zero", "zero">> /\ meta'[file[t]].addr = NULL
        BY <2>1, <1>3, Zenon
      <3>2. vmas'[base[t]] = vmas[base[t]]
        BY <1>4, SMTT(30)
      <3>4. meta'[file[t]].id = max_ulp_id[t] + 1
        BY <2>1
      <3>3. QED
        BY <2>4, <3>1, <3>2, <3>4, Zenon DEF Id, At, Saved
    <2>7. \A s \in Mapped : Id(s) \in Nat /\ Id(s) <= max_ulp_id[t]
      BY <1>1, <1>2 DEF ListInv, Id, Mapped, Meta
    <2>9. OneArea'
      BY <1>2, <1>4, <2>3, Zenon DEF AreasInv, OneArea
    <2>10. IdAddr'
      BY <1>2, <2>3, <2>5, <2>6, Zenon DEF AreasInv, IdAddr
    <2>11. JumpInv'
      BY <1>2, <1>4, <2>3, <2>4, <2>5 DEF AreasInv, JumpInv
    <2>12. SavedInv'
      <3>1. ASSUME NEW s \in Mapped, NEW k \in {1, 2}, NEW w \in Slot, Saved(s)'[k] = w
            PROVE  w \in Mapped /\ At(w)' # NULL /\ Id(w)' < Id(s)' /\ At(s)' + k = At(w)' + 2
        <4>1. CASE s = base[t]
          BY <3>1, <4>1, <2>6, ConstantsAssumption
        <4>2. CASE s # base[t]
          <5>1. w \in Mapped /\ At(w) # NULL /\ Id(w) < Id(s) /\ At(s) + k = At(w) + 2
            BY <3>1, <4>2, <2>5, <1>2 DEF AreasInv, SavedInv
          <5>2. w # base[t]
            BY <3>1, <4>2, <5>1, <2>4, <2>5, Zenon
          <5>3. QED
            BY <4>2, <5>1, <5>2, <2>5
        <4>3. QED
          BY <4>1, <4>2
      <3>2. QED
        BY <2>3, <3>1, SMTT(30) DEF SavedInv
    <2>13. \A s \in Mapped : s # base[t] => meta[vmas[s]].obj # obj[t]
      BY <1>2, <1>3, SMTT(30) DEF AllListed, ListInv
    <2>14. \A s \in Mapped : s # base[t] <=> meta'[vmas[s]].obj # obj[t]
      <3>1. \A s \in Mapped : s # base[t] => meta'[vmas[s]] = meta[vmas[s]]
        BY <2>3, Zenon
      <3>2. \A s \in Mapped : s = base[t] => meta'[vmas[s]].obj = obj[t]
        BY <1>3, <2>1, <2>4
      <3>3. QED
        BY <3>1, <3>2, <2>13, Zenon
    <2>15. max_ulp_id[t] \in Nat
      BY <1>1
    <2>16. UniquePatches'
      <3>1. ASSUME NEW r \in Mapped, NEW s \in Mapped, r # s, Id(r)' # 0, Id(s)' # 0
            PROVE  Id(r)' # Id(s)' /\ meta'[vmas[r]].obj # meta'[vmas[s]].obj
        <4>1. CASE r # base[t] /\ s # base[t]
          BY <3>1, <4>1, <2>3, <2>5, <1>2, SMTT(30) DEF AreasInv, UniquePatches, Patched, Id
        <4>2. CASE r = base[t]
          BY <3>1, <4>2, <2>5, <2>6, <2>7, <2>14, <2>15
        <4>3. CASE s = base[t]
          BY <3>1, <4>3, <2>5, <2>6, <2>7, <2>14, <2>15
        <4>4. QED
          BY <4>1, <4>2, <4>3, Zenon
      <3>2. QED
        BY <3>1, <2>3, <1>4 DEF UniquePatches, Patched, Id
    <2>17. AreasInv'
      BY <2>9, <2>10, <2>11, <2>12, <2>16, Zenon DEF AreasInv
    <2>18. \A s \in Mapped : s # base[t] => Id(s)' < max_ulp_id'[t]
      BY <2>1, <2>5, <2>7, <1>1
    <2>19. meta'[file[t]].id # 0 /\ meta'[file[t]].addr = NULL
      BY <2>1, <1>1, <1>3
    <2>20. QED
      BY <1>3, <1>4, <1>6, <2>1, <2>3, <2>17, <2>18, <2>19, Zenon DEF SessionInv
  <1>7. QED
    BY <1>1, <1>5, <1>6, Zenon DEF SolvePatchSymbols, Goto

LEMMA PublishAddrSafe ==
    ASSUME SafeInv, NEW t \in Tool, PublishAddr(t)
    PROVE  AreasInv' /\ SessionInv(t)'
  <1>1. /\ pc \in [Tool -> Label]
        /\ meta \in [File -> Meta]
        /\ vmas \in [Slot -> File \cup {NULL}]
        /\ base[t] \in Slot \cup {NULL}
        /\ max_ulp_id[t] \in Nat
    BY DEF SafeInv, TypeInv, TypeOK
  <1>0. pc[t] = "publish" /\ pc'[t] = "backup" /\ SessionInv(t) /\ AreasInv
    BY <1>1 DEF PublishAddr, SafeInv, AreasInv, Goto
  <1>2. AllListed(t) /\ NewArea(t) /\ pc[t] \in Fresh
    BY <1>0, Zenon DEF SessionInv, Loading, Fresh
  <1>3. /\ file[t] \in File /\ meta[file[t]].id = max_ulp_id[t] /\ meta[file[t]].id # 0
        /\ meta[file[t]].orig = <<"zero", "zero">> /\ meta[file[t]].obj = obj[t]
        /\ \A s \in Mapped : s # base[t] => Id(s) < max_ulp_id[t]
    BY <1>0, <1>2, Zenon DEF SessionInv, NewArea, Fresh
  <1>4. /\ text' = text /\ vmas' = vmas /\ file' = file /\ areas' = areas
        /\ ulps' = ulps /\ obj' = obj /\ base' = base /\ max_ulp_id' = max_ulp_id
    BY DEF PublishAddr, session
  <1>5. \A f \in File : f # file[t] => meta'[f] = meta[f]
    BY <1>1, Zenon DEF PublishAddr
  <1>6. /\ meta'[file[t]].id = meta[file[t]].id
        /\ meta'[file[t]].obj = meta[file[t]].obj
        /\ meta'[file[t]].orig = meta[file[t]].orig
        /\ meta'[file[t]].addr = DstAddr[obj[t]]
    BY <1>1, <1>3 DEF PublishAddr, Meta
  <1>7. \A k \in {1, 2} : meta'[file[t]].orig[k] # base[t] \/ base[t] = NULL
    BY <1>1, <1>3, <1>6, ConstantsAssumption
  <1>8. /\ Mapped' = Mapped
        /\ \A s \in Mapped : s # base[t] => vmas[s] # file[t] /\ meta'[vmas[s]] = meta[vmas[s]]
        /\ ListInv(t)' /\ NewFile(t)' /\ NewArea(t)' /\ AllListed(t)'
    <2>1. WritesFile(t)
      BY <1>1, <1>3, <1>4, <1>5, <1>6, <1>7 DEF WritesFile
    <2>2. QED
      BY <1>2, <2>1, FileWritten, Zenon DEF OthersKept
  <1>9. /\ base[t] \in Mapped => vmas[base[t]] = file[t]
        /\ base[t] \in Mapped => \A a \in Addr : text[a] # base[t]
        /\ base[t] \in Mapped => \A s \in Mapped : \A k \in {1, 2} : Saved(s)[k] # base[t]
    BY <1>2, ConstantsAssumption, Zenon DEF NewArea, Mapped
  <1>10. \A s \in Mapped : s # base[t] => Id(s)' = Id(s) /\ At(s)' = At(s) /\ Saved(s)' = Saved(s)
    BY <1>4, <1>8 DEF Id, At, Saved
  <1>11. \A s \in Mapped : s = base[t] => /\ Id(s)' = Id(s) /\ Id(s)' # 0
                                          /\ At(s)' # NULL
                                          /\ Saved(s)' = <<"zero", "zero">>
    <2>1. obj[t] \in Obj
      BY <1>0, Zenon DEF SafeInv, TypeInv, Has, Loading
    <2>2. DstAddr[obj[t]] # NULL
      BY <2>1, ConstantsAssumption, Zenon
    <2>3. QED
      BY <1>3, <1>4, <1>6, <1>9, <2>2, Zenon DEF Id, At, Saved
  <1>12. OneArea' /\ IdAddr'
    BY <1>0, <1>4, <1>8, <1>10, <1>11, Zenon DEF AreasInv, OneArea, IdAddr
  <1>13. JumpInv'
    BY <1>0, <1>4, <1>8, <1>9, <1>10 DEF AreasInv, JumpInv
  <1>14. SavedInv'
    <2>1. ASSUME NEW s \in Mapped, NEW k \in {1, 2}, NEW w \in Slot, Saved(s)'[k] = w
          PROVE  w \in Mapped /\ At(w)' # NULL /\ Id(w)' < Id(s)' /\ At(s)' + k = At(w)' + 2
      <3>1. CASE s = base[t]
        BY <2>1, <3>1, <1>11, ConstantsAssumption
      <3>2. CASE s # base[t]
        <4>1. w \in Mapped /\ At(w) # NULL /\ Id(w) < Id(s) /\ At(s) + k = At(w) + 2
          BY <2>1, <3>2, <1>0, <1>10 DEF AreasInv, SavedInv
        <4>2. w # base[t]
          BY <2>1, <3>2, <4>1, <1>9, <1>10, Zenon
        <4>3. QED
          BY <3>2, <4>1, <4>2, <1>10
      <3>3. QED
        BY <3>1, <3>2
    <2>2. QED
      BY <1>8, <2>1 DEF SavedInv
  <1>15. UniquePatches'
    <2>1. \A s \in Mapped : /\ meta'[vmas[s]].id = meta[vmas[s]].id
                             /\ meta'[vmas[s]].obj = meta[vmas[s]].obj
      BY <1>6, <1>8, <1>9, Zenon
    <2>2. QED
      BY <1>0, <1>4, <1>8, <2>1 DEF AreasInv, UniquePatches, Patched
  <1>16. \A s \in Mapped' : s # base'[t] => Id(s)' < max_ulp_id'[t]
    BY <1>3, <1>4, <1>8, <1>10
  <1>17. /\ meta'[file[t]].id = max_ulp_id'[t] /\ meta'[file[t]].id # 0
         /\ meta'[file[t]].addr = DstAddr[obj[t]] /\ meta'[file[t]].obj = obj[t]
    BY <1>3, <1>4, <1>6, Zenon
  <1>18. AreasInv'
    BY <1>12, <1>13, <1>14, <1>15, Zenon DEF AreasInv
  <1>19. QED
    BY <1>0, <1>4, <1>8, <1>16, <1>17, <1>18, Zenon DEF SessionInv

(* From the symbols being solved to the jump: what the session knows of    *)
(* the area it adds.                                                       *)
LEMMA Solved ==
    ASSUME SafeInv, NEW t \in Tool, pc[t] \in {"backup", "copy", "kick"}
    PROVE  /\ AllListed(t) /\ NewArea(t) /\ ListInv(t) /\ AreasInv /\ pc[t] \in Fresh
           /\ obj[t] \in Obj /\ DstAddr[obj[t]] \in Addr
           /\ DstAddr[obj[t]] + 1 \in Addr /\ DstAddr[obj[t]] \in Nat
           /\ file[t] \in File /\ meta[file[t]].obj = obj[t]
           /\ meta[file[t]].id = max_ulp_id[t] /\ meta[file[t]].id # 0
           /\ meta[file[t]].addr = DstAddr[obj[t]]
           /\ \A s \in Mapped : s # base[t] => Id(s) < max_ulp_id[t]
           /\ base[t] \in Mapped => vmas[base[t]] = file[t]
           /\ base[t] \in Mapped => \A a \in Addr : text[a] # base[t]
           /\ base[t] \in Mapped => \A s \in Mapped : \A k \in {1, 2} : Saved(s)[k] # base[t]
  <1>0. SessionInv(t) /\ AreasInv
    BY DEF SafeInv, AreasInv
  <1>1. AllListed(t) /\ NewArea(t) /\ ListInv(t) /\ AreasInv /\ pc[t] \in Fresh
    BY <1>0, Zenon DEF SessionInv, Loading, Fresh, Current, Label
  <1>2. obj[t] \in Obj
    BY DEF SafeInv, TypeInv, Has, Loading
  <1>3. /\ DstAddr[obj[t]] \in Addr /\ DstAddr[obj[t]] + 1 \in Addr
        /\ DstAddr[obj[t]] \in Nat
    BY <1>2, ConstantsAssumption, Zenon
  <1>4. /\ meta[file[t]].obj = obj[t]
        /\ meta[file[t]].id = max_ulp_id[t] /\ meta[file[t]].id # 0
        /\ meta[file[t]].addr = DstAddr[obj[t]]
        /\ \A s \in Mapped : s # base[t] => Id(s) < max_ulp_id[t]
    BY <1>0, Zenon DEF SessionInv, Fresh
  <1>5. /\ file[t] \in File
        /\ base[t] \in Mapped => vmas[base[t]] = file[t]
        /\ base[t] \in Mapped => \A a \in Addr : text[a] # base[t]
        /\ base[t] \in Mapped => \A s \in Mapped : \A k \in {1, 2} : Saved(s)[k] # base[t]
    BY <1>1, ConstantsAssumption, Zenon DEF NewArea, Mapped
  <1>6. QED
    BY <1>1, <1>2, <1>3, <1>4, <1>5, Zenon

-----------------------------------------------------------------------------
LEMMA BackupOrigCodeSafe ==
    ASSUME SafeInv, NEW t \in Tool, BackupOrigCode(t)
    PROVE  AreasInv' /\ SessionInv(t)'
  <1>1. /\ pc \in [Tool -> Label]
        /\ meta \in [File -> Meta]
        /\ vmas \in [Slot -> File \cup {NULL}]
        /\ base[t] \in Slot \cup {NULL}
        /\ max_ulp_id \in [Tool -> Nat]
    BY DEF SafeInv, TypeInv, TypeOK
  <1>2. AllListed(t) /\ NewArea(t) /\ ListInv(t) /\ AreasInv /\ pc[t] \in Fresh
    BY Solved, Zenon DEF BackupOrigCode
  <1>3. /\ obj[t] \in Obj /\ DstAddr[obj[t]] \in Addr
        /\ DstAddr[obj[t]] + 1 \in Addr /\ DstAddr[obj[t]] \in Nat
        /\ file[t] \in File
    BY Solved, Zenon DEF BackupOrigCode
  <1>8. /\ meta[file[t]].obj = obj[t]
        /\ meta[file[t]].id = max_ulp_id[t] /\ meta[file[t]].id # 0
        /\ meta[file[t]].addr = DstAddr[obj[t]]
        /\ \A s \in Mapped : s # base[t] => Id(s) < max_ulp_id[t]
    BY Solved, Zenon DEF BackupOrigCode
  <1>9. base[t] \in Mapped => /\ vmas[base[t]] = file[t]
                             /\ \A a \in Addr : text[a] # base[t]
    BY Solved, Zenon DEF BackupOrigCode
  <1>4. /\ text' = text /\ vmas' = vmas /\ file' = file /\ areas' = areas
        /\ ulps' = ulps /\ max_ulp_id' = max_ulp_id /\ obj' = obj /\ base' = base
    BY Zenon DEF BackupOrigCode, session
  <1>5. CASE meta' = meta /\ pc'[t] = "unmap"
    <2>1. AreasInv'
      BY <1>2, <1>4, <1>5, AreasKept
    <2>2. Mapped' = Mapped /\ Listed(t)' = Listed(t)
      BY <1>4 DEF Mapped, Listed
    <2>3. ListInv(t)'
      BY <1>2, <1>4, <1>5, <2>2, Zenon DEF ListInv, Id
    <2>4. NewArea(t)'
      <3>1. \A s \in Mapped : Saved(s)' = Saved(s)
        BY <1>4, <1>5 DEF Saved
      <3>2. QED
        BY <1>2, <1>4, <2>2, <3>1, Zenon DEF NewArea
    <2>5. NewFile(t)'
      <3>1. NewFile(t)
        BY <1>2, Zenon DEF SafeInv, SessionInv
      <3>2. QED
        BY <1>4, <2>2, <3>1 DEF NewFile
    <2>6. QED
      BY <1>5, <2>1, <2>3, <2>4, <2>5 DEF SessionInv, Loading
  <1>6. ASSUME meta' = [meta EXCEPT ![file[t]].orig = ReadWords(DstAddr[obj[t]])],
               pc'[t] = "copy"
        PROVE  AreasInv' /\ SessionInv(t)'
    <2>1. /\ \A f \in File : f # file[t] => meta'[f] = meta[f]
          /\ \A f \in File : /\ meta'[f].obj = meta[f].obj
                             /\ meta'[f].id = meta[f].id
                             /\ meta'[f].addr = meta[f].addr
          /\ meta'[file[t]].orig = <<text[DstAddr[obj[t]]], text[DstAddr[obj[t]] + 1]>>
      <3>1. \A f \in File : f # file[t] => meta'[f] = meta[f]
        BY <1>6, <1>1
      <3>2. /\ meta'[file[t]].obj = meta[file[t]].obj
            /\ meta'[file[t]].id = meta[file[t]].id
            /\ meta'[file[t]].addr = meta[file[t]].addr
        BY <1>6, <1>1, <1>3 DEF Meta
      <3>3. meta'[file[t]].orig = <<text[DstAddr[obj[t]]], text[DstAddr[obj[t]] + 1]>>
        BY <1>6, <1>1, <1>3, Zenon DEF Meta, ReadWords
      <3>4. QED
        BY <3>1, <3>2, <3>3, Zenon
    <2>2. \A k \in {1, 2} : meta'[file[t]].orig[k] # base[t] \/ base[t] = NULL
      <3>1. base[t] # NULL => \A a \in Addr : text[a] # base[t]
        BY <1>2 DEF NewArea
      <3>2. QED
        BY <1>3, <2>1, <3>1
    <2>3. /\ Mapped' = Mapped /\ Listed(t)' = Listed(t)
          /\ \A s \in Mapped : s # base[t] => vmas[s] # file[t] /\ meta'[vmas[s]] = meta[vmas[s]]
          /\ ListInv(t)' /\ NewFile(t)' /\ NewArea(t)' /\ AllListed(t)'
      <3>1. WritesFile(t)
        <4>1. /\ max_ulp_id'[t] \in Nat /\ max_ulp_id'[t] >= max_ulp_id[t]
              /\ meta'[file[t]].id <= max_ulp_id'[t]
          BY <1>1, <1>3, <1>4, <1>8, <2>1
        <4>2. QED
          BY <1>4, <2>1, <2>2, <4>1, Zenon DEF WritesFile
      <3>2. OthersKept(t) /\ ListInv(t)' /\ NewFile(t)' /\ NewArea(t)' /\ AllListed(t)'
        BY <1>2, <3>1, FileWritten
      <3>3. QED
        BY <3>2 DEF OthersKept
    <2>4. \A s \in Mapped : Id(s)' = Id(s) /\ At(s)' = At(s)
      BY <1>1, <1>4, <2>1, Zenon DEF Id, At, Mapped
    <2>5. \A s \in Mapped : s # base[t] => Saved(s)' = Saved(s)
      BY <2>3, <1>4 DEF Saved
    <2>6. \A s \in Mapped : s = base[t] =>
            /\ Id(s) = max_ulp_id[t] /\ At(s) = DstAddr[obj[t]]
            /\ Saved(s)' = <<text[DstAddr[obj[t]]], text[DstAddr[obj[t]] + 1]>>
      <3>1. \A s \in Mapped : s = base[t] => Id(s) = max_ulp_id[t] /\ At(s) = DstAddr[obj[t]]
        BY <1>8, <1>9, Zenon DEF Id, At
      <3>2. \A s \in Mapped : s = base[t] => Saved(s)' = meta'[file[t]].orig
        BY <1>4, <1>9, Zenon DEF Saved
      <3>3. QED
        BY <2>1, <3>1, <3>2, Zenon
    <2>7. OneArea'
      BY <1>2, <1>4, <2>3, Zenon DEF AreasInv, OneArea
    <2>8. IdAddr'
      <3>1. \A s \in Mapped : s = base[t] => Id(s) # 0 /\ At(s) # NULL
        BY <1>3, <1>8, <2>6, ConstantsAssumption
      <3>2. QED
        BY <1>2, <2>3, <2>4, <2>5, <3>1 DEF AreasInv, IdAddr
    <2>9. JumpInv'
      BY <1>2, <1>4, <2>3, <2>4 DEF AreasInv, JumpInv
    <2>10. SavedInv'
      <3>1. ASSUME NEW s \in Mapped, NEW k \in {1, 2}, NEW w \in Slot, Saved(s)'[k] = w
            PROVE  w \in Mapped /\ At(w) # NULL /\ Id(w) < Id(s) /\ At(s) + k = At(w) + 2
        <4>1. CASE s = base[t]
          <5>1. PICK a \in Addr : text[a] = w /\ a + 1 = DstAddr[obj[t]] + k
            BY <3>1, <4>1, <2>6, <1>3
          <5>2. w \in Mapped /\ At(w) # NULL /\ a = At(w) + 1
            BY <5>1, <1>2, Zenon DEF AreasInv, JumpInv
          <5>3. w # base[t]
            BY <4>1, <5>1, <1>9
          <5>4. At(w) \in Nat
            <6>1. At(w) \in Addr \cup {NULL} /\ At(w) # NULL
              BY <5>2, <1>1, Zenon DEF At, Mapped, Meta
            <6>2. QED
              BY <6>1, ConstantsAssumption, Zenon
          <5>5. QED
            BY <4>1, <5>1, <5>2, <5>3, <5>4, <2>6, <1>3, <1>8
        <4>2. CASE s # base[t]
          BY <3>1, <4>2, <2>5, <1>2, Zenon DEF AreasInv, SavedInv
        <4>3. QED
          BY <4>1, <4>2, Zenon
      <3>2. QED
        BY <2>3, <2>4, <3>1 DEF SavedInv
    <2>11. UniquePatches'
      <3>1. \A s \in Mapped : vmas[s] \in File
        BY <1>1 DEF Mapped
      <3>2. UniquePatches
        BY <1>2 DEF AreasInv
      <3>3. \A s \in Mapped : /\ meta'[vmas[s]].id = meta[vmas[s]].id
                               /\ meta'[vmas[s]].obj = meta[vmas[s]].obj
        BY <2>1, <3>1, Zenon
      <3>4. QED
        BY <1>4, <2>3, <3>2, <3>3 DEF UniquePatches, Patched
    <2>12. AreasInv'
      BY <2>7, <2>8, <2>9, <2>10, <2>11 DEF AreasInv
    <2>13. QED
      <3>1. /\ meta'[file[t]].id = max_ulp_id'[t] /\ meta'[file[t]].id # 0
            /\ meta'[file[t]].addr = DstAddr[obj[t]]
            /\ meta'[file[t]].obj = obj[t]
        BY <1>3, <1>4, <1>8, <2>1, Zenon
      <3>2. \A s \in Mapped' : s # base'[t] => Id(s)' < max_ulp_id'[t]
        BY <1>4, <1>8, <2>3, <2>4, Zenon
      <3>3. QED
        BY <1>4, <1>6, <2>3, <2>12, <3>1, <3>2, Zenon DEF SessionInv
  <1>7. QED
    BY <1>1, <1>5, <1>6 DEF BackupOrigCode, Goto

LEMMA CopyPatchSafe ==
    ASSUME SafeInv, NEW t \in Tool, CopyPatch(t)
    PROVE  AreasInv' /\ SessionInv(t)'
  <1>1. pc \in [Tool -> Label] /\ meta \in [File -> Meta]
    BY DEF SafeInv, TypeInv, TypeOK
  <1>2. /\ AllListed(t) /\ NewArea(t) /\ ListInv(t) /\ AreasInv
        /\ base[t] \in Mapped => vmas[base[t]] = file[t]
    BY Solved, Zenon DEF CopyPatch
  <1>3. meta' = meta
    BY <1>1, <1>2 DEF CopyPatch
  <1>4. /\ text' = text /\ vmas' = vmas /\ file' = file /\ areas' = areas
        /\ ulps' = ulps /\ max_ulp_id' = max_ulp_id /\ obj' = obj /\ base' = base
    BY DEF CopyPatch, session
  <1>5. AreasInv'
    BY <1>2, <1>3, <1>4, AreasKept, Zenon
  <1>6. SessionInv(t) /\ pc[t] = "copy" /\ pc'[t] \in {"kick", "unmap"}
    BY <1>1 DEF SafeInv, CopyPatch, Goto
  <1>7. Mapped' = Mapped /\ Listed(t)' = Listed(t) /\ \A s \in Slot : Id(s)' = Id(s) /\ Saved(s)' = Saved(s)
    BY <1>3, <1>4 DEF Mapped, Listed, Id, Saved
  <1>8. ListInv(t)'
    BY <1>2, <1>3, <1>4, <1>7, Zenon DEF ListInv, Mapped
  <1>9. NewArea(t)'
    BY <1>2, <1>4, <1>7, Zenon DEF NewArea, Mapped
  <1>10. AllListed(t)' /\ NewFile(t)'
    BY <1>2, <1>4, <1>6, <1>7, Zenon DEF AllListed, NewFile, SessionInv, Fresh
  <1>11. \A s \in Mapped' : s # base'[t] => Id(s)' < max_ulp_id'[t]
    BY <1>4, <1>6, <1>7, Zenon DEF SessionInv, Mapped
  <1>13. /\ meta'[file'[t]].id = max_ulp_id'[t] /\ meta'[file'[t]].id # 0
         /\ meta'[file'[t]].addr = DstAddr[obj'[t]]
         /\ meta'[file'[t]].obj = obj'[t]
    BY <1>3, <1>4, <1>6, Zenon DEF SessionInv, Fresh
  <1>12. CASE pc'[t] = "kick"
    BY <1>5, <1>8, <1>9, <1>10, <1>11, <1>12, <1>13, Zenon DEF SessionInv
  <1>14. CASE pc'[t] = "unmap"
    BY <1>5, <1>8, <1>9, <1>10, <1>14, Zenon DEF SessionInv
  <1>15. QED
    BY <1>6, <1>12, <1>14

-----------------------------------------------------------------------------
LEMMA KickTargetSafe ==
    ASSUME SafeInv, NEW t \in Tool, KickTarget(t)
    PROVE  AreasInv' /\ SessionInv(t)'
  <1>1. /\ pc \in [Tool -> Label]
        /\ text \in [Addr -> Word]
        /\ meta \in [File -> Meta]
        /\ vmas \in [Slot -> File \cup {NULL}]
    BY Zenon DEF SafeInv, TypeInv, TypeOK
  <1>2. base[t] \in Slot
    BY DEF SafeInv, TypeInv, Has, KickTarget
  <1>3. /\ NewArea(t) /\ ListInv(t) /\ AreasInv
        /\ DstAddr[obj[t]] \in Addr /\ DstAddr[obj[t]] + 1 \in Addr
        /\ DstAddr[obj[t]] \in Nat /\ file[t] \in File
        /\ meta[file[t]].id # 0 /\ meta[file[t]].addr = DstAddr[obj[t]]
    BY Solved, Zenon DEF KickTarget
  <1>4. /\ vmas' = vmas /\ meta' = meta /\ file' = file /\ areas' = areas
        /\ ulps' = ulps /\ max_ulp_id' = max_ulp_id /\ base' = base
    BY Zenon DEF KickTarget, session
  <1>5. /\ vmas[base[t]] = file[t] /\ base[t] \in Mapped
        /\ At(base[t]) # NULL /\ At(base[t]) = DstAddr[obj[t]]
    BY <1>2, <1>3, ConstantsAssumption, Zenon DEF NewArea, Mapped, Id, At
  <1>6. <<"jmp", base[t]>> \in Word \X Word
    BY <1>2 DEF Word
  <1>7. AreasInv'
    <2>1. \/ WriteWords(DstAddr[obj[t]], <<"jmp", base[t]>>)
          \/ WriteFails(DstAddr[obj[t]], <<"jmp", base[t]>>)
      BY DEF KickTarget
    <2>2. \A k \in {1, 2} : \A s \in Slot :
            <<"jmp", base[t]>>[k] = s =>
              s \in Mapped /\ At(s) # NULL /\ DstAddr[obj[t]] + k = At(s) + 2
      BY <1>3, <1>5, ConstantsAssumption
    <2>3. QED
      BY <1>1, <1>3, <1>4, <1>6, <2>1, <2>2, AreasWrite, Zenon
  <1>8. Mapped' = Mapped /\ Listed(t)' = Listed(t) /\ \A s \in Slot : Id(s)' = Id(s) /\ Saved(s)' = Saved(s)
    BY <1>4 DEF Mapped, Listed, Id, Saved
  <1>9. ListInv(t)'
    BY <1>3, <1>4, <1>8, Zenon DEF ListInv, Mapped
  <1>10. CASE pc'[t] \in {"delete", "close"}
    BY <1>7, <1>9, <1>10, Zenon DEF SessionInv, Fresh, Loading
  <1>11. CASE WriteFails(DstAddr[obj[t]], <<"jmp", base[t]>>) /\ pc'[t] = "unmap"
    <2>1. \A a \in Addr : text'[a] \in {text[a], "jmp", "torn"}
      BY <1>1, <1>3, <1>11, Zenon DEF WriteFails, WriteWords
    <2>2. \A a \in Addr : text'[a] # base[t]
      BY <2>1, <1>2, <1>3, ConstantsAssumption, Zenon DEF NewArea
    <2>3. NewArea(t)'
      BY <2>2, <1>3, <1>4, <1>8, Zenon DEF NewArea, Mapped
    <2>4. NewFile(t)'
      <3>1. SessionInv(t) /\ pc[t] = "kick"
        BY Zenon DEF SafeInv, KickTarget
      <3>2. NewFile(t)
        BY <3>1, Zenon DEF SessionInv, Fresh
      <3>3. QED
        BY <1>4, <1>8, <3>2, Zenon DEF NewFile
    <2>5. QED
      BY <1>7, <1>9, <1>11, <2>3, <2>4 DEF SessionInv, Loading
  <1>12. QED
    BY <1>1, <1>10, <1>11 DEF KickTarget, Goto

LEMMA DeleteMmapVmaFileSafe ==
    ASSUME SafeInv, NEW t \in Tool, DeleteMmapVmaFile(t)
    PROVE  AreasInv' /\ SessionInv(t)'
  <1>1. pc \in [Tool -> Label] /\ vmas \in [Slot -> File \cup {NULL}]
    BY Zenon DEF SafeInv, TypeInv, TypeOK
  <1>0. SessionInv(t) /\ pc[t] = "unmap" /\ AreasInv
    BY DEF SafeInv, AreasInv, DeleteMmapVmaFile
  <1>2. NewArea(t) /\ ListInv(t) /\ NewFile(t) /\ AreasInv
    BY <1>0, Zenon DEF SessionInv, Fresh, Current, Label
  <1>3. /\ text' = text /\ meta' = meta /\ areas' = areas
        /\ ulps' = ulps /\ max_ulp_id' = max_ulp_id /\ pc'[t] = "err"
    BY <1>1 DEF DeleteMmapVmaFile, Goto
  <1>4. Listed(t)' = Listed(t) /\ Listed(t) \subseteq Mapped
    BY <1>2, <1>3, ListedMapped DEF Listed
  <1>5. CASE vmas' = vmas
    <2>1. AreasInv'
      BY <1>2, <1>3, <1>5, AreasKept
    <2>2. ListInv(t)'
      BY <1>2, <1>3, <1>4, <1>5, Zenon DEF ListInv, Mapped, Id
    <2>3. QED
      BY <1>3, <2>1, <2>2, Zenon DEF SessionInv, Loading, Fresh
  <1>6. CASE base[t] \in Slot /\ vmas' = [vmas EXCEPT ![base[t]] = NULL]
    <2>1. /\ vmas[base[t]] = file[t] /\ \A a \in Addr : text[a] # base[t]
          /\ \A s \in Mapped : \A k \in {1, 2} : Saved(s)[k] # base[t]
      BY <1>2, <1>6, ConstantsAssumption, Zenon DEF NewArea
    <2>2. AreasInv'
      BY <1>1, <1>2, <1>3, <1>6, <2>1, AreasUnmap, Zenon
    <2>3. \A s \in Listed(t) : s # base[t]
      BY <1>2, <2>1 DEF ListInv, NewFile
    <2>4. Mapped' = Mapped \ {base[t]} /\ \A s \in Mapped' : Id(s)' = Id(s)
      BY <1>1, <1>3, <1>6, Zenon DEF Mapped, Id
    <2>5. ListInv(t)'
      BY <1>1, <1>2, <1>3, <1>4, <1>6, <2>3, <2>4 DEF ListInv, Mapped
    <2>6. QED
      BY <1>3, <2>2, <2>5, Zenon DEF SessionInv, Loading, Fresh
  <1>7. QED
    BY <1>5, <1>6 DEF DeleteMmapVmaFile

(* The content that Forget() drops belongs to no area.                     *)
LEMMA ForgetKeeps ==
    ASSUME NEW f, Forget(f), vmas \in [Slot -> File \cup {NULL}], meta \in [File -> Meta]
    PROVE  \A s \in Mapped : meta'[vmas[s]] = meta[vmas[s]]
  BY DEF Forget, Mapped

LEMMA RemoveUlpFileSafe ==
    ASSUME SafeInv, NEW t \in Tool, RemoveUlpFile(t)
    PROVE  AreasInv' /\ SessionInv(t)'
  <1>1. /\ pc \in [Tool -> Label] /\ vmas \in [Slot -> File \cup {NULL}]
        /\ meta \in [File -> Meta]
    BY DEF SafeInv, TypeInv, TypeOK
  <1>2. ListInv(t) /\ AreasInv
    BY Zenon DEF SafeInv, AreasInv, SessionInv, RemoveUlpFile, Current, Label
  <1>3. \A s \in Mapped : meta'[vmas[s]] = meta[vmas[s]]
    BY <1>1, ForgetKeeps, Zenon DEF RemoveUlpFile
  <1>4. /\ text' = text /\ vmas' = vmas /\ areas' = areas /\ ulps' = ulps
        /\ max_ulp_id' = max_ulp_id /\ pc'[t] \in {"delete", "close"}
    BY <1>1 DEF RemoveUlpFile, Goto, session
  <1>5. AreasInv'
    BY <1>2, <1>3, <1>4, AreasKept, Zenon
  <1>6. Listed(t)' = Listed(t) /\ Listed(t) \subseteq Mapped /\ Mapped' = Mapped
    BY <1>2, <1>4, ListedMapped DEF Listed, Mapped
  <1>7. ListInv(t)'
    BY <1>2, <1>3, <1>4, <1>6 DEF ListInv, Id
  <1>8. QED
    BY <1>4, <1>5, <1>7, Zenon DEF SessionInv, Loading, Fresh

LEMMA RestoreOrigCodeSafe ==
    ASSUME SafeInv, NEW t \in Tool, RestoreOrigCode(t)
    PROVE  AreasInv' /\ SessionInv(t)'
  <1>1. /\ pc \in [Tool -> Label]
        /\ base \in [Tool -> Slot \cup {NULL}]
        /\ text \in [Addr -> Word]
        /\ meta \in [File -> Meta]
        /\ vmas \in [Slot -> File \cup {NULL}]
    BY DEF SafeInv, TypeInv, TypeOK
  <1>2. ListInv(t) /\ AreasInv
    BY Zenon DEF SafeInv, AreasInv, SessionInv, RestoreOrigCode, Current, Label
  <1>3. /\ vmas' = vmas /\ meta' = meta /\ areas' = areas /\ ulps' = ulps
        /\ max_ulp_id' = max_ulp_id
    BY DEF RestoreOrigCode
  <1>4. PICK s \in LastUlps(t) : Restored(t, s) \/ NotRestored(t, s)
    BY DEF RestoreOrigCode
  <1>5. s \in Listed(t) /\ s \in Mapped /\ s \in Slot
    BY <1>2, <1>4, ListedMapped DEF LastUlps, Listed
  <1>6. /\ ulps[t][s].addr = At(s) /\ ulps[t][s].orig = Saved(s)
        /\ Id(s) = max_ulp_id[t]
    BY <1>2, <1>4, <1>5, Zenon DEF ListInv, LastUlps, At, Saved, Id
  <1>7. At(s) \in Addr \cup {NULL} /\ Saved(s) \in Word \X Word /\ Id(s) \in Nat
    BY <1>1, <1>5 DEF At, Saved, Id, Mapped, Meta
  <1>8. \A k \in {1, 2} : \A w \in Slot :
          Saved(s)[k] = w => w \in Mapped /\ At(w) # NULL /\ At(s) + k = At(w) + 2
    BY <1>2, <1>5 DEF AreasInv, SavedInv
  <1>9. Mapped' = Mapped /\ Listed(t)' = Listed(t) /\ \A r \in Slot : Id(r)' = Id(r)
    BY <1>3 DEF Mapped, Listed, Id
  <1>10. ListInv(t)'
    BY <1>2, <1>3, <1>9, Zenon DEF ListInv, Mapped
  <1>11. CASE NotRestored(t, s)
    <2>1. AreasInv'
      <3>1. CASE At(s) = NULL
        BY <1>2, <1>3, <1>6, <1>11, <3>1, AreasKept DEF NotRestored
      <3>2. CASE At(s) # NULL
        <4>1. WriteFails(At(s), Saved(s)) /\ At(s) \in Addr
          BY <1>6, <1>7, <1>11, <3>2 DEF NotRestored
        <4>2. QED
          BY <1>1, <1>2, <1>3, <1>7, <1>8, <4>1, AreasWrite, Zenon
      <3>3. QED
        BY <3>1, <3>2, Zenon
    <2>2. pc'[t] = "close"
      BY <1>1, <1>11, Zenon DEF NotRestored, Goto
    <2>3. QED
      BY <2>1, <2>2, IdleSession
  <1>12. CASE Restored(t, s)
    <2>1. WriteWords(At(s), Saved(s)) /\ At(s) \in Addr /\ At(s) \in Nat
      BY <1>6, <1>7, <1>12, ConstantsAssumption, Zenon DEF Restored
    <2>2. AreasInv'
      BY <1>1, <1>2, <1>3, <1>7, <1>8, <2>1, AreasWrite
    <2>3. pc'[t] = "munmap" /\ base'[t] = s
      BY <1>1, <1>12, Zenon DEF Restored, Goto
    <2>4. \A a \in Addr : text'[a] # s
      <3>1. SUFFICES ASSUME NEW a \in Addr, text'[a] = s PROVE FALSE
        OBVIOUS
      <3>2. a = At(s) + 1
        <4>1. a = At(s)' + 1
          BY <3>1, <2>2, <1>5, Zenon DEF AreasInv, JumpInv
        <4>2. QED
          BY <4>1, <1>3 DEF At
      <3>3. text'[a] = Saved(s)[2]
        BY <1>1, <2>1, <3>2 DEF WriteWords
      <3>4. Id(s) < Id(s)
        BY <3>1, <3>3, <1>2, <1>5 DEF AreasInv, SavedInv
      <3>5. QED
        BY <3>4, <1>7
    <2>5. Id(s)' = max_ulp_id'[t] /\ s \in Listed(t)'
      BY <1>3, <1>5, <1>6, <1>9, Zenon
    <2>6. Id(base[t])' = max_ulp_id'[t]
      BY <2>3, <2>5, Zenon DEF Id
    <2>7. QED
      BY <1>10, <2>2, <2>3, <2>4, <2>5, <2>6, Zenon DEF SessionInv, Loading, Fresh
  <1>13. QED
    BY <1>4, <1>11, <1>12

LEMMA MunmapUlpSafe ==
    ASSUME SafeInv, NEW t \in Tool, MunmapUlp(t)
    PROVE  AreasInv' /\ SessionInv(t)'
  <1>1. /\ pc \in [Tool -> Label] /\ vmas \in [Slot -> File \cup {NULL}]
        /\ meta \in [File -> Meta] /\ max_ulp_id[t] \in Nat
    BY DEF SafeInv, TypeInv, TypeOK
  <1>2. ListInv(t) /\ AreasInv
    BY Zenon DEF SafeInv, AreasInv, SessionInv, MunmapUlp, Current, Label
  <1>3. /\ base[t] \in Listed(t) /\ Id(base[t]) = max_ulp_id[t]
        /\ \A a \in Addr : text[a] # base[t]
    BY Zenon DEF SafeInv, SessionInv, MunmapUlp
  <1>4. text' = text /\ meta' = meta
    BY DEF MunmapUlp
  <1>5. pc'[t] \in {"unlink", "close"}
    BY <1>1 DEF MunmapUlp, Goto
  <1>6. SessionInv(t)'
    BY <1>5, IdleSession, Zenon
  <1>7. \A s \in Mapped : \A k \in {1, 2} : Saved(s)[k] # base[t]
    <2>1. SUFFICES ASSUME NEW s \in Mapped, NEW k \in {1, 2}, Saved(s)[k] = base[t]
                   PROVE  FALSE
      BY Zenon
    <2>2. Id(base[t]) < Id(s)
      BY <2>1, <1>2, <1>3 DEF AreasInv, SavedInv, Listed
    <2>3. Id(s) <= max_ulp_id[t] /\ Id(s) \in Nat
      BY <1>1, <1>2, Zenon DEF ListInv, Id, Mapped, Meta
    <2>4. QED
      BY <2>2, <2>3, <1>1, <1>3
  <1>8. CASE vmas' = vmas
    BY <1>2, <1>4, <1>6, <1>8, AreasKept
  <1>9. CASE vmas' = [vmas EXCEPT ![base[t]] = NULL]
    <2>1. base[t] \in Slot
      BY <1>3 DEF Listed
    <2>2. QED
      BY <1>1, <1>2, <1>3, <1>4, <1>6, <1>7, <1>9, <2>1, AreasUnmap, Zenon
  <1>10. QED
    BY <1>8, <1>9 DEF MunmapUlp

LEMMA LastStepsSafe ==
    ASSUME SafeInv, NEW t \in Tool,
           NothingToDelete(t) \/ UnlinkPatchFile(t) \/ CloseTask(t) \/ Crash(t)
    PROVE  AreasInv' /\ SessionInv(t)'
  <1>1. /\ pc \in [Tool -> Label] /\ vmas \in [Slot -> File \cup {NULL}]
        /\ meta \in [File -> Meta] /\ base \in [Tool -> Slot \cup {NULL}]
    BY Zenon DEF SafeInv, TypeInv, TypeOK
  <1>2. text' = text /\ vmas' = vmas
    BY DEF NothingToDelete, target, UnlinkPatchFile, CloseTask, Crash
  <1>3. \A s \in Mapped : meta'[vmas[s]] = meta[vmas[s]]
    <2>1. meta' = meta \/ Forget(file[t])
      BY DEF NothingToDelete, target, UnlinkPatchFile, CloseTask, Crash
    <2>2. QED
      BY <1>1, <2>1, ForgetKeeps, Zenon
  <1>4. AreasInv'
    BY <1>2, <1>3, AreasKept, Zenon DEF SafeInv, AreasInv
  <1>5. \/ pc'[t] = "close"
        \/ pc'[t] = "idle" /\ base'[t] = NULL
    BY <1>1, Zenon DEF NothingToDelete, UnlinkPatchFile, CloseTask, Crash, EndSession, Goto
  <1>6. QED
    BY <1>4, <1>5, IdleSession

LEMMA SafeStep == Exclusive /\ SafeInv /\ [Next]_vars => SafeInv'
  <1> SUFFICES ASSUME Exclusive, SafeInv, [Next]_vars PROVE SafeInv'
    OBVIOUS
  <1>1. TypeInv'
    BY TypeStep, Zenon DEF SafeInv
  <1>2. CASE UNCHANGED vars
    <2>1. AreasInv'
      <3>1. text' = text /\ vmas' = vmas /\ meta' = meta /\ AreasInv
        BY <1>2 DEF vars, target, SafeInv, AreasInv
      <3>2. QED
        BY <3>1, AreasKept
    <2>2. ASSUME NEW t \in Tool PROVE SessionInv(t)'
      <3>1. /\ text' = text /\ vmas' = vmas /\ meta' = meta /\ pc' = pc
            /\ obj' = obj /\ file' = file /\ base' = base /\ areas' = areas
            /\ ulps' = ulps /\ max_ulp_id' = max_ulp_id
        BY <1>2 DEF vars, target, session
      <3>2. Listed(t)' = Listed(t) /\ Mapped' = Mapped
        BY <3>1, Zenon DEF Listed, Mapped
      <3>3. /\ ListInv(t)' = ListInv(t)
            /\ AllListed(t)' = AllListed(t)
            /\ NewFile(t)' = NewFile(t)
            /\ NewArea(t)' = NewArea(t)
        BY <3>1, <3>2 DEF ListInv, AllListed, NewFile, NewArea, Id, Saved
      <3>4. SessionInv(t)
        BY DEF SafeInv
      <3>5. Id(base[t])' = Id(base[t])
        BY <3>1 DEF Id
      <3>6. \A s : Id(s)' = Id(s)
        BY <3>1 DEF Id
      <3>7. QED
        BY <3>1, <3>2, <3>3, <3>4, <3>5, <3>6, Zenon DEF SessionInv
    <2>3. OneSession'
      BY <1>2 DEF SafeInv, vars, OneSession
    <2>4. QED
      BY <1>1, <2>1, <2>2, <2>3 DEF SafeInv, AreasInv
  <1>3. ASSUME NEW t \in Tool, OpenTask(t) \/ Step(t) \/ Crash(t)
        PROVE  SafeInv'
    <2>1. AreasInv' /\ SessionInv(t)'
      BY <1>3, OpenTaskSafe, AllocPatchFileSafe, CreateMmapVmaFileSafe,
         LoadPatchSafe, SolvePatchSymbolsSafe, PublishAddrSafe, BackupOrigCodeSafe,
         CopyPatchSafe, KickTargetSafe, DeleteMmapVmaFileSafe,
         RemoveUlpFileSafe, RestoreOrigCodeSafe, MunmapUlpSafe, LastStepsSafe, Zenon
         DEF Step
    <2>2. \A u \in Tool : u # t => pc'[u] = "idle" /\ base'[u] = NULL
      BY <1>3, Alone
    <2>3. \A u \in Tool : SessionInv(u)'
      BY <2>1, <2>2, IdleSession
    <2>4. OneSession'
      BY <2>2, Zenon DEF OneSession
    <2>5. QED
      BY <1>1, <2>1, <2>3, <2>4 DEF SafeInv, AreasInv
  <1>4. QED
    BY <1>2, <1>3 DEF Next

LEMMA InitSafe == Init => SafeInv
  <1> SUFFICES ASSUME Init PROVE SafeInv
    OBVIOUS
  <1>1. Mapped = {}
    BY Zenon DEF Init, NoAreas, Mapped
  <1>2. \A a \in Addr : \A s \in Slot : text[a] # s
    BY ConstantsAssumption DEF Init
  <1>3. \A t \in Tool : pc[t] = "idle" /\ base[t] = NULL
    BY Zenon DEF Init
  <1>4. \A t \in Tool : SessionInv(t)
    BY <1>3, Zenon DEF SessionInv, Current, Loading, Fresh
  <1>5. TypeInv
    BY InitType
  <1>6. QED
    BY <1>1, <1>2, <1>3, <1>4, <1>5 DEF SafeInv, OneSession, OneArea, IdAddr,
       JumpInv, SavedInv, UniquePatches, Patched

LEMMA SafeInvariant == Exclusive => (Spec => []SafeInv)
  <1> SUFFICES ASSUME Exclusive PROVE Spec => []SafeInv
    OBVIOUS
  <1>1. SafeInv /\ [Next]_vars => SafeInv'
    BY SafeStep
  <1>2. QED
    BY <1>1, InitSafe, PTL DEF Spec

(* When sessions on the target do not overlap, no function entry jumps to  *)
(* an area that delete_patch() or delete_mmap_vma_file() unmapped, however *)
(* many patches are stacked and wherever tools are killed and remote calls *)
(* or writes of /proc/PID/mem fail or are cut short.                       *)
THEOREM NoDanglingJump == Exclusive => (Spec => []JumpsMapped)
  <1>1. SafeInv => JumpsMapped
    BY DEF SafeInv, JumpInv, JumpsMapped
  <1>2. QED
    BY <1>1, SafeInvariant, PTL

(* Under the same condition the code that delete_patch() will write back   *)
(* jumps to no area but mapped ones with a smaller id.                     *)
THEOREM SavedCodeOlder == Exclusive => (Spec => []BackupsOlder)
  <1>3. SavedInv => BackupsOlder
    BY Zenon DEF SavedInv, BackupsOlder, Saved, Id
  <1>1. SafeInv => BackupsOlder
    BY <1>3 DEF SafeInv
  <1>2. QED
    BY <1>1, SafeInvariant, PTL

(* Under the same condition the id and the Build ID of a patch are its     *)
(* own: load_patch()'s check and ++max_ulp_id are enough.                  *)
THEOREM PatchesDiffer == Exclusive => (Spec => []UniquePatches)
  <1>1. SafeInv => UniquePatches
    BY DEF SafeInv
  <1>2. QED
    BY <1>1, SafeInvariant, PTL

=============================================================================
