-------------------------- MODULE LoadObjectProofs --------------------------
(***************************************************************************)
(* Proofs about LoadObject, for any word length, any objects and any       *)
(* failures.                                                               *)
(***************************************************************************)
EXTENDS LoadObject, WellFoundedInduction, TLAPS

(* The address of symbol k of the object in the target.                    *)
Addr(k) == Final(obj.syms[k])

Based(k) == sec[k].addr = Wrap(env.target + obj.secs[k].off)

Relocated == \A k \in DOMAIN sym \ {0} : sym[k].value = Addr(k)

(* Nothing failed until here, and the symbols have their final values.     *)
Linked == pc \in {"apply", "rela", "solve", "kick", "done", "read"} \/ (pc = "free" /\ err = "OK")

(* Two headers are the same but for the address and SHF_ALLOC.             *)
Alike(g, h) == g.name = h.name /\ g.type = h.type /\ g.off = h.off /\ g.size = h.size

(* The constants, and what the rewriting of the image never changes.       *)
ImageInv ==
    /\ 2^Long \in Nat \ {0}
    /\ Loadable(env)
    /\ sec \in [DOMAIN obj.secs -> Header]
    /\ \A k \in DOMAIN sec : Alike(sec[k], obj.secs[k])
    /\ sym \in [DOMAIN obj.syms -> Symbol]
    /\ \A k \in DOMAIN sym : sym[k].name = obj.syms[k].name /\ sym[k].ndx = obj.syms[k].ndx

(* How far the loops over the sections and the symbols are.                *)
LoopInv ==
    /\ i \in Nat
    /\ pc \in {"alloc", "chown", "mmap", "setup", "dup", "rewrite"} => sym = obj.syms
    /\ pc = "rewrite" => i >= 1 /\ \A k \in DOMAIN sec \ {0} : k < i => Based(k)
    /\ pc = "simplify" =>
          /\ i >= 1
          /\ \A k \in DOMAIN sec \ {0} : Based(k)
          /\ \A k \in DOMAIN sym :
                IF k = 0 \/ k >= i THEN sym[k] = obj.syms[k] ELSE sym[k].value = Addr(k)
    /\ Linked => Relocated

(* What setup_load_info() and load_patch() checked.                        *)
SetupInv ==
    /\ pc = "dup" => SetupBefore = "OK" /\ info.bid = BuildId
    /\ pc \in {"rewrite", "simplify"} \/ Linked => SetupBefore = "OK" /\ obj.bid \notin env.ulps

(* What was found well formed so far.                                      *)
FormInv ==
    /\ pc \in {"chown", "mmap"} => obj.exists /\ obj.long /\ obj.elf /\ (info.path => obj.fits)
    /\ pc \in {"setup", "dup", "rewrite", "simplify"} \/ Linked \/ target.jump # 0 => FileFormed
    /\ pc \in {"dup", "rewrite", "simplify"} \/ Linked \/ target.jump # 0 => PatchFormed
    /\ pc = "rewrite" =>
          \A k \in DOMAIN obj.secs \ {0} : k < i => SectionFormed(obj.secs[k])
    /\ pc = "simplify" \/ Linked \/ target.jump # 0 =>
          \A k \in DOMAIN obj.secs \ {0} : SectionFormed(obj.secs[k])

PatchAddr(a) ==
    \E k \in DOMAIN obj.syms :
        /\ obj.syms[k].name = obj.src
        /\ \A j \in DOMAIN obj.syms : obj.syms[j].name = obj.src => j <= k
        /\ a = Addr(k)

(* What the target holds at each point.                                    *)
TargetInv ==
    /\ target \in [area : BOOLEAN, file : BOOLEAN, jump : Int]
    /\ info \in [mmap : BOOLEAN, path : BOOLEAN, name : BOOLEAN, bid : {None, obj.bid}]
    /\ pc \in {"alloc", "chown", "mmap", "remove", "failed"} => ~target.area
    /\ pc \in {"chown", "mmap"} => target.file
    /\ pc = "failed" => ~target.file
    /\ pc \notin {"alloc", "chown", "mmap", "remove", "failed", "crashed"} =>
          target.area /\ target.file
    /\ target.jump # 0 => pc \in {"done", "read", "crashed"} \/ (pc = "free" /\ err = "OK")
    /\ pc = "kick" => ulp.patch \in Int /\ PatchAddr(ulp.patch)

LoadInv ==
    /\ ImageInv /\ LoopInv /\ SetupInv /\ FormInv /\ TargetInv
    /\ JumpToPatch /\ ReadBackExact

-----------------------------------------------------------------------------
(* Arithmetic: quotient and remainder, and Wrap() of a sum.                *)

LEMMA DivMod ==
    ASSUME NEW m \in Nat \ {0}, NEW a \in Int
    PROVE  /\ a = m * (a \div m) + (a % m)
           /\ a \div m \in Int /\ a % m \in 0..(m - 1)
  OBVIOUS

LEMMA ModIs ==
    ASSUME NEW m \in Nat \ {0}, NEW c \in Int, NEW k \in Int, NEW z \in 0..(m - 1),
           c = m * k + z
    PROVE  c % m = z
  OBVIOUS

LEMMA ModOfSum ==
    ASSUME NEW m \in Nat \ {0}, NEW a \in Int, NEW b \in Int
    PROVE  (a + (b % m)) % m = (b + a) % m
  <1> DEFINE q == b \div m
             u == b % m
             x == (a + u) \div m
             y == (a + u) % m
  <1>1. q \in Int /\ u \in 0..(m - 1) /\ b = m * q + u
    BY DivMod
  <1> HIDE DEF q, u
  <1>2. x \in Int /\ y \in 0..(m - 1) /\ a + u = m * x + y
    <2>1. a + u \in Int
      BY <1>1
    <2>2. QED
      BY <2>1, DivMod, Zenon
  <1> HIDE DEF x
  <1>3. b + a = m * (x + q) + y
    BY <1>1, <1>2
  <1>4. (b + a) % m = y
    <2> HIDE DEF y
    <2>1. x + q \in Int /\ b + a \in Int
      BY <1>1, <1>2
    <2>2. QED
      BY <2>1, <1>2, <1>3, ModIs, Zenon
  <1>5. QED
    BY <1>4 DEF u

LEMMA WrapInt ==
    ASSUME 2^Long \in Nat \ {0}, NEW x \in Int
    PROVE  Wrap(x) \in Int
  <1>1. x % 2^Long \in 0..(2^Long - 1)
    BY DivMod, Zenon
  <1>2. QED
    BY <1>1 DEF Wrap

LEMMA WrapOfSum ==
    ASSUME 2^Long \in Nat \ {0}, NEW a \in Int, NEW b \in Int
    PROVE  Wrap(a + Wrap(b)) = Wrap(b + a)
  BY ModOfSum, Zenon DEF Wrap

-----------------------------------------------------------------------------
(* The least and the largest index of a set.                               *)

LEMMA LeastExists ==
    ASSUME NEW S, S \subseteq Nat, S # {}
    PROVE  \E x \in S : \A y \in S : x <= y
  <1>1. \E R : /\ IsWellFoundedOn(R, Nat)
               /\ \A x, y \in Nat : <<x, y>> \in R <=> x < y
    <2> DEFINE Q == OpToRel(<, Nat)
    <2>1. IsWellFoundedOn(Q, Nat)
      BY NatLessThanWellFounded
    <2>2. \A x, y \in Nat : <<x, y>> \in Q <=> x < y
      BY DEF OpToRel
    <2> HIDE DEF Q
    <2>3. QED
      BY <2>1, <2>2
  <1>2. PICK R : /\ IsWellFoundedOn(R, Nat)
                 /\ \A x, y \in Nat : <<x, y>> \in R <=> x < y
    BY <1>1
  <1>3. IsWellFoundedOn(R, Nat)
    BY <1>2
  <1>4. PICK x \in S : \A y \in S : ~(<<y, x>> \in R)
    BY <1>3, WFMin, Zenon
  <1>5. ASSUME NEW y \in S
        PROVE  x <= y
    <2>1. <<y, x>> \notin R
      BY <1>4
    <2>2. x \in Nat /\ y \in Nat
      OBVIOUS
    <2>3. ~(y < x)
      BY <1>2, <2>1, <2>2, Zenon
    <2>4. QED
      BY <2>2, <2>3
  <1>6. QED
    BY <1>5

LEMMA MinIsLeast ==
    ASSUME NEW S, S \subseteq Nat, S # {}
    PROVE  Min(S) \in S /\ \A y \in S : Min(S) <= y
  BY LeastExists, Zenon DEF Min

LEMMA MaxIsLargest ==
    ASSUME NEW n \in Nat, NEW S, S \subseteq 0..n, S # {}
    PROVE  Max(S) \in S /\ \A y \in S : y <= Max(S)
  <1> DEFINE T == {n - x : x \in S}
  <1>1. T \subseteq Nat /\ T # {}
    <2>1. T \subseteq Nat
      OBVIOUS
    <2>2. PICK x \in S : TRUE
      BY Zenon
    <2>3. n - x \in T
      OBVIOUS
    <2>4. QED
      BY <2>1, <2>3
  <1>2. PICK t \in T : \A u \in T : t <= u
    BY <1>1, LeastExists, Zenon
  <1>3. PICK x \in S : t = n - x
    OBVIOUS
  <1>4. ASSUME NEW y \in S PROVE x >= y
    <2>1. n - y \in T
      OBVIOUS
    <2>2. n - x <= n - y
      BY <1>2, <1>3, <2>1, Zenon
    <2>3. QED
      BY <2>2
  <1>5. Max(S) \in S /\ \A y \in S : Max(S) >= y
    BY <1>4, Zenon DEF Max
  <1>6. QED
    BY <1>5

-----------------------------------------------------------------------------
(* What depends on the case and the names and types of the sections only.  *)

LEMMA EnvSame ==
    ASSUME [Next]_vars
    PROVE  env' = env
  BY Zenon
     DEF Next, vars, NoImage, NoObject, AllocFails, AllocReleases, Alloc, Chown,
         CreateMmapVmaFile, SetupLoadInfo, CheckBuildId, RewriteSection, RewriteDone,
         SimplifySymbol, SimplifyDone, ApplySection, ApplyRela, RelaDone, ApplyDone,
         SolvePatchSymbols, KickTarget, FreeCopy, DeleteMmapVmaFile, RemoveUlpFile,
         ReadBack, Stop

LEMMA AddrSame ==
    ASSUME env' = env
    PROVE  \A k : Addr(k)' = Addr(k)
  BY DEF Addr, Final, obj

LEMMA SetupSame ==
    ASSUME env' = env, DOMAIN sec' = DOMAIN sec, DOMAIN sec \subseteq Nat,
           \A k \in DOMAIN sec : sec'[k].name = sec[k].name /\ sec'[k].type = sec[k].type
    PROVE  SetupBefore' = SetupBefore /\ BuildId' = BuildId
  <1>1. ASSUME NEW nm
        PROVE  FindSec(nm)' = FindSec(nm)
    <2>1. {k \in DOMAIN sec' : sec'[k].name = nm} = {k \in DOMAIN sec : sec[k].name = nm}
      OBVIOUS
    <2>2. QED
      BY <2>1, Zenon DEF FindSec
  <1>2. ASSUME NEW nm
        PROVE  FindSec(nm) # 0 => FindSec(nm) \in DOMAIN sec
    <2> DEFINE found == {k \in DOMAIN sec : sec[k].name = nm}
    <2>1. found # {} => Min(found) \in found
      BY MinIsLeast, Zenon
    <2>2. QED
      BY <2>1 DEF FindSec
  <1>3. FindSec(".note.gnu.build-id")' = FindSec(".note.gnu.build-id")
    BY <1>1
  <1>4. SetupBefore' = SetupBefore
    BY <1>1, <1>2, <1>3 DEF SetupBefore, obj
  <1>5. QED
    BY <1>4 DEF BuildId, obj

-----------------------------------------------------------------------------
(* The actions that leave sections and symbols alone.                      *)
OtherActions ==
    \/ NoObject \/ AllocFails \/ AllocReleases \/ Alloc \/ Chown \/ CreateMmapVmaFile
    \/ SetupLoadInfo \/ CheckBuildId \/ SimplifyDone
    \/ ApplySection \/ ApplyRela \/ RelaDone \/ ApplyDone
    \/ SolvePatchSymbols \/ KickTarget
    \/ FreeCopy \/ DeleteMmapVmaFile \/ RemoveUlpFile \/ ReadBack \/ Stop

LEMMA OthersKeepImage ==
    ASSUME OtherActions
    PROVE  env' = env /\ sec' = sec /\ sym' = sym
  BY Zenon
     DEF OtherActions, vars, NoImage, image, NoObject, AllocFails, AllocReleases, Alloc, Chown,
         CreateMmapVmaFile, SetupLoadInfo, CheckBuildId, SimplifyDone, ApplySection,
         ApplyRela, RelaDone, ApplyDone, SolvePatchSymbols, KickTarget, FreeCopy,
         DeleteMmapVmaFile, RemoveUlpFile, ReadBack, Stop

LEMMA CaseFacts ==
    ASSUME ImageInv
    PROVE  /\ env.target \in Int /\ obj.len \in Int
           /\ \E n \in Nat : DOMAIN obj.secs = 0..n
           /\ \E n \in Nat : DOMAIN obj.syms = 0..n
           /\ DOMAIN sec = DOMAIN obj.secs /\ DOMAIN sym = DOMAIN obj.syms
           /\ \A k \in DOMAIN sec : sec[k] \in Header /\ obj.secs[k] \in Header
           /\ \A k \in DOMAIN sym : sym[k] \in Symbol /\ obj.syms[k] \in Symbol
           /\ \A k \in DOMAIN sym :
                 /\ env.tsym[obj.syms[k].name] \in Int
                 /\ obj.syms[k].ndx \in DOMAIN sec \cup {SHN_ABS, SHN_COMMON}
           /\ obj.syms[0].ndx = SHN_UNDEF /\ obj.syms[0].name # obj.src
  BY Zenon DEF ImageInv, Loadable, IsTable, obj

SetAddr(h, a) == [h EXCEPT !.addr = a]
NotAlloc(h) == [h EXCEPT !.alloc = FALSE]
SetValue(s, a) == [s EXCEPT !.value = a]

LEMMA HeaderUpdate ==
    ASSUME NEW h \in Header, NEW a \in Int
    PROVE  SetAddr(h, a) \in Header /\ Alike(SetAddr(h, a), h) /\ SetAddr(h, a).addr = a
  BY DEF Header, SetAddr, Alike

LEMMA HeaderNotAlloc ==
    ASSUME NEW h \in Header
    PROVE  NotAlloc(h) \in Header /\ Alike(NotAlloc(h), h) /\ NotAlloc(h).addr = h.addr
  BY Zenon DEF Header, NotAlloc, Alike

LEMMA SymbolUpdate ==
    ASSUME NEW s \in Symbol, NEW a \in Int
    PROVE  /\ SetValue(s, a) \in Symbol
           /\ SetValue(s, a).name = s.name /\ SetValue(s, a).ndx = s.ndx
           /\ SetValue(s, a).value = a
  BY DEF Symbol, SetValue

LEMMA SimplifiedFacts ==
    ASSUME NEW s \in Symbol, 2^Long \in Nat \ {0}, Resolve(s.name) \in Int,
           s.ndx \notin {SHN_COMMON, SHN_ABS, SHN_UNDEF} => sec[s.ndx].addr \in Int
    PROVE  /\ Simplified(s) \in Symbol
           /\ Simplified(s).name = s.name /\ Simplified(s).ndx = s.ndx
           /\ s.ndx \in {SHN_COMMON, SHN_ABS} => Simplified(s).value = s.value
           /\ s.ndx = SHN_UNDEF =>
                 Simplified(s).value = IF Resolve(s.name) # 0 THEN Resolve(s.name) ELSE s.value
           /\ s.ndx \notin {SHN_COMMON, SHN_ABS, SHN_UNDEF} =>
                 Simplified(s).value = Wrap(s.value + sec[s.ndx].addr)
  <1>1. CASE s.ndx \in {SHN_COMMON, SHN_ABS}
    <2>1. Simplified(s) = s /\ s.ndx # SHN_UNDEF
      BY <1>1 DEF Simplified, SHN_UNDEF, SHN_COMMON, SHN_ABS
    <2>2. QED
      BY <1>1, <2>1
  <1>2. CASE s.ndx = SHN_UNDEF
    <2> DEFINE v == Resolve(s.name)
    <2>1. Simplified(s) = (IF v # 0 THEN SetValue(s, v) ELSE s)
          /\ s.ndx \notin {SHN_COMMON, SHN_ABS}
      BY <1>2 DEF Simplified, SetValue, SHN_UNDEF, SHN_COMMON, SHN_ABS
    <2>2. v \in Int
      OBVIOUS
    <2> HIDE DEF v
    <2>3. /\ Simplified(s) \in Symbol
          /\ Simplified(s).name = s.name /\ Simplified(s).ndx = s.ndx
          /\ Simplified(s).value = IF v # 0 THEN v ELSE s.value
      <3>1. /\ SetValue(s, v) \in Symbol
            /\ SetValue(s, v).name = s.name /\ SetValue(s, v).ndx = s.ndx
            /\ SetValue(s, v).value = v
        BY <2>2, SymbolUpdate, Zenon
      <3>2. QED
        BY <2>1, <3>1
    <2>4. QED
      BY <1>2, <2>1, <2>3 DEF v
  <1>3. CASE s.ndx \notin {SHN_COMMON, SHN_ABS, SHN_UNDEF}
    <2> DEFINE v == Wrap(s.value + sec[s.ndx].addr)
    <2>1. Simplified(s) = SetValue(s, v)
      BY <1>3 DEF Simplified, SetValue
    <2>2. v \in Int
      BY <1>3, WrapInt DEF Symbol
    <2> HIDE DEF v
    <2>3. /\ Simplified(s) \in Symbol
          /\ Simplified(s).name = s.name /\ Simplified(s).ndx = s.ndx
          /\ Simplified(s).value = v
      BY <2>1, <2>2, SymbolUpdate
    <2>4. QED
      BY <1>3, <2>3 DEF v
  <1>4. QED
    BY <1>1, <1>2, <1>3

LEMMA ImageStep ==
    ASSUME ImageInv, LoopInv, [Next]_vars
    PROVE  ImageInv'
  <1>1. env' = env
    BY EnvSame
  <1>2. CASE OtherActions
    BY <1>1, <1>2, OthersKeepImage DEF ImageInv, obj
  <1>3. CASE RewriteSection
    <2> DEFINE a == Wrap(env.target + sec[i].off)
    <2>1. /\ sym' = sym /\ i \in DOMAIN sec
          /\ sec' = sec \/ sec' = [sec EXCEPT ![i] = SetAddr(sec[i], a)]
      BY <1>3 DEF RewriteSection, SetAddr
    <2>2. a \in Int
      <3>1. sec[i].off \in Int /\ env.target \in Int
        BY <2>1, CaseFacts DEF Header
      <3>2. QED
        BY <3>1, WrapInt DEF ImageInv
    <2> HIDE DEF a
    <2>3. sec \in [DOMAIN obj.secs -> Header] /\ \A k \in DOMAIN sec : Alike(sec[k], obj.secs[k])
      BY DEF ImageInv
    <2>4. SetAddr(sec[i], a) \in Header /\ Alike(SetAddr(sec[i], a), sec[i])
      BY <2>1, <2>2, <2>3, HeaderUpdate
    <2>5. /\ sec' \in [DOMAIN obj.secs -> Header]
          /\ \A k \in DOMAIN obj.secs : Alike(sec'[k], obj.secs[k])
      BY <2>1, <2>3, <2>4, Zenon DEF Alike
    <2>6. QED
      BY <1>1, <2>1, <2>5 DEF ImageInv, obj
  <1>4. CASE RewriteDone
    <2> DEFINE f == FindSec(".ulpatch.info")
               t == [sec EXCEPT ![0] = SetAddr(sec[0], 0)]
    <2>1. sym' = sym /\ sec' = [t EXCEPT ![f] = NotAlloc(t[f])]
      BY <1>4 DEF RewriteDone, SetAddr, NotAlloc
    <2>2. sec \in [DOMAIN obj.secs -> Header] /\ \A k \in DOMAIN sec : Alike(sec[k], obj.secs[k])
      BY DEF ImageInv
    <2>3. /\ t \in [DOMAIN obj.secs -> Header]
          /\ \A k \in DOMAIN obj.secs : Alike(t[k], obj.secs[k])
      <3>1. 0 \in DOMAIN sec => SetAddr(sec[0], 0) \in Header /\ Alike(SetAddr(sec[0], 0), sec[0])
        BY <2>2, HeaderUpdate
      <3>2. QED
        BY <2>2, <3>1, Zenon DEF Alike
    <2> HIDE DEF f, t
    <2>4. /\ sec' \in [DOMAIN obj.secs -> Header]
          /\ \A k \in DOMAIN obj.secs : Alike(sec'[k], obj.secs[k])
      <3>1. f \in DOMAIN obj.secs => NotAlloc(t[f]) \in Header /\ Alike(NotAlloc(t[f]), t[f])
        BY <2>3, HeaderNotAlloc
      <3>2. QED
        BY <2>1, <2>3, <3>1, Zenon DEF Alike
    <2>5. QED
      BY <1>1, <2>1, <2>4 DEF ImageInv, obj
  <1>5. CASE SimplifySymbol
    <2>1. sec' = sec /\ i \in DOMAIN sym /\ sym' = [sym EXCEPT ![i] = Simplified(sym[i])]
      BY <1>5 DEF SimplifySymbol
    <2>2. /\ Simplified(sym[i]) \in Symbol
          /\ Simplified(sym[i]).name = sym[i].name
          /\ Simplified(sym[i]).ndx = sym[i].ndx
      <3>1. sym[i] \in Symbol /\ Resolve(sym[i].name) \in Int
        BY <2>1, CaseFacts DEF ImageInv, Resolve
      <3>2. sym[i].ndx \notin {SHN_COMMON, SHN_ABS, SHN_UNDEF} => sec[sym[i].ndx].addr \in Int
        <4>1. \A k \in DOMAIN sec : sec[k].addr \in Int
          BY CaseFacts DEF Header
        <4>2. sym[i].ndx \in DOMAIN sec \cup {SHN_ABS, SHN_COMMON}
          BY <2>1, CaseFacts DEF ImageInv
        <4>3. QED
          BY <4>1, <4>2
      <3>3. 2^Long \in Nat \ {0}
        BY DEF ImageInv
      <3>4. QED
        BY <3>1, <3>2, <3>3, SimplifiedFacts
    <2>3. QED
      BY <1>1, <2>1, <2>2 DEF ImageInv, obj
  <1>6. CASE UNCHANGED vars
    BY <1>6, Zenon DEF vars, ImageInv, obj
  <1>7. QED
    BY <1>2, <1>3, <1>4, <1>5, <1>6 DEF Next, OtherActions

-----------------------------------------------------------------------------
(* The loops.                                                              *)

BeforeLinks == {"alloc", "chown", "mmap", "setup", "dup", "rewrite"}

(* How the actions that leave the image alone move on.                     *)
LEMMA OtherFlow ==
    ASSUME OtherActions, i \in Nat
    PROVE  /\ i' \in Nat
           /\ pc' # "simplify"
           /\ pc' \in BeforeLinks => pc \in BeforeLinks
           /\ pc' = "rewrite" => CheckBuildId /\ i' = 1
           /\ Linked' => Linked \/ (pc = "simplify" /\ SimplifyDone)
  <1> USE DEF BeforeLinks, Linked, Goto
  <1>1. CASE NoObject \/ AllocFails \/ AllocReleases \/ Alloc
    BY <1>1 DEF NoObject, AllocFails, AllocReleases, Alloc, NoImage, loop
  <1>2. CASE Chown \/ CreateMmapVmaFile
    BY <1>2 DEF Chown, CreateMmapVmaFile, NoImage, loop
  <1>3. CASE SetupLoadInfo
    BY <1>3 DEF SetupLoadInfo, NoImage, loop
  <1>4. CASE CheckBuildId
    BY <1>4 DEF CheckBuildId
  <1>5. CASE SimplifyDone
    BY <1>5 DEF SimplifyDone
  <1>6. CASE ApplySection
    <2>1. /\ pc = "apply" /\ (i' = i \/ i' = i + 1)
          /\ pc' = pc \/ pc' = "rela" \/ (pc' = "free" /\ err' # "OK")
      BY <1>6, Zenon DEF ApplySection
    <2>2. QED
      BY <2>1
  <1>7. CASE ApplyRela
    <2>1. /\ pc = "rela" /\ i' = i
          /\ pc' = pc \/ (pc' = "free" /\ err' # "OK")
      BY <1>7, Zenon DEF ApplyRela
    <2>2. QED
      BY <2>1
  <1>8. CASE RelaDone \/ ApplyDone
    BY <1>8 DEF RelaDone, ApplyDone, NoImage, loop
  <1>9. CASE SolvePatchSymbols \/ KickTarget
    BY <1>9 DEF SolvePatchSymbols, KickTarget, NoImage, loop
  <1>10. CASE FreeCopy \/ DeleteMmapVmaFile \/ RemoveUlpFile
    BY <1>10 DEF FreeCopy, DeleteMmapVmaFile, RemoveUlpFile, NoImage, loop
  <1>11. CASE ReadBack \/ Stop
    BY <1>11 DEF ReadBack, Stop, vars, loop
  <1>12. QED
    BY <1>1, <1>2, <1>3, <1>4, <1>5, <1>6, <1>7, <1>8, <1>9, <1>10, <1>11
       DEF OtherActions

LEMMA FinalFacts ==
    ASSUME NEW s
    PROVE  /\ s.ndx \in {SHN_COMMON, SHN_ABS} => Final(s) = s.value
           /\ s.ndx = SHN_UNDEF =>
                 Final(s) = IF Resolve(s.name) # 0 THEN Resolve(s.name) ELSE s.value
           /\ s.ndx \notin {SHN_COMMON, SHN_ABS, SHN_UNDEF} =>
                 Final(s) = Wrap(env.target + obj.secs[s.ndx].off + s.value)
  BY DEF Final, Resolve, SHN_UNDEF, SHN_COMMON, SHN_ABS

LEMMA SimplifiedIsFinal ==
    ASSUME ImageInv, NEW k \in DOMAIN sym, k # 0, sym[k] = obj.syms[k],
           \A j \in DOMAIN sec \ {0} : Based(j)
    PROVE  Simplified(sym[k]).value = Addr(k)
  <1> DEFINE s == sym[k]
             b == env.target + obj.secs[s.ndx].off
  <1>1. /\ s \in Symbol /\ Resolve(s.name) \in Int
        /\ s.ndx \in DOMAIN sec \cup {SHN_ABS, SHN_COMMON}
        /\ 2^Long \in Nat \ {0}
    BY CaseFacts, Zenon DEF ImageInv, Resolve
  <1>2. s.ndx \notin {SHN_COMMON, SHN_ABS, SHN_UNDEF} =>
           sec[s.ndx].addr = Wrap(b) /\ sec[s.ndx].addr \in Int /\ b \in Int
    <2>1. s.ndx \notin {SHN_COMMON, SHN_ABS, SHN_UNDEF} => s.ndx \in DOMAIN sec \ {0}
      BY <1>1 DEF SHN_UNDEF
    <2>2. \A j \in DOMAIN sec : sec[j].addr \in Int /\ obj.secs[j].off \in Int
      BY CaseFacts, Zenon DEF Header
    <2>3. env.target \in Int
      BY CaseFacts
    <2>4. QED
      BY <2>1, <2>2, <2>3 DEF Based
  <1>3. Addr(k) = Final(s) /\ s.value \in Int
    BY <1>1 DEF Addr, Symbol
  <1>4. s.ndx \notin {SHN_COMMON, SHN_ABS, SHN_UNDEF} => Final(s) = Wrap(b + s.value)
    BY FinalFacts
  <1> HIDE DEF s, b
  <1>5. s.ndx \notin {SHN_COMMON, SHN_ABS, SHN_UNDEF} =>
           Simplified(s).value = Wrap(s.value + Wrap(b))
    BY <1>1, <1>2, SimplifiedFacts
  <1>6. s.ndx \notin {SHN_COMMON, SHN_ABS, SHN_UNDEF} => Simplified(s).value = Final(s)
    BY <1>1, <1>2, <1>3, <1>4, <1>5, WrapOfSum, Zenon
  <1>7. s.ndx \in {SHN_COMMON, SHN_ABS, SHN_UNDEF} => Simplified(s).value = Final(s)
    BY <1>1, <1>2, FinalFacts, SimplifiedFacts
  <1>8. QED
    BY <1>3, <1>6, <1>7, Zenon DEF s

LEMMA LoopStep ==
    ASSUME ImageInv, LoopInv, [Next]_vars
    PROVE  LoopInv'
  <1>1. env' = env
    BY EnvSame
  <1>2. \A k : Addr(k)' = Addr(k)
    BY <1>1, AddrSame
  <1>3. CASE OtherActions
    <2>1. sec' = sec /\ sym' = sym
      BY <1>3, OthersKeepImage
    <2>2. Relocated' = Relocated
      BY <1>2, <2>1 DEF Relocated
    <2>3. pc' = "rewrite" => i' >= 1 /\ \A k \in DOMAIN sec' \ {0} : k < i' => Based(k)'
      <3>1. \A k \in DOMAIN sec \ {0} : k >= 1 /\ k \in Nat
        BY CaseFacts
      <3>2. QED
        BY <1>3, <2>1, <3>1, OtherFlow DEF LoopInv
    <2>4. Linked' => Relocated
      <3>1. CASE Linked
        BY <3>1 DEF LoopInv
      <3>2. CASE pc = "simplify" /\ SimplifyDone
        <4>1. \A k \in DOMAIN sym : k < i
          <5>1. i \notin DOMAIN sym /\ i \in Nat /\ i >= 1
            BY <3>2 DEF SimplifyDone, LoopInv
          <5>2. QED
            BY <5>1, CaseFacts
        <4>2. QED
          BY <3>2, <4>1, CaseFacts DEF LoopInv, Relocated
      <3>3. QED
        BY <1>3, <3>1, <3>2, OtherFlow DEF LoopInv
    <2>5. QED
      BY <1>1, <1>3, <2>1, <2>2, <2>3, <2>4, OtherFlow DEF LoopInv, BeforeLinks, obj
  <1>4. CASE RewriteSection
    <2>1. CASE pc' = "free" /\ err' # "OK"
      BY <1>4, <2>1 DEF RewriteSection, LoopInv, Linked
    <2>2. CASE pc' # "free"
      <3> DEFINE a == Wrap(env.target + sec[i].off)
      <3>1. /\ pc = "rewrite" /\ pc' = "rewrite" /\ i' = i + 1 /\ sym' = sym
            /\ i \in DOMAIN sec /\ sec' = [sec EXCEPT ![i] = SetAddr(sec[i], a)]
        BY <1>4, <2>2, Zenon DEF RewriteSection, SetAddr, Goto
      <3>2. a = Wrap(env.target + obj.secs[i].off) /\ a \in Int
        <4>1. sec[i].off = obj.secs[i].off /\ sec[i].off \in Int /\ env.target \in Int
          BY <3>1, CaseFacts DEF Header, ImageInv, Alike
        <4>2. QED
          BY <4>1, WrapInt DEF ImageInv
      <3>3. sec[i] \in Header
        BY <3>1, CaseFacts
      <3> HIDE DEF a
      <3>4. SetAddr(sec[i], a).addr = a
        BY <3>2, <3>3, HeaderUpdate, Zenon
      <3>5. \A k \in DOMAIN sec' \ {0} : k < i' => Based(k)'
        <4>1. \A k \in DOMAIN sec : k \in Nat
          BY CaseFacts
        <4>2. \A k \in DOMAIN sec \ {0} : k < i => Based(k)
          BY <3>1 DEF LoopInv
        <4>3. ASSUME NEW k \in DOMAIN sec \ {0}, k < i + 1
              PROVE  sec'[k].addr = Wrap(env.target + obj.secs[k].off)
          <5>1. CASE k = i
            BY <3>1, <3>2, <3>4, <5>1
          <5>2. CASE k # i
            <6>1. k < i
              BY <4>1, <4>3, <5>2 DEF LoopInv
            <6>2. QED
              BY <3>1, <4>2, <5>2, <6>1 DEF Based
          <5>3. QED
            BY <5>1, <5>2
        <4>4. DOMAIN sec' = DOMAIN sec
          BY <3>1
        <4>5. QED
          BY <1>1, <3>1, <4>3, <4>4, Zenon DEF Based, obj
      <3>6. QED
        BY <1>1, <3>1, <3>5 DEF LoopInv, Linked, obj
    <2>3. QED
      BY <1>4, <2>1, <2>2 DEF RewriteSection, Goto
  <1>5. CASE RewriteDone
    <2> DEFINE f == FindSec(".ulpatch.info")
               t == [sec EXCEPT ![0] = SetAddr(sec[0], 0)]
    <2>1. /\ pc = "rewrite" /\ pc' = "simplify" /\ i' = 1 /\ sym' = sym /\ i \notin DOMAIN sec
          /\ sec' = [t EXCEPT ![f] = NotAlloc(t[f])]
      BY <1>5 DEF RewriteDone, SetAddr, NotAlloc, Goto
    <2>2. \A k \in DOMAIN sec \ {0} : k < i
      <3>1. i >= 1 /\ i \in Nat
        BY <2>1 DEF LoopInv
      <3>2. QED
        BY <2>1, <3>1, CaseFacts
    <2>3. \A k \in DOMAIN sec \ {0} : t[k] = sec[k] /\ t[k] \in Header
      BY CaseFacts
    <2>4. DOMAIN t = DOMAIN sec
      OBVIOUS
    <2> HIDE DEF f, t
    <2>5. DOMAIN sec' = DOMAIN sec /\ \A k \in DOMAIN sec \ {0} : sec'[k].addr = sec[k].addr
      <3>1. f \in DOMAIN sec \ {0} => NotAlloc(t[f]).addr = sec[f].addr
        BY <2>3, HeaderNotAlloc
      <3>2. QED
        BY <2>1, <2>3, <2>4, <3>1
    <2>6. \A k \in DOMAIN sec' \ {0} : Based(k)'
      BY <1>1, <2>1, <2>2, <2>5 DEF LoopInv, Based, obj
    <2>7. \A k \in DOMAIN sym' : k = 0 \/ k >= i'
      BY <2>1, CaseFacts
    <2>8. QED
      BY <1>1, <2>1, <2>6, <2>7 DEF LoopInv, Linked, obj
  <1>6. CASE SimplifySymbol
    <2>1. /\ pc = "simplify" /\ pc' = "simplify" /\ i' = i + 1 /\ sec' = sec
          /\ i \in DOMAIN sym /\ sym' = [sym EXCEPT ![i] = Simplified(sym[i])]
      BY <1>6 DEF SimplifySymbol
    <2>2. /\ i >= 1 /\ i \in Nat /\ sym[i] = obj.syms[i]
          /\ \A k \in DOMAIN sec \ {0} : Based(k)
      BY <2>1 DEF LoopInv
    <2>3. Simplified(sym[i]).value = Addr(i)
      BY <2>1, <2>2, SimplifiedIsFinal
    <2>4. \A k \in DOMAIN sec' \ {0} : Based(k)'
      BY <1>1, <2>1, <2>2 DEF Based, obj
    <2>5. \A k \in DOMAIN sym' :
             IF k = 0 \/ k >= i' THEN sym'[k] = obj.syms[k] ELSE sym'[k].value = Addr(k)
      <3>1. \A k \in DOMAIN sym :
               IF k = 0 \/ k >= i THEN sym[k] = obj.syms[k] ELSE sym[k].value = Addr(k)
        BY <2>1 DEF LoopInv
      <3>2. ASSUME NEW k \in DOMAIN sym
            PROVE  IF k = 0 \/ k >= i + 1 THEN sym'[k] = obj.syms[k] ELSE sym'[k].value = Addr(k)
        <4>1. CASE k = i
          BY <2>1, <2>2, <2>3, <4>1
        <4>2. CASE k # i
          <5>1. sym'[k] = sym[k] /\ (k >= i + 1 <=> k >= i)
            BY <2>1, <2>2, <4>2, CaseFacts
          <5>2. QED
            BY <3>1, <5>1, Zenon
        <4>3. QED
          BY <4>1, <4>2
      <3>3. QED
        BY <2>1, <3>2
    <2>6. QED
      BY <1>1, <1>2, <2>1, <2>2, <2>4, <2>5 DEF LoopInv, Linked, obj
  <1>7. CASE UNCHANGED vars
    BY <1>2, <1>7, Zenon DEF vars, LoopInv, Linked, Relocated, Based, obj
  <1>8. QED
    BY <1>3, <1>4, <1>5, <1>6, <1>7 DEF Next, OtherActions

-----------------------------------------------------------------------------
(* What was checked before the image is rewritten.                         *)

LEMMA SetupStep ==
    ASSUME ImageInv, ImageInv', LoopInv, SetupInv, TargetInv, [Next]_vars
    PROVE  SetupInv'
  <1> DEFINE Passed == pc \in {"rewrite", "simplify"} \/ Linked
             Checked == SetupBefore = "OK" /\ obj.bid \notin env.ulps
  <1>1. env' = env /\ obj' = obj
    BY EnvSame DEF obj
  <1>2. SetupBefore' = SetupBefore /\ BuildId' = BuildId
    <2>1. /\ DOMAIN sec' = DOMAIN sec /\ DOMAIN sec \subseteq Nat
          /\ \A k \in DOMAIN sec : sec'[k].name = sec[k].name /\ sec'[k].type = sec[k].type
      BY <1>1, CaseFacts DEF ImageInv, Alike
    <2>2. QED
      BY <1>1, <2>1, SetupSame, Zenon
  <1>3. Passed => Checked
    BY DEF SetupInv
  <1>4. Checked' = Checked
    BY <1>1, <1>2
  <1>5. i \in Nat
    BY DEF LoopInv
  <1> HIDE DEF Checked
  <1>6. CASE NoObject \/ AllocFails \/ AllocReleases \/ Alloc
    BY <1>6, Zenon DEF NoObject, AllocFails, AllocReleases, Alloc, Goto, SetupInv, Linked
  <1>7. CASE Chown \/ CreateMmapVmaFile
    BY <1>1, <1>7 DEF Chown, CreateMmapVmaFile, Goto, SetupInv, Linked
  <1>8. CASE SetupLoadInfo
    <2>1. pc' = "dup" => SetupBefore = "OK" /\ info'.bid = BuildId
      BY <1>8 DEF SetupLoadInfo, Goto
    <2>2. pc' \in {"dup", "free"} /\ (pc' = "free" => err' # "OK")
      BY <1>8 DEF SetupLoadInfo, Goto
    <2>3. QED
      BY <1>2, <2>1, <2>2 DEF SetupInv, Linked
  <1>9. CASE CheckBuildId
    <2>1. pc' = "rewrite" => Checked
      BY <1>9 DEF CheckBuildId, SetupInv, BuildId, Goto, Checked
    <2>2. pc' \in {"crashed", "rewrite"} \/ (pc' = "free" /\ err' # "OK")
      BY <1>9 DEF CheckBuildId, Goto
    <2>3. QED
      BY <1>4, <2>1, <2>2 DEF SetupInv, Linked, Checked
  <1>10. CASE \/ RewriteSection \/ RewriteDone \/ SimplifySymbol \/ SimplifyDone
              \/ ApplySection \/ ApplyRela \/ RelaDone \/ ApplyDone
              \/ SolvePatchSymbols \/ KickTarget \/ FreeCopy \/ DeleteMmapVmaFile
              \/ RemoveUlpFile \/ ReadBack \/ Stop \/ UNCHANGED vars
    <2>1. /\ pc' # "dup" \/ (pc' = pc /\ info' = info)
          /\ pc # "dup" \/ pc' = pc
      BY <1>10, Zenon
         DEF RewriteSection, RewriteDone, SimplifySymbol, SimplifyDone, ApplySection,
             ApplyRela, RelaDone, ApplyDone, SolvePatchSymbols, KickTarget, FreeCopy,
             DeleteMmapVmaFile, RemoveUlpFile, ReadBack, Stop, vars, Goto
    <2>2. Passed' => Passed
      <3>1. CASE OtherActions
        BY <1>5, <2>1, <3>1, OtherFlow DEF CheckBuildId
      <3>2. CASE RewriteSection \/ RewriteDone \/ SimplifySymbol
        BY <3>2 DEF RewriteSection, RewriteDone, SimplifySymbol, Linked
      <3>3. CASE UNCHANGED vars
        BY <3>3, Zenon DEF vars, Linked
      <3>4. QED
        BY <1>10, <3>1, <3>2, <3>3, Zenon DEF OtherActions
    <2>3. QED
      BY <1>1, <1>2, <1>3, <1>4, <2>1, <2>2 DEF SetupInv, Checked
  <1>11. QED
    BY <1>6, <1>7, <1>8, <1>9, <1>10 DEF Next

-----------------------------------------------------------------------------
(* The patch function, and what the target has.                            *)

LEMMA SrcIsPatch ==
    ASSUME ImageInv, Relocated, SrcSyms # {}
    PROVE  SrcAddr \in Int /\ PatchAddr(SrcAddr)
  <1> DEFINE m == Max(SrcSyms)
  <1>1. PICK n \in Nat : DOMAIN sym = 0..n
    BY CaseFacts
  <1>2. SrcSyms \subseteq 0..n
    BY <1>1 DEF SrcSyms
  <1>3. m \in SrcSyms /\ \A y \in SrcSyms : y <= m
    BY <1>2, MaxIsLargest, Zenon
  <1> HIDE DEF m
  <1>4. m \in DOMAIN sym /\ obj.syms[m].name = obj.src /\ m # 0
    BY <1>3, CaseFacts, Zenon DEF SrcSyms, ImageInv
  <1>5. sym[m].value = Addr(m) /\ sym[m].value \in Int
    BY <1>4, CaseFacts, Zenon DEF Relocated, Symbol
  <1>6. \A j \in DOMAIN obj.syms : obj.syms[j].name = obj.src => j <= m
    BY <1>3, CaseFacts DEF SrcSyms, ImageInv
  <1>7. SrcAddr = sym[m].value
    BY DEF SrcAddr, m
  <1>8. QED
    BY <1>4, <1>5, <1>6, <1>7, CaseFacts, Zenon DEF PatchAddr

LEMMA TargetStep ==
    ASSUME ImageInv, LoopInv, TargetInv, [Next]_vars
    PROVE  TargetInv'
  <1>1. env' = env /\ obj' = obj
    BY EnvSame DEF obj
  <1> USE DEF Goto, NoUlp, Empty
  <1>2. CASE NoObject
    BY <1>1, <1>2 DEF NoObject, TargetInv
  <1>3. CASE AllocFails
    BY <1>1, <1>3, Zenon DEF AllocFails, TargetInv
  <1>4. CASE AllocReleases
    BY <1>1, <1>4, Zenon DEF AllocReleases, TargetInv
  <1>5. CASE Alloc
    BY <1>1, <1>5, Zenon DEF Alloc, TargetInv
  <1>6. CASE Chown
    BY <1>1, <1>6 DEF Chown, TargetInv
  <1>7. CASE CreateMmapVmaFile
    <2>1. /\ pc = "mmap"
          /\ \/ pc' = "crashed" /\ info' = info /\ target' = target
             \/ pc' = "setup" /\ info' = info /\ target' = [target EXCEPT !.area = TRUE]
             \/ pc' = "remove" /\ info' = Empty /\ target' = target
      BY <1>7, Zenon DEF CreateMmapVmaFile
    <2>2. CASE pc' = "crashed" /\ info' = info /\ target' = target
      BY <1>1, <2>1, <2>2 DEF TargetInv
    <2>3. CASE pc' = "setup" /\ info' = info /\ target' = [target EXCEPT !.area = TRUE]
      BY <1>1, <2>1, <2>3, Zenon DEF TargetInv
    <2>4. CASE pc' = "remove" /\ info' = Empty /\ target' = target
      BY <1>1, <2>1, <2>4, Zenon DEF TargetInv
    <2>5. QED
      BY <2>1, <2>2, <2>3, <2>4
  <1>8. CASE SetupLoadInfo
    BY <1>1, <1>8 DEF SetupLoadInfo, TargetInv, BuildId
  <1>9. CASE \/ CheckBuildId \/ RewriteSection \/ RewriteDone \/ SimplifySymbol
             \/ SimplifyDone \/ ApplySection \/ ApplyRela \/ RelaDone \/ ApplyDone
    <2>1. /\ target' = target /\ info' = info
          /\ pc \in {"dup", "rewrite", "simplify", "apply", "rela"}
          /\ \/ pc' \in {"rewrite", "simplify", "apply", "rela", "solve", "crashed"}
             \/ pc' = "free"
      BY <1>9, Zenon
         DEF CheckBuildId, RewriteSection, RewriteDone, SimplifySymbol, SimplifyDone,
             ApplySection, ApplyRela, RelaDone, ApplyDone
    <2>2. QED
      BY <1>1, <2>1 DEF TargetInv
  <1>10. CASE SolvePatchSymbols
    <2>1. /\ pc = "solve" /\ target' = target /\ info' = info /\ sym' = sym
          /\ pc' = "free" \/ (pc' = "kick" /\ SrcSyms # {} /\ ulp'.patch = SrcAddr)
      BY <1>10 DEF SolvePatchSymbols, NoImage, image
    <2>2. pc' = "kick" => ulp'.patch \in Int /\ PatchAddr(ulp'.patch)
      BY <2>1, SrcIsPatch DEF LoopInv, Linked
    <2>3. pc' = "kick" => (ulp.patch \in Int /\ PatchAddr(ulp.patch))'
      BY <1>1, <2>2, AddrSame DEF PatchAddr
    <2>4. QED
      BY <1>1, <2>1, <2>3 DEF TargetInv
  <1>11. CASE KickTarget
    BY <1>1, <1>11 DEF KickTarget, TargetInv
  <1>12. CASE FreeCopy
    BY <1>1, <1>12 DEF FreeCopy, TargetInv
  <1>13. CASE DeleteMmapVmaFile
    BY <1>1, <1>13, Zenon DEF DeleteMmapVmaFile, TargetInv
  <1>14. CASE RemoveUlpFile
    BY <1>1, <1>14, Zenon DEF RemoveUlpFile, TargetInv
  <1>15. CASE ReadBack
    BY <1>1, <1>15 DEF ReadBack, TargetInv
  <1>16. CASE Stop \/ UNCHANGED vars
    <2>1. UNCHANGED <<pc, err, info, target, ulp>>
      BY <1>16, Zenon DEF Stop, vars
    <2>2. PatchAddr(ulp.patch)' = PatchAddr(ulp.patch)
      BY <1>1, <2>1, AddrSame DEF PatchAddr
    <2>3. QED
      BY <1>1, <2>1, <2>2 DEF TargetInv
  <1>17. QED
    BY <1>2, <1>3, <1>4, <1>5, <1>6, <1>7, <1>8, <1>9, <1>10, <1>11, <1>12, <1>13, <1>14,
       <1>15, <1>16
       DEF Next

-----------------------------------------------------------------------------
(* The properties.                                                         *)

LEMMA JumpStep ==
    ASSUME LoadInv, [Next]_vars
    PROVE  JumpToPatch'
  <1>1. env' = env /\ obj' = obj
    BY EnvSame DEF obj
  <1>2. CASE target' = target
    BY <1>1, <1>2, AddrSame DEF LoadInv, JumpToPatch, Addr
  <1>3. CASE /\ pc \in {"alloc", "mmap", "delete", "remove"}
             /\ \/ target' = [target EXCEPT !.file = TRUE]
                \/ target' = [target EXCEPT !.file = FALSE]
                \/ target' = [target EXCEPT !.area = TRUE]
                \/ target' = [target EXCEPT !.area = FALSE]
    <2>1. target.jump = 0 /\ target \in [area : BOOLEAN, file : BOOLEAN, jump : Int]
      BY <1>3 DEF LoadInv, TargetInv
    <2>2. target'.jump = 0
      BY <1>3, <2>1
    <2>3. QED
      BY <2>2 DEF JumpToPatch
  <1>4. CASE KickTarget /\ target' = [target EXCEPT !.jump = ulp.patch]
    <2>2. /\ pc = "kick" /\ target \in [area : BOOLEAN, file : BOOLEAN, jump : Int]
          /\ target.area /\ target.file /\ PatchAddr(ulp.patch)
          /\ obj.bid \notin env.ulps
      BY <1>4 DEF LoadInv, TargetInv, SetupInv, KickTarget, Linked
    <2>3. target'.area /\ target'.file /\ target'.jump = ulp.patch
      BY <1>4, <2>2
    <2>4. QED
      BY <1>1, <2>2, <2>3, AddrSame DEF PatchAddr, JumpToPatch, Addr
  <1>5. QED
    BY <1>2, <1>3, <1>4, Zenon
       DEF Next, vars, NoObject, AllocFails, AllocReleases, Alloc, Chown,
           CreateMmapVmaFile, SetupLoadInfo, CheckBuildId, RewriteSection, RewriteDone,
           SimplifySymbol, SimplifyDone, ApplySection, ApplyRela, RelaDone, ApplyDone,
           SolvePatchSymbols, KickTarget, FreeCopy, DeleteMmapVmaFile, RemoveUlpFile,
           ReadBack, Stop

LEMMA ReadStep ==
    ASSUME LoadInv, [Next]_vars
    PROVE  ReadBackExact'
  <1>1. env' = env /\ obj' = obj
    BY EnvSame DEF obj
  <1>2. CASE ReadBack
    <2>1. \A k \in ReadSyms : sym[k].name = obj.syms[k].name /\ sym[k].value = Addr(k)
      <3>1. pc = "done"
        BY <1>2, Zenon DEF ReadBack
      <3>2. 0 \notin ReadSyms
        BY CaseFacts, Zenon DEF LoadInv, ImageInv, ReadSyms, IsUndefSymbol
      <3>3. QED
        BY <3>1, <3>2 DEF LoadInv, LoopInv, Linked, Relocated, ImageInv, ReadSyms
    <2>2. ReadSyms = {j \in DOMAIN obj.syms : ~IsUndefSymbol(obj.syms[j])}
      BY CaseFacts DEF LoadInv, ImageInv, ReadSyms, IsUndefSymbol
    <2>3. linked' = {<<obj.syms[k].name, Addr(k)>> : k \in ReadSyms}
      BY <1>2, <2>1 DEF ReadBack
    <2>4. QED
      BY <1>1, <2>2, <2>3, AddrSame, Zenon DEF ReadBackExact, Addr
  <1>3. CASE UNCHANGED <<pc, linked>>
    BY <1>1, <1>3, AddrSame DEF LoadInv, ReadBackExact, Addr
  <1>4. CASE pc' # "read"
    BY <1>4 DEF ReadBackExact
  <1>5. QED
    BY <1>2, <1>3, <1>4, Zenon
       DEF Next, vars, Goto, NoImage, NoObject, AllocFails, AllocReleases, Alloc, Chown,
           CreateMmapVmaFile, SetupLoadInfo, CheckBuildId, RewriteSection, RewriteDone,
           SimplifySymbol, SimplifyDone, ApplySection, ApplyRela, RelaDone, ApplyDone,
           SolvePatchSymbols, KickTarget, FreeCopy, DeleteMmapVmaFile, RemoveUlpFile, Stop

(* A step that is none of those that check the object: it does not go to   *)
(* an earlier one, and a jump is written when the symbols are linked.      *)
LEMMA FormKept ==
    ASSUME LoadInv, [Next]_vars,
           pc \notin {"alloc", "chown", "mmap", "setup", "dup", "rewrite"}
    PROVE  /\ pc' \notin {"chown", "mmap", "setup", "dup", "rewrite"}
           /\ pc' = "simplify" \/ Linked' => pc = "simplify" \/ Linked
           /\ target'.jump # 0 => Linked \/ target.jump # 0
  <1>1. i \in Nat /\ target \in [area : BOOLEAN, file : BOOLEAN, jump : Int]
    BY DEF LoadInv, LoopInv, TargetInv
  <1>2. CASE KickTarget
    BY <1>1, <1>2 DEF KickTarget, Goto, Linked
  <1>3. CASE DeleteMmapVmaFile \/ RemoveUlpFile
    BY <1>1, <1>3 DEF DeleteMmapVmaFile, RemoveUlpFile, Goto, Linked
  <1>4. CASE SimplifySymbol \/ SimplifyDone \/ UNCHANGED vars
    BY <1>4 DEF SimplifySymbol, SimplifyDone, vars, Goto, Linked
  <1>5. CASE ApplySection \/ ApplyRela \/ RelaDone \/ ApplyDone
    BY <1>5, Zenon DEF ApplySection, ApplyRela, RelaDone, ApplyDone, Goto, Linked
  <1>6. CASE SolvePatchSymbols \/ FreeCopy \/ ReadBack \/ Stop
    BY <1>6 DEF SolvePatchSymbols, FreeCopy, ReadBack, Stop, vars, Goto, Linked
  <1>7. QED
    BY <1>2, <1>3, <1>4, <1>5, <1>6, Zenon
       DEF Next, NoObject, AllocFails, AllocReleases, Alloc, Chown, CreateMmapVmaFile,
           SetupLoadInfo, CheckBuildId, RewriteSection, RewriteDone

LEMMA FormStep ==
    ASSUME LoadInv, [Next]_vars
    PROVE  FormInv'
  <1>1. /\ obj' = obj /\ FileFormed' = FileFormed /\ PatchFormed' = PatchFormed
        /\ \A h : SectionFormed(h)' = SectionFormed(h)
    BY EnvSame DEF obj, FileFormed, PatchFormed, SectionFormed
  <1>2. /\ DOMAIN sec = DOMAIN obj.secs
        /\ \A k \in DOMAIN sec : Alike(sec[k], obj.secs[k]) /\ obj.secs[k] \in Header
        /\ \E n \in Nat : DOMAIN obj.secs = 0..n
    BY CaseFacts DEF LoadInv, ImageInv
  <1>3. FormInv /\ i \in Nat
    BY DEF LoadInv, LoopInv
  <1>4. target.jump # 0 => pc \in {"done", "read", "crashed", "free"}
    BY DEF LoadInv, TargetInv
  <1>5. CASE NoObject \/ AllocFails \/ AllocReleases \/ Alloc
    <2>1. target'.jump = target.jump
      BY <1>5 DEF LoadInv, TargetInv, NoObject, AllocFails, AllocReleases, Alloc
    <2>2. info'.path => AllocFails \/ obj.fits \/ NoObject
      BY <1>5 DEF AllocReleases, Alloc, Empty
    <2>3. QED
      BY <1>1, <1>4, <1>5, <2>1, <2>2, Zenon
         DEF NoObject, AllocFails, AllocReleases, Alloc, Goto, FormInv, Linked
  <1>6. CASE Chown \/ CreateMmapVmaFile
    <2>1. target'.jump = target.jump
      BY <1>6 DEF LoadInv, TargetInv, Chown, CreateMmapVmaFile
    <2>2. QED
      BY <1>1, <1>3, <1>4, <1>6, <2>1, Zenon
         DEF Chown, CreateMmapVmaFile, Goto, FormInv, Linked, FileFormed
  <1>7. CASE SetupLoadInfo
    <2>1. pc' = "dup" => PatchFormed
      <3>1. SetupBefore = "OK" /\ SetupAfter = "OK" => obj.version /\ obj.magic
        BY DEF SetupBefore, SetupAfter
      <3>2. \A n : FindSec(n) # 0 => \E k \in DOMAIN sec : sec[k].name = n
        BY Zenon DEF FindSec
      <3>3. SymSec # 0 => \E k \in DOMAIN sec : sec[k].type = "SYMTAB"
        BY Zenon DEF SymSec
      <3>4. SetupBefore = "OK" => /\ FindSec(".ulpatch.info") # 0 /\ FindSec(".ulpatch.strtab") # 0
                                  /\ FindSec(".note.gnu.build-id") # 0
        BY DEF SetupBefore
      <3>5. SetupAfter = "OK" => SymSec # 0
        BY DEF SetupAfter
      <3>6. SetupBefore = "OK" /\ SetupAfter = "OK" => PatchFormed
        BY <1>2, <3>1, <3>2, <3>3, <3>4, <3>5 DEF PatchFormed, Alike
      <3>7. QED
        BY <1>7, <3>6 DEF SetupLoadInfo, Goto
    <2>2. pc = "setup" /\ UNCHANGED target /\ (pc' = "dup" \/ (pc' = "free" /\ err' # "OK"))
      BY <1>7 DEF SetupLoadInfo, Goto
    <2>3. QED
      BY <1>1, <1>3, <1>4, <2>1, <2>2 DEF FormInv, Linked
  <1>8. CASE CheckBuildId
    <2>1. /\ pc = "dup" /\ UNCHANGED target
          /\ pc' \in {"crashed", "rewrite"} \/ (pc' = "free" /\ err' # "OK")
          /\ pc' = "rewrite" => i' = 1
      BY <1>8 DEF CheckBuildId, Goto
    <2>2. \A k \in DOMAIN obj.secs \ {0} : ~(k < 1)
      BY <1>2
    <2>3. QED
      BY <1>1, <1>3, <1>4, <2>1, <2>2 DEF FormInv, Linked
  <1>9. CASE RewriteSection
    <2>1. /\ pc = "rewrite" /\ UNCHANGED target
          /\ \/ pc' = "free" /\ err' # "OK"
             \/ pc' = "rewrite" /\ i' = i + 1 /\ ~Truncated(i) /\ ~Bss(i) /\ i \in DOMAIN sec
      BY <1>9 DEF RewriteSection, Goto
    <2>2. i \in DOMAIN sec /\ ~Truncated(i) /\ ~Bss(i) => SectionFormed(obj.secs[i])
      <3> SUFFICES ASSUME i \in DOMAIN sec, ~Truncated(i), ~Bss(i)
                   PROVE  SectionFormed(obj.secs[i])
        OBVIOUS
      <3>1. obj.len \in Int /\ obj.secs[i].off \in Int /\ obj.secs[i].size \in Int
        BY <1>2, CaseFacts DEF Header, LoadInv, ImageInv
      <3>2. Alike(sec[i], obj.secs[i])
        BY <1>2
      <3>3. QED
        BY <3>1, <3>2 DEF Truncated, Bss, SecName, SectionFormed, Alike
    <2>3. QED
      BY <1>1, <1>2, <1>3, <1>4, <2>1, <2>2 DEF FormInv, Linked
  <1>10. CASE RewriteDone
    <2>1. pc = "rewrite" /\ pc' = "simplify" /\ UNCHANGED target /\ i \notin DOMAIN sec
      BY <1>10 DEF RewriteDone, Goto
    <2>2. \A k \in DOMAIN obj.secs : k < i
      BY <1>2, <1>3, <2>1
    <2>3. QED
      BY <1>1, <1>3, <1>4, <2>1, <2>2 DEF FormInv, Linked
  <1>11. CASE pc \notin {"alloc", "chown", "mmap", "setup", "dup", "rewrite"}
    BY <1>1, <1>3, <1>11, FormKept, Zenon DEF FormInv
  <1>12. CASE UNCHANGED vars
    BY <1>1, <1>3, <1>12, Zenon DEF FormInv, Linked, vars
  <1>13. QED
    BY <1>5, <1>6, <1>7, <1>8, <1>9, <1>10, <1>11, <1>12, Zenon
       DEF Next, SimplifySymbol, SimplifyDone, ApplySection, ApplyRela, RelaDone, ApplyDone,
           SolvePatchSymbols, KickTarget, FreeCopy, DeleteMmapVmaFile, RemoveUlpFile, ReadBack,
           Stop

LEMMA LoadInit ==
    ASSUME WidthConstants, CaseConstants, Init
    PROVE  LoadInv
  <1>1. Loadable(env) /\ 2^Long \in Nat \ {0}
    BY Zenon DEF WidthConstants, CaseConstants, Init
  <1>2. ImageInv
    BY <1>1, Zenon DEF ImageInv, Loadable, IsTable, Init, Alike, obj
  <1>3. LoopInv /\ SetupInv /\ FormInv
    BY DEF LoopInv, SetupInv, FormInv, Linked, Init
  <1>4. TargetInv
    BY DEF TargetInv, Init, Empty
  <1>5. JumpToPatch /\ ReadBackExact
    BY DEF JumpToPatch, ReadBackExact, Init
  <1>6. QED
    BY <1>2, <1>3, <1>4, <1>5 DEF LoadInv

LEMMA LoadInvariant == WidthConstants /\ CaseConstants /\ Spec => []LoadInv
  <1>1. WidthConstants /\ CaseConstants /\ Init => LoadInv
    BY LoadInit
  <1>2. LoadInv /\ [Next]_vars => LoadInv'
    BY ImageStep, LoopStep, SetupStep, TargetStep, JumpStep, ReadStep, FormStep DEF LoadInv
  <1>3. QED
    BY <1>1, <1>2, PTL DEF Spec

(* Whatever object is loaded and whatever fails, a jump that               *)
(* kick_target_process() writes leads to the address that the patch        *)
(* function, the last symbol of its name, has in the mapped image, and a   *)
(* patch whose build id the target has already gets no jump.               *)
THEOREM JumpIsRight == Spec => []JumpToPatch
  <1>1. LoadInv => JumpToPatch
    BY DEF LoadInv
  <1>2. QED
    BY <1>1, LoadInvariant, WidthAssumption, CaseAssumption, PTL

(* Whichever step of init_patch() fails, the error paths take back the     *)
(* area and the file, and there is no jump.                                *)
THEOREM FailureLeavesNothing == Spec => []FailedLeavesNothing
  <1>1. LoadInv => FailedLeavesNothing
    BY DEF LoadInv, TargetInv, FailedLeavesNothing
  <1>2. QED
    BY <1>1, LoadInvariant, WidthAssumption, CaseAssumption, PTL

(* load_ulp_info_from_vma() of a later session links the symbols that the  *)
(* object defines and no others, at their addresses in the target: what    *)
(* rewrite_section_headers() and simplify_symbols() stored.                *)
THEOREM SymbolsAreReadBack == Spec => []ReadBackExact
  <1>1. LoadInv => ReadBackExact
    BY DEF LoadInv
  <1>2. QED
    BY <1>1, LoadInvariant, WidthAssumption, CaseAssumption, PTL

(* Whatever object is given, the target jumps into it only when it is well *)
(* formed: alloc_patch_file() goes on with a section table outside of the  *)
(* file, and no such object gets past the checks that follow.              *)
THEOREM OnlyWellFormedRuns == Spec => []MalformedRefused
  <1>1. LoadInv => MalformedRefused
    BY DEF LoadInv, FormInv, MalformedRefused
  <1>2. QED
    BY <1>1, LoadInvariant, WidthAssumption, CaseAssumption, PTL

=============================================================================
