-------------------------- MODULE MCPatchLifecycle --------------------------
(* Instances of PatchLifecycle for TLC.                                    *)
EXTENDS PatchLifecycle, TLC

CONSTANTS o1, o2, o3

(* Three functions of two words: o1 and o2 replace the same one.           *)
MCAddrApart == 0..3
MCDstApart == [o \in Obj |-> IF o = o3 THEN 2 ELSE 0]

(* Functions shorter than a jump: o3 replaces one that starts in the       *)
(* second word of the function o1 and o2 replace.                          *)
MCAddrOverlap == 0..2
MCDstOverlap == [o \in Obj |-> IF o = o3 THEN 1 ELSE 0]

MCSymmetry == Permutations(Slot) \cup Permutations(File)

=============================================================================
