------------------------------- MODULE MCUlTask -------------------------------
(* An instance of UlTask for TLC: eight pages of two units.  An area of a  *)
(* file of three units, with a hole after it; then three anonymous pages,  *)
(* the last one protected otherwise than the others.                       *)
EXTENDS UlTask

Anon(p, prot) == [name |-> "anon", off |-> p, prot |-> prot]

MCLayout ==
    [p \in PageNo |->
       CASE p \in {1, 2} -> [name |-> "lib", off |-> p - 1, prot |-> {"r", "x"}]
         [] p \in {4, 5} -> Anon(p, {"r", "w"})
         [] p = 6 -> Anon(p, {"r"})
         [] OTHER -> None]

(* Mapped at page 3, the file "big" has both its ends in free pages and    *)
(* the anonymous areas between them.                                       *)
MCFile == {"lib", "data", "big", "empty"}
MCFSize ==
    [f \in MCFile |-> CASE f = "lib" -> 3 [] f = "data" -> 2 [] f = "big" -> 8
                         [] f = "empty" -> 0]

Dump(vma, disasm, addr, size) ==
    [opt |-> "dump", vma |-> vma, disasm |-> disasm, addr |-> addr, size |-> size]
Jmp(from, to) == [opt |-> "jmp", from |-> from, to |-> to]
Map(file, ro, addr) ==
    [opt |-> "map", file |-> file, ro |-> ro, noexec |-> ~ro, addr |-> addr]
Mprotect(addr, len, prot, none) ==
    [opt |-> "mprotect", addr |-> addr, len |-> len, prot |-> prot, none |-> none]

MCOptions ==
    {Dump(TRUE, FALSE, 3, None), Dump(FALSE, TRUE, 9, 2), Dump(FALSE, FALSE, 11, 4),
     Dump(TRUE, FALSE, None, None),
     Jmp(5, 8), Jmp(3, 9), Jmp(9, 12), Jmp(9, None),
     Map("data", TRUE, None), Map("lib", FALSE, 6), Map("data", TRUE, 14),
     Map("big", FALSE, 6),
     Map("empty", FALSE, None), Map(None, FALSE, 0),
     [opt |-> "unmap", addr |-> 4], [opt |-> "unmap", addr |-> 10], [opt |-> "unmap", addr |-> 6],
     Mprotect(8, 4, {"r"}, FALSE), Mprotect(2, 6, {"r", "w"}, FALSE),
     Mprotect(2, 4, {}, TRUE), Mprotect(8, 2, {"x"}, TRUE), Mprotect(8, 3, {"r"}, FALSE),
     [opt |-> "output"], [opt |-> "force"]}

=============================================================================
