---------------------------- MODULE MCLoadObject ----------------------------
(* LoadObject with shorts of three bits: addresses are 0..4095, an int     *)
(* reaches 0..63, a page has 32 bytes.                                     *)
EXTENDS LoadObject

MCImm == [ADR |-> 5, B26 |-> 7, B19 |-> 5, B14 |-> 4]

Sec(name, type, alloc, off, size, link) ==
    [name |-> name, type |-> type, alloc |-> alloc, off |-> off, size |-> size,
     info |-> link, addr |-> 0]

Sym(name, ndx, value) ==
    [name |-> name, ndx |-> ndx, value |-> value, weak |-> FALSE, tls |-> FALSE, lto |-> FALSE]

Rela(off, type, s, add) == [off |-> off, type |-> type, sym |-> s, add |-> add]

Cell(opc, imm) == [opc |-> opc, imm |-> imm]

(* A patch of one function "f" that replaces "g": code with two places,    *)
(* one of the debug sections with a place that is not relocated, a local   *)
(* symbol and two undefined ones.                                          *)
Base ==
    [exists |-> TRUE, long |-> TRUE, elf |-> TRUE, fits |-> TRUE,
     version |-> TRUE, magic |-> TRUE, note |-> "BUILD_ID", bid |-> "id1",
     src |-> "f", dst |-> "g", len |-> 32,
     secs |-> [k \in 0..8 |->
        CASE k = 0 -> Sec("", "NULL", FALSE, 0, 0, 0)
          [] k = 1 -> Sec(".text", "PROGBITS", TRUE, 4, 8, 0)
          [] k = 2 -> Sec(".ulpatch.info", "PROGBITS", TRUE, 12, 2, 0)
          [] k = 3 -> Sec(".ulpatch.strtab", "PROGBITS", TRUE, 14, 2, 0)
          [] k = 4 -> Sec(".note.gnu.build-id", "NOTE", TRUE, 16, 2, 0)
          [] k = 5 -> Sec(".symtab", "SYMTAB", FALSE, 18, 5, 2)
          [] k = 6 -> Sec(".rela.text", "RELA", FALSE, 23, 4, 1)
          [] k = 7 -> Sec(".debug_info", "PROGBITS", FALSE, 27, 2, 0)
          [] k = 8 -> Sec(".rela.debug_info", "RELA", FALSE, 29, 3, 7)],
     syms |-> [k \in 0..4 |->
        CASE k = 0 -> Sym("", 0, 0)
          [] k = 1 -> Sym("loc", 1, 3)
          [] k = 2 -> Sym("f", 1, 1)
          [] k = 3 -> Sym("x", 0, 0)
          [] k = 4 -> Sym("y", 0, 0)],
     rels |-> [k \in {6, 8} |->
        IF k = 6 THEN [q \in 0..1 |-> IF q = 0 THEN Rela(0, "NONE", 0, 0) ELSE Rela(4, "NONE", 0, 0)]
                 ELSE [q \in {0} |-> Rela(0, "OTHER", 3, 1)]],
     cells |-> [o \in {4, 8, 27} |-> Cell("insn", 0)]]

(* One thing is not as it should be.                                       *)
Malformed ==
    {[Base EXCEPT !.exists = FALSE], [Base EXCEPT !.long = FALSE],
     [Base EXCEPT !.elf = FALSE], [Base EXCEPT !.fits = FALSE],
     [Base EXCEPT !.version = FALSE], [Base EXCEPT !.magic = FALSE],
     [Base EXCEPT !.note = "PROPERTY"], [Base EXCEPT !.src = "h"],
     [Base EXCEPT !.len = 31],
     [Base EXCEPT !.secs[7].type = "NOBITS"], [Base EXCEPT !.secs[7].name = ".bss"],
     [Base EXCEPT !.secs[6].type = "REL"], [Base EXCEPT !.secs[4].type = "PROGBITS"],
     [Base EXCEPT !.secs[5].type = "STRTAB"], [Base EXCEPT !.secs[8].info = 9]}
    \cup {[Base EXCEPT !.secs[k].name = "other"] : k \in 2..4}

(* Kinds of the last symbols.                                              *)
Kinds ==
    LET other == {Sym("y", 0, 0), [Sym("y", 0, 0) EXCEPT !.weak = TRUE], Sym("y", 1, 2),
                  Sym("y", SHN_ABS, 7), Sym("y", SHN_COMMON, 0),
                  [Sym("y", SHN_COMMON, 0) EXCEPT !.lto = TRUE],
                  [Sym("f", 1, 5) EXCEPT !.weak = TRUE]}
    IN  {[Base EXCEPT !.syms[3] = s, !.syms[4] = t] : s, t \in other}

(* Every type of relocation, for a defined and for an undefined symbol,    *)
(* followed by one that is checked.                                        *)
Relocs(types, next, sums) ==
    {[Base EXCEPT !.rels[6][0] = Rela(0, t, a[1], a[2]), !.rels[6][1] = n,
                  !.syms[4] = Sym("z", 1, 0)] :
        t \in types, n \in next, a \in sums}

Sums == {<<3, 0>>, <<3, -4>>, <<1, 2>>, <<3, 30>>}

X86Objects ==
    Relocs(X86Types \cup {"OTHER"}, {Rela(4, "32S", 3, 0), Rela(4, "PC32", 2, -4)}, Sums)
    \cup Relocs({"64", "PC32"}, {Rela(0, t, 3, 0) : t \in {"32", "PLT32"}}, {<<3, 0>>})
    \cup {[Base EXCEPT !.syms[1].tls = TRUE, !.rels[6][0] = Rela(0, "NONE", 0, 9),
                       !.rels[6][1] = Rela(4, "GOTTPOFF", 1, 0)]}

A64Objects ==
    Relocs(A64Types \cup {"OTHER"}, {Rela(4, "ABS16", 1, 0), Rela(4, "JUMP26", 3, 0)}, Sums)

(* "x" and "y" are unknown, low, near either mapping, or far away.         *)
Table(x, y) ==
    [n \in {"", "f", "g", "h", "loc", "x", "y", "z"} |->
        CASE n = "g" -> 20 [] n = "x" -> x [] n = "y" -> y [] OTHER -> 0]

Near == {5, 60, 1090, 2500, 4092}

CasesOf(objects, builds, tables, loaded) ==
    {[obj |-> o, arch |-> b[1], hdr |-> b[2], target |-> b[3], tsym |-> t, ulps |-> u] :
        o \in objects, b \in builds, t \in tables, u \in loaded}

(* Addresses in the host differ from those in the target, or not.          *)
X86 == <<"x86_64", 1024, 40>>
A64 == <<"aarch64", 1024, 1056>>
A64Same == <<"aarch64", 1056, 1056>>

MCCases ==
    CasesOf({Base} \cup Malformed \cup Kinds, {X86, A64},
            {Table(x, y) : x, y \in {0, 60}}, {{}, {"id1"}, {"id2"}})
    \cup CasesOf(X86Objects, {X86}, {Table(x, 0) : x \in Near}, {{}})
    \cup CasesOf(A64Objects, {A64, A64Same}, {Table(x, 0) : x \in Near}, {{}})

=============================================================================
