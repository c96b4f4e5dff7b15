---------------------------- MODULE MCTaskSession ----------------------------
(***************************************************************************)
(* Two tasks of one process; a target with an executable whose headers     *)
(* show twice, which another tool may patch, and a patched one with an     *)
(* executable of the usual layout, whose patch has a "count" of its own.   *)
(***************************************************************************)
EXTENDS TaskSession

CONSTANTS t1, t2

H(type, vaddr, filesz, memsz, offset, fl) ==
    [type |-> type, vaddr |-> vaddr, filesz |-> filesz, memsz |-> memsz,
     offset |-> offset, flags |-> fl]

Y(name, value, sect, plt) ==
    [name |-> name, value |-> value, sect |-> sect, plt |-> plt, debug |-> FALSE]

Plain == [exists |-> TRUE, elf |-> FALSE, bfd |-> FALSE, traits |-> {}, phdrs |-> <<>>,
          symtab |-> <<>>, dynsym |-> <<>>, synth |-> <<>>]
Elf == [Plain EXCEPT !.elf = TRUE, !.bfd = TRUE]

(* Small: the page of the header is mapped again for the data.             *)
SmallPhdrs == <<H("LOAD", 0, 3, 3, 0, {"r", "x"}), H("LOAD", 7, 1, 2, 3, {"r", "w"})>>
(* Usual: code apart, and the data read-only up to the end of RELRO.       *)
UsualPhdrs == <<H("LOAD", 0, 4, 4, 0, {"r"}), H("LOAD", 4, 4, 4, 4, {"r", "x"}),
                H("LOAD", 14, 6, 8, 10, {"r", "w"}), H("RELRO", 14, 2, 2, 10, {"r"})>>
FixedPhdrs == <<H("LOAD", 40, 4, 4, 0, {"r", "x"}), H("LOAD", 46, 2, 3, 6, {"r", "w"})>>

MCFiles ==
    "small" :> [Elf EXCEPT !.phdrs = SmallPhdrs,
                           !.symtab = <<Y("main", 1, "text", FALSE), Y("open", 0, "und", FALSE)>>,
                           !.synth = <<Y("open", 2, "text", TRUE)>>]
    @@ "usual" :> [Elf EXCEPT !.phdrs = UsualPhdrs,
                              !.dynsym = <<Y("main", 5, "text", FALSE), Y("count", 16, "data", FALSE)>>]
    @@ "libc" :> [Elf EXCEPT !.phdrs = SmallPhdrs, !.traits = {"libc", "lib"},
                             !.symtab = <<Y("open", 1, "text", FALSE), Y("errno", 7, "data", FALSE),
                                          Y("puts", 2, "text", FALSE), Y("puts", 3, "text", FALSE)>>]
    @@ "fixed" :> [Elf EXCEPT !.phdrs = FixedPhdrs, !.symtab = <<Y("plug", 41, "text", FALSE)>>]
    @@ "bare" :> [Elf EXCEPT !.traits = {"lib"}]
    @@ "noload" :> [Elf EXCEPT !.phdrs = <<H("NOTE", 0, 1, 1, 0, {"r"})>>, !.bfd = FALSE]
    @@ "odd" :> [Elf EXCEPT !.phdrs = SmallPhdrs, !.bfd = FALSE,
                            !.symtab = <<Y("odd", 1, "text", FALSE)>>]
    @@ "vdso" :> [Elf EXCEPT !.exists = FALSE, !.phdrs = SmallPhdrs, !.traits = {"vdso"}]
    @@ "ulp1" :> [Elf EXCEPT !.traits = {"ulpatch"}, !.symtab = <<Y("fix", 89, "text", FALSE)>>]
    @@ "ulp2" :> [Elf EXCEPT !.traits = {"ulpatch"},
                             !.symtab = <<Y("fix", 33, "text", FALSE), Y("count", 34, "data", FALSE),
                                          Y("puts", 46, "und", FALSE)>>]
    @@ "etc" :> [Plain EXCEPT !.traits = {"etc"}]
    @@ "heap" :> [Plain EXCEPT !.exists = FALSE, !.traits = {"heap"}]
    @@ "stack" :> [Plain EXCEPT !.exists = FALSE, !.traits = {"stack"}]

Img(name, base) == [name |-> name, base |-> base]
One(name, start) ==
    [name |-> name, area |-> [name |-> name, start |-> start, end |-> start + 4,
                              off |-> 0, prot |-> {"r"}]]

MCImages ==
    101 :> <<Img("small", 20), Img("fixed", 0), One("noload", 52), One("bare", 56), One("etc", 60),
             Img("libc", 64), Img("libc", 72), Img("odd", 80), One("ulp1", 88), One("stack", 96)>>
    @@ 102 :> <<Img("usual", 8), One("ulp2", 32), One("heap", 36), Img("libc", 44),
                Img("vdso", 60), One("stack", 96)>>
MCExe == 101 :> "small" @@ 102 :> "usual"

FTO_ALL == 0..8
MCFlags == {{}, FTO_VMA_ELF_FILE, FTO_ALL}
MCGarbage == {<<H("NULL", 0, 0, 0, 0, {})>>, <<H("LOAD", 1, 2, 2, 0, {"r"})>>}
Tasks == {t1, t2}
Symmetric == Permutations(Tasks)
=============================================================================
