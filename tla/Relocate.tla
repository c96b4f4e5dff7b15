------------------------------- MODULE Relocate -------------------------------
(***************************************************************************)
(* What one relocation writes: arch_apply_relocate_add() of x86_64 and of  *)
(* aarch64 for one entry of a section, and the encoding of immediates in   *)
(* an instruction of aarch64.                                              *)
(*                                                                         *)
(* Numbers keep their widths, scaled down: a short has Unit bits (16 in    *)
(* the code), an int twice and a long four times as many.  A place that is *)
(* relocated is a cell [opc, imm]: the opcode and the immediate of an      *)
(* instruction, or "data" and a number.                                    *)
(***************************************************************************)
EXTENDS Integers

CONSTANTS
    Unit,    \* bits of a short: 16
    Page,    \* bits of an offset in a page, and of AARCH64_INSN_IMM_12: 12
    Imm      \* bits of the other immediates: ADR 21, B26 26, B19 19, B14 14

Int32 == 2 * Unit
Long == 4 * Unit

(* The last conjunct follows from the first.                               *)
WidthConstants ==
    /\ Unit \in Nat \ {0} /\ Page \in 5..Long
    /\ \A f \in {"ADR", "B26", "B19", "B14"} : Imm[f] \in 3..(Long - 2)
    /\ 2^Long \in Nat \ {0}

ASSUME WidthAssumption == WidthConstants

(* uint64_t                                                                *)
Wrap(x) == x % 2^Long

(* The low b bits of x as a signed number.                                 *)
Signed(x, b) == LET y == x % 2^b IN IF y < 2^(b - 1) THEN y ELSE y - 2^b

PageOf(x) == x - (x % 2^Page)

(* Special section indexes of a symbol.                                    *)
SHN_UNDEF == 0
SHN_LORESERVE == 65280
SHN_ABS == 65521
SHN_COMMON == 65522

IsUndefSymbol(s) == s.ndx = SHN_UNDEF \/ s.ndx >= SHN_LORESERVE

-----------------------------------------------------------------------------
(* x86_64.  Place p and header hdr are addresses in the target; a0 is the  *)
(* addend of the section's first entry (the code reads rel->r_addend).     *)

X86Got == {"GOTTPOFF", "GOTPCREL", "REX_GOTPCRELX", "GOTPCRELX"}
X86Pc32 == X86Got \cup {"PC32", "PLT32"}
X86Types == X86Pc32 \cup {"NONE", "64", "32", "32S", "PC64", "TPOFF64", "TPOFF32"}

X86Len(t) == IF t \in {"64", "PC64"} THEN Long ELSE Int32

X86Val(t, s, add, a0, hdr, p) ==
    LET val == IF t \in X86Got /\ ~IsUndefSymbol(s) /\ s.tls
               THEN a0 + hdr - 4
               ELSE s.value + add
    IN  IF t \in X86Pc32 \cup {"PC64"} THEN Wrap(val - p) ELSE Wrap(val)

X86Overflow(t, val) ==
    \/ t = "32" /\ val # val % 2^Int32
    \/ t = "32S" /\ Signed(val, Long) # Signed(val, Int32)

(* An entry of type t: the cell it leaves and the error it ends with.      *)
X86Apply(t, s, add, a0, hdr, p, old) ==
    LET val == X86Val(t, s, add, a0, hdr, p)
        new == [old EXCEPT !.imm = val % 2^X86Len(t)]
    IN  CASE t \notin X86Types -> [cell |-> old, err |-> "ENOEXEC"]
          [] t \in {"NONE", "TPOFF64", "TPOFF32"} -> [cell |-> old, err |-> "OK"]
          [] OTHER -> IF old.imm # 0 THEN [cell |-> old, err |-> "ENOEXEC"]
                      ELSE [cell |-> new,
                            err |-> IF X86Overflow(t, val) THEN "ENOEXEC" ELSE "OK"]

-----------------------------------------------------------------------------
(* aarch64: the form of every type.                                        *)

Data(op, units) == [form |-> "data", op |-> op, lsb |-> 0, len |-> units * Unit, field |-> "data"]
Movw(op, group, kind) ==
    [form |-> "movw", op |-> op, lsb |-> group * Unit, len |-> Unit, field |-> kind]
Insn(op, lsb, len, field) ==
    [form |-> "imm", op |-> op, lsb |-> lsb, len |-> len, field |-> field]

A64DataForms ==
    [ABS64 |-> Data("ABS", 4), ABS32 |-> Data("ABS", 2), ABS16 |-> Data("ABS", 1),
     PREL64 |-> Data("PREL", 4), PREL32 |-> Data("PREL", 2), PREL16 |-> Data("PREL", 1)]

A64MovwForms ==
    [MOVW_UABS_G0_NC |-> Movw("ABS", 0, "MOVKZ"), MOVW_UABS_G0 |-> Movw("ABS", 0, "MOVKZ"),
     MOVW_UABS_G1_NC |-> Movw("ABS", 1, "MOVKZ"), MOVW_UABS_G1 |-> Movw("ABS", 1, "MOVKZ"),
     MOVW_UABS_G2_NC |-> Movw("ABS", 2, "MOVKZ"), MOVW_UABS_G2 |-> Movw("ABS", 2, "MOVKZ"),
     MOVW_UABS_G3    |-> Movw("ABS", 3, "MOVKZ"),
     MOVW_SABS_G0    |-> Movw("ABS", 0, "MOVNZ"), MOVW_SABS_G1 |-> Movw("ABS", 1, "MOVNZ"),
     MOVW_SABS_G2    |-> Movw("ABS", 2, "MOVNZ"),
     MOVW_PREL_G0_NC |-> Movw("PREL", 0, "MOVKZ"), MOVW_PREL_G0 |-> Movw("PREL", 0, "MOVNZ"),
     MOVW_PREL_G1_NC |-> Movw("PREL", 1, "MOVKZ"), MOVW_PREL_G1 |-> Movw("PREL", 1, "MOVNZ"),
     MOVW_PREL_G2_NC |-> Movw("PREL", 2, "MOVKZ"), MOVW_PREL_G2 |-> Movw("PREL", 2, "MOVNZ"),
     MOVW_PREL_G3    |-> Movw("PREL", 3, "MOVNZ")]

A64ImmForms ==
    [LD_PREL_LO19          |-> Insn("PREL", 2, Imm.B19, "B19"),
     ADR_PREL_LO21         |-> Insn("PREL", 0, Imm.ADR, "ADR"),
     ADR_PREL_PG_HI21_NC   |-> Insn("PAGE", Page, Imm.ADR, "ADR"),
     ADR_PREL_PG_HI21      |-> Insn("PAGE", Page, Imm.ADR, "ADR"),
     ADD_ABS_LO12_NC       |-> Insn("ABS", 0, Page, "I12"),
     LDST8_ABS_LO12_NC     |-> Insn("ABS", 0, Page, "I12"),
     LDST16_ABS_LO12_NC    |-> Insn("ABS", 1, Page - 1, "I12"),
     LDST32_ABS_LO12_NC    |-> Insn("ABS", 2, Page - 2, "I12"),
     LDST64_ABS_LO12_NC    |-> Insn("ABS", 3, Page - 3, "I12"),
     LDST128_ABS_LO12_NC   |-> Insn("ABS", 4, Page - 4, "I12"),
     TSTBR14               |-> Insn("PREL", 2, Imm.B14, "B14"),
     CONDBR19              |-> Insn("PREL", 2, Imm.B19, "B19"),
     JUMP26                |-> Insn("PREL", 2, Imm.B26, "B26"),
     CALL26                |-> Insn("PREL", 2, Imm.B26, "B26")]

A64Types == {"NONE"} \cup DOMAIN A64DataForms \cup DOMAIN A64MovwForms \cup DOMAIN A64ImmForms

A64Form(t) ==
    CASE t \in DOMAIN A64DataForms -> A64DataForms[t]
      [] t \in DOMAIN A64MovwForms -> A64MovwForms[t]
      [] t \in DOMAIN A64ImmForms  -> A64ImmForms[t]

(* The types that turn overflow_check off.                                 *)
A64NoCheck ==
    {"ABS64", "PREL64", "MOVW_UABS_G0_NC", "MOVW_UABS_G1_NC", "MOVW_UABS_G2_NC",
     "MOVW_UABS_G3", "MOVW_PREL_G0_NC", "MOVW_PREL_G1_NC", "MOVW_PREL_G2_NC",
     "MOVW_PREL_G3", "ADR_PREL_PG_HI21_NC", "ADD_ABS_LO12_NC", "LDST8_ABS_LO12_NC",
     "LDST16_ABS_LO12_NC", "LDST32_ABS_LO12_NC", "LDST64_ABS_LO12_NC",
     "LDST128_ABS_LO12_NC"}

(* Mutant: the page of the place, not its distance to that of the value.   *)
DoRelocPage(op, place, val) ==
    CASE op = "ABS" -> val
      [] op = "PREL" -> Wrap(val - place)
      [] op = "PAGE" -> Wrap(PageOf(val - place))

(* do_reloc()                                                              *)
DoReloc(op, place, val) ==
    CASE op = "ABS" -> val
      [] op = "PREL" -> Wrap(val - place)
      [] op = "PAGE" -> Wrap(PageOf(val) - PageOf(place))

(* reloc_data()                                                            *)
RelocData(f, place, val) ==
    LET sval == Signed(DoReloc(f.op, place, val), Long)
        low == IF f.op = "ABS" THEN 0 ELSE -(2^(f.len - 1))
        high == IF f.op = "ABS" THEN 2^f.len - 1 ELSE 2^(f.len - 1) - 1
    IN  [cell |-> [opc |-> "data", imm |-> sval % 2^f.len],
         ovf |-> f.len < Long /\ (sval < low \/ sval > high)]

(* Bits of the field of an immediate: aarch64_get_imm_shift_mask()         *)
FieldBits(field) ==
    CASE field \in {"MOVKZ", "MOVNZ"} -> Unit
      [] field = "I12" -> Page
      [] OTHER -> Imm[field]

(* aarch64_insn_encode_immediate(): ADR has its two low bits apart.        *)
EncodeImmediate(field, insn, imm) ==
    IF insn.opc = "brk" THEN insn
    ELSE [insn EXCEPT !.imm =
            IF field = "ADR" THEN <<imm % 4, (imm \div 4) % 2^(Imm.ADR - 2)>>
                             ELSE imm % 2^FieldBits(field)]

(* aarch64_insn_decode_immediate()                                         *)
DecodeImmediate(field, insn) ==
    IF field = "ADR" THEN insn.imm[2] * 4 + insn.imm[1] ELSE insn.imm

(* reloc_insn_movw()                                                       *)
RelocInsnMovw(f, insn, place, val) ==
    LET sval == Signed(DoReloc(f.op, place, val), Long)
        movn == f.field = "MOVNZ" /\ sval < 0
        bits == Wrap(sval \div 2^f.lsb)
        imm == IF movn THEN 2^Long - 1 - bits ELSE bits
        opc == IF f.field = "MOVKZ" THEN insn.opc ELSE IF movn THEN "movn" ELSE "movz"
    IN  [cell |-> EncodeImmediate(f.field, [insn EXCEPT !.opc = opc], imm),
         ovf |-> imm > 2^Unit - 1]

(* Mutant: the sign bit does not count as one of the upper bits.           *)
RelocInsnImmUnsigned(f, insn, place, val) ==
    LET sval == Signed(DoReloc(f.op, place, val), Long) \div 2^f.lsb
        upper == sval \div 2^f.len
    IN  [cell |-> EncodeImmediate(f.field, insn, sval % 2^f.len),
         ovf |-> upper \notin {-1, 0}]

(* reloc_insn_imm(), reloc_insn_adrp()                                     *)
RelocInsnImm(f, insn, place, val) ==
    LET sval == Signed(DoReloc(f.op, place, val), Long) \div 2^f.lsb
        upper == sval \div 2^(f.len - 1)
    IN  [cell |-> EncodeImmediate(f.field, insn, sval % 2^f.len),
         ovf |-> upper \notin {-1, 0}]

A64Value(t, place, val, old) ==
    LET f == A64Form(t)
    IN  CASE f.form = "data" -> RelocData(f, place, val)
          [] f.form = "movw" -> RelocInsnMovw(f, old, place, val)
          [] f.form = "imm"  -> RelocInsnImm(f, old, place, val)

(* overflow_check after an entry: nothing in the loop turns it on again.   *)
CheckAfter(t, check) == check /\ t \notin A64NoCheck

(* An entry of type t.  The place is an address of the HOST's mapping.     *)
A64Apply(t, s, add, place, old, check) ==
    IF t \notin A64Types THEN [cell |-> old, err |-> "ENOEXEC"]
    ELSE IF t = "NONE" THEN [cell |-> old, err |-> "OK"]
    ELSE LET r == A64Value(t, place, Wrap(s.value + add), old)
         IN  [cell |-> r.cell,
              err |-> IF CheckAfter(t, check) /\ r.ovf THEN "ENOEXEC" ELSE "OK"]

=============================================================================
