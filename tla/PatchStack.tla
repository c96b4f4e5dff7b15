----------------------------- MODULE PatchStack -----------------------------
(***************************************************************************)
(* What live patching promises, without tools, files or areas: the target  *)
(* has a stack of patches, patching pushes one, unpatching pops the last,  *)
(* and the text is at every moment what the stack says.                    *)
(***************************************************************************)
EXTENDS Naturals, Sequences

CONSTANTS Obj, Addr, DstAddr

VARIABLES
    stack,  \* the patches in effect, oldest first
    code    \* each word of text: original, the jump opcode, or its patch

Entry(o) == {DstAddr[o], DstAddr[o] + 1}

Word(o, a) == IF a = DstAddr[o] THEN "jmp" ELSE o

(* The text a stack makes: each word is of the last patch that covers it.  *)
Render(stk) ==
    [a \in Addr |->
       LET over == {i \in DOMAIN stk : a \in Entry(stk[i])}
       IN  IF over = {} THEN "text"
           ELSE Word(stk[CHOOSE i \in over : \A j \in over : j <= i], a)]

Init ==
    /\ stack = <<>>
    /\ code = [a \in Addr |-> "text"]

(* A patch whose Build ID is not in effect yet is put on top.              *)
Apply(o) ==
    /\ \A i \in DOMAIN stack : stack[i] # o
    /\ stack' = Append(stack, o)
    /\ code' = Render(stack')

(* The last patch is taken away.                                           *)
Revert ==
    /\ stack # <<>>
    /\ stack' = SubSeq(stack, 1, Len(stack) - 1)
    /\ code' = Render(stack')

Next == (\E o \in Obj : Apply(o)) \/ Revert

Spec == Init /\ [][Next]_<<stack, code>>

=============================================================================
