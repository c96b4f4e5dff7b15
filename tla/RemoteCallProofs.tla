-------------------------- MODULE RemoteCallProofs --------------------------
(***************************************************************************)
(* Proofs about RemoteCall, for any set of signals, either architecture    *)
(* and a target that may die: types, that no signal is lost and that       *)
(* borrowed code is put back; and, as long as no SIGSEGV was sent to the   *)
(* target, that the application resumes as it was, that none of its        *)
(* descriptors is touched and that the tool knows whether the area is      *)
(* mapped; and, as long as no SIGSTOP was sent either, that the buffer and *)
(* the descriptor of the mapping do not stay in the target, if that had    *)
(* its standard descriptors open.                                          *)
(***************************************************************************)
EXTENDS RemoteCall, TLAPS

IsStop(s) == KindOf(s) = "STOP"

(* A tracee is stopped with the signal the tool has yet to look at while   *)
(* the tool waits for it, and with none when the tool does not wait.       *)
StopInv ==
    /\ traced = "no" => run # "stop"
    /\ run = "run" => status = "none"
    /\ run = "stop" =>
         /\ step # "wait" /\ pc # "attwait" => status = "none"
         /\ pc = "attwait" => status \in Sig \cup {AttachStop}
         /\ step = "wait" => status \in Sig \cup {Trap}
    /\ step = "wait" => pc \in Calls /\ traced = "yes"
    /\ pc = "attwait" => traced = "yes" /\ step = "begin"
    /\ pc \notin Calls => step = "begin"
    /\ pc \in {"create", "loaded", "delete"} => traced = "no"
    /\ traced = "yes" /\ step # "wait" /\ pc # "attwait" => run # "run"

(* The SIGSTOP of PTRACE_ATTACH is pending only until task_attach() sees   *)
(* a SIGSTOP, since a pending SIGSTOP swallows another.                    *)
AttachInv ==
    run # "dead" /\ AttachStop \in pend =>
      /\ pc = "attwait"
      /\ \A s \in pend : IsStop(s) => s = AttachStop
      /\ run = "stop" => ~IsStop(status)

(* task_syscall() has borrowed the code exactly while it waits.            *)
CodeInv ==
    /\ step = "wait" => code = "syscall" /\ orig = "orig" /\ regs # "app"
    /\ CodeBack

(* What the remote open may return.                                        *)
OpenInv ==
    pc = "open" =>
      /\ step = "wait" => res = "undef"
      /\ step = "wait" /\ regs = "ret" => rax \in Free \cup {"err"}
      /\ step = "done" => res \in Free \cup {"err", "undef"}

CallInv == TypeOK /\ StopInv /\ AttachInv /\ CodeInv /\ OpenInv /\ SignalsKept

(* Steps of the tool that leave the target alone.                          *)
ToolOnly ==
    \/ MallocReturns \/ OpenReturns \/ FreeReturns \/ FtruncateReturns
    \/ MmapReturns \/ CloseReturns \/ MunmapReturns \/ SkipRemoteFd
    \/ DeletePatch

-----------------------------------------------------------------------------
USE DEF AttachStop, Trap, Kinds

LEMMA KindOfType ==
    /\ KindOf(AttachStop) = "STOP"
    /\ KindOf(Trap) = "TRAP"
    /\ \A s \in Sig : KindOf(s) = Kind[s] /\ Kind[s] \in Kinds
  BY SignalsAssumption DEF KindOf

LEMMA ToolOnlyFrame ==
    ASSUME CallInv, ToolOnly
    PROVE  /\ UNCHANGED <<target, run, traced, pend, status, sent, got, old, orig, res>>
           /\ pc # "attwait"
           /\ \/ pc \in Calls /\ pc' \in Calls \cup {"detach", "leave", "exit"}
              \/ pc = "loaded" /\ pc' = "delete"
           /\ step # "wait" /\ step' = "begin"
  <1>1. CASE SkipRemoteFd
    BY <1>1 DEF SkipRemoteFd, ShouldSkipRemoteFd, Calls
  <1>2. CASE DeletePatch
    BY <1>2 DEF DeletePatch, CallInv, StopInv, Calls
  <1>3. QED
    BY <1>1, <1>2, Zenon DEF ToolOnly, MallocReturns, OpenReturns, FreeReturns, FtruncateReturns, MmapReturns, CloseReturns, MunmapReturns, Return, Calls

(* Steps that concern neither the tool nor the call it makes.              *)
Aside ==
    /\ UNCHANGED <<target, traced, pc, step, old, orig, res, locals>>
    /\ run = "dead" => run' = "dead"

(* The steps that the invariants of a session have to be checked for.      *)
Steps ==
    \/ Aside \/ Execute \/ TaskAttach \/ AttachWait \/ TaskDetach \/ Exit
    \/ SyscallBegin \/ SyscallEnd \/ SyscallFail \/ ToolOnly

LEMMA NextSteps == [Next]_vars => Steps
  <1>1. ASSUME NEW s \in Sig, Send(s) PROVE Aside
    BY <1>1 DEF Send, Aside
  <1>2. ASSUME NEW s \in pend, Signal(s) PROVE Aside
    BY <1>2 DEF Signal, Aside
  <1>3. CASE Die \/ Break \/ SyscallPass
    BY <1>3 DEF Die, Break, SyscallPass, Cont, Aside, Steps
  <1>4. CASE UNCHANGED vars
    BY <1>4 DEF vars, Aside, Steps
  <1>5. QED
    BY <1>1, <1>2, <1>3, <1>4, Zenon DEF Next, Tool, Target, ToolOnly, Steps

(* What the tool does after each call.                                     *)
After ==
    /\ pc = "malloc" => /\ step = "done" /\ pc' = "open"
                        /\ name' = IF res = "buf" THEN "buf" ELSE "bad"
    /\ pc = "open" => /\ step = "done" /\ pc' = "free"
                      /\ IF res = "undef" THEN fd' \in Fds ELSE fd' = res
    /\ pc = "free" => /\ step = "done" /\ pc' \in {"ftruncate", "exit"}
                      /\ fd \notin {"err", "zero"} => pc' = "ftruncate"
    /\ pc = "ftruncate" => pc' \in {"mmap", "close"}
    /\ pc = "mmap" => /\ step = "done" /\ pc' = "close"
                      /\ IF res = "area" THEN hdr' = "area" ELSE hdr' \in {hdr, "bad"}
    /\ pc = "close" => pc' = "detach" /\ (step = "done" \/ fd = "std")
    /\ pc = "munmap" => pc' = "leave"
    /\ pc = "loaded" => pc' = "delete"
    /\ pc \in Calls \cup {"loaded"}
    /\ pc # "malloc" => UNCHANGED name
    /\ pc # "open" => UNCHANGED fd
    /\ pc # "mmap" => UNCHANGED hdr
    /\ err' \in {err, "yes"}

LEMMA ToolOnlyNext == ASSUME ToolOnly PROVE After
  <1>1. CASE MallocReturns
    BY <1>1 DEF MallocReturns, Return, After, Calls
  <1>2. CASE OpenReturns
    BY <1>2 DEF OpenReturns, Return, After, Calls
  <1>3. CASE FreeReturns
    BY <1>3 DEF FreeReturns, Return, After, Calls
  <1>4. CASE FtruncateReturns
    BY <1>4 DEF FtruncateReturns, Return, After, Calls
  <1>5. CASE MmapReturns
    BY <1>5 DEF MmapReturns, Return, After, Calls
  <1>6. CASE CloseReturns
    BY <1>6 DEF CloseReturns, Return, After, Calls, locals
  <1>7. CASE MunmapReturns
    BY <1>7 DEF MunmapReturns, Return, After, Calls, locals
  <1>8. CASE SkipRemoteFd
    BY <1>8 DEF SkipRemoteFd, ShouldSkipRemoteFd, After, Calls
  <1>9. CASE DeletePatch
    BY <1>9 DEF DeletePatch, After, Calls, locals
  <1>10. QED
    BY <1>1, <1>2, <1>3, <1>4, <1>5, <1>6, <1>7, <1>8, <1>9 DEF ToolOnly

(* What each call does in the target.                                      *)
Effect ==
    /\ rax' \in Results \ {"undef"}
    /\ pc = "open" => rax' \in Free \cup {"err"}
    /\ pc = "malloc" => rax' = "buf" \/ buf' = buf
    /\ pc = "free" /\ name = "buf" => buf' = "no"
    /\ pc # "malloc" => buf' = buf \/ buf' = "no"
    /\ buf' \in {buf, "yes", "no"}
    /\ pc = "open" => rax' = low \/ opened' = opened
    /\ pc = "close" => opened' = opened \ {fd}
    /\ pc \notin {"open", "close"} => opened' = opened
    /\ opened' \subseteq opened \cup {low}
    /\ \/ hit' = hit
       \/ pc \in {"ftruncate", "close"} /\ Touched(fd)
    /\ pc = "mmap" => \/ area' = "yes" /\ rax' = "area"
                      \/ area' = area /\ rax' = "err"
    /\ pc = "munmap" => area' = area \/ area' = "no"
    /\ pc \notin {"mmap", "munmap"} => area' = area

LEMMA ExecuteEffect == ASSUME low \in Free, Execute PROVE Effect
  <1>1. CASE KernelMalloc
    BY <1>1 DEF KernelMalloc, Effect, Results, Fds
  <1>2. CASE KernelOpen
    BY <1>2 DEF KernelOpen, Effect, Results, Fds, Free
  <1>3. CASE KernelFree
    BY <1>3 DEF KernelFree, Effect, Results, Fds
  <1>4. CASE KernelFtruncate
    BY <1>4 DEF KernelFtruncate, Effect, Results, Fds
  <1>5. CASE KernelMmap
    BY <1>5 DEF KernelMmap, Effect, Results, Fds
  <1>6. CASE KernelClose
    BY <1>6 DEF KernelClose, Effect, Results, Fds
  <1>7. CASE KernelMunmap
    BY <1>7 DEF KernelMunmap, Effect, Results, Fds
  <1>8. QED
    BY <1>1, <1>2, <1>3, <1>4, <1>5, <1>6, <1>7 DEF Execute

LEMMA ExecuteFrame ==
    ASSUME CallInv, Execute
    PROVE  /\ UNCHANGED <<run, traced, code, pend, status, sent, got, pc, step,
                          old, orig, res, locals>>
           /\ run = "run" /\ step = "wait" /\ regs' = "ret"
           /\ rax' \in Results \ {"undef"}
           /\ pc = "open" => rax' \in Free \cup {"err"}
  <1>1. run = "run" /\ step = "wait"
    BY DEF Execute, CallInv, CodeInv, CodeBack
  <1>2. /\ rax' \in Results \ {"undef"}
        /\ pc = "open" => rax' \in Free \cup {"err"}
    BY ExecuteEffect DEF Effect, CallInv, TypeOK
  <1>3. QED
    BY <1>1, <1>2 DEF Execute

LEMMA CallTypes ==
    ASSUME CallInv
    PROVE  /\ run \in {"run", "stop", "dead"} /\ traced \in {"yes", "no"}
           /\ regs \in {"app", "call", "ret"} /\ step \in {"begin", "wait", "done"}
           /\ pend \in SUBSET (Sig \cup {AttachStop})
           /\ got \in SUBSET Sig /\ sent \in SUBSET Sig
           /\ low \in Free /\ opened \in SUBSET Free /\ hit \in SUBSET {"std", "own"}
           /\ res \in Results /\ rax \in Results /\ fd \in Fds
  BY DEF CallInv, TypeOK

LEMMA TypeStep == CallInv /\ [Next]_vars => TypeOK'
  <1> SUFFICES ASSUME CallInv, [Next]_vars PROVE TypeOK'
    OBVIOUS
  <1>1. ASSUME NEW s \in Sig, Send(s) PROVE TypeOK'
    BY <1>1, KindOfType DEF Send, Queue, CallInv, TypeOK, target, locals
  <1>2. ASSUME NEW s \in pend, Signal(s) PROVE TypeOK'
    <2>1. got' \in SUBSET Sig
      BY <1>2, CallTypes DEF Signal, CallInv, AttachInv, StopInv
    <2>2. run' \in {"run", "stop", "dead"} /\ pend' \in SUBSET (Sig \cup {AttachStop})
      BY <1>2, CallTypes DEF Signal
    <2>3. status' \in Sig \cup {AttachStop, Trap, "none"}
      BY <1>2, CallTypes DEF Signal, CallInv, TypeOK
    <2>4. QED
      BY <1>2, <2>1, <2>2, <2>3 DEF Signal, CallInv, TypeOK, target, locals
  <1>3. CASE Die
    BY <1>3, KindOfType DEF Die, CallInv, TypeOK, target, locals
  <1>4. CASE Execute
    <2>1. opened' \in SUBSET Free /\ hit' \in SUBSET {"std", "own"}
      BY <1>4, CallTypes, ExecuteEffect DEF Effect, Touched
    <2>2. buf' \in {"yes", "no"} /\ area' \in {"yes", "no"}
      BY <1>4, ExecuteEffect DEF Effect, CallInv, TypeOK
    <2>3. rax' \in Results /\ regs' = "ret"
      BY <1>4, ExecuteFrame
    <2>4. QED
      BY <1>4, <2>1, <2>2, <2>3 DEF Execute, CallInv, TypeOK, target, locals
  <1>5. CASE Break
    BY <1>5, KindOfType DEF Break, CallInv, TypeOK, target, locals
  <1>6. CASE TaskAttach
    <2>1. traced' \in {"yes", "no"} /\ pc' \in {"attwait", "malloc", "munmap"}
      BY <1>6, CallTypes DEF TaskAttach, AfterAttach
    <2>2. pend' \in SUBSET (Sig \cup {AttachStop})
      BY <1>6, CallTypes DEF TaskAttach, Queue
    <2>3. QED
      BY <1>6, <2>1, <2>2 DEF TaskAttach, Calls, CallInv, TypeOK, target, locals
  <1>7. CASE AttachWait
    <2>1. run' \in {"run", "stop", "dead"} /\ pc' \in {"attwait", "malloc", "munmap"}
      BY <1>7, CallTypes DEF AttachWait, Cont, AfterAttach
    <2>2. got' \in SUBSET Sig
      BY <1>7, CallTypes, KindOfType DEF AttachWait, Cont, CallInv, StopInv
    <2>3. status' \in Sig \cup {AttachStop, Trap, "none"}
      BY <1>7 DEF AttachWait, Cont, CallInv, TypeOK
    <2>4. QED
      BY <1>7, <2>1, <2>2, <2>3 DEF AttachWait, Calls, CallInv, TypeOK, target,
         locals
  <1>8. CASE TaskDetach \/ Exit
    <2>1. run' \in {"run", "stop", "dead"} /\ traced' = "no" /\ pc' \in {"exit", "loaded", "end"}
      BY <1>8, CallTypes DEF TaskDetach, Exit, LetGo
    <2>2. UNCHANGED <<target, pend, status, sent, got, step, old, orig, res, locals>>
      BY <1>8 DEF TaskDetach, Exit
    <2>3. QED
      BY <1>8, <2>1, <2>2 DEF CallInv, TypeOK, target, locals
  <1>9. CASE SyscallBegin
    <2>1. old' \in {"app", "call", "ret"} /\ regs' \in {"app", "call", "ret"} /\ run' \in {"run", "stop", "dead"}
      BY <1>9, CallTypes, Zenon DEF SyscallBegin, CallInv, TypeOK
    <2>2. orig' \in {"orig", "syscall"} /\ code' \in {"orig", "syscall"} /\ step' \in {"begin", "wait", "done"}
      BY <1>9 DEF SyscallBegin, CallInv, TypeOK
    <2>3. status' \in Sig \cup {AttachStop, Trap, "none"} /\ res' \in Results
      BY <1>9 DEF SyscallBegin, CallInv, TypeOK, Results
    <2>4. QED
      BY <1>9, <2>1, <2>2, <2>3 DEF SyscallBegin, CallInv, TypeOK, target,
         locals
  <1>10. CASE SyscallEnd
    <2>1. res' \in Results
      BY <1>10, CallTypes DEF SyscallEnd, Early, Results, Fds, Free
    <2>2. regs' \in {"app", "call", "ret"} /\ code' \in {"orig", "syscall"} /\ step' = "done" /\ status' = "none"
      BY <1>10 DEF SyscallEnd, CallInv, TypeOK
    <2>3. QED
      BY <1>10, <2>1, <2>2 DEF SyscallEnd, CallInv, TypeOK, target, locals
  <1>11. CASE SyscallPass
    <2>1. got' \in SUBSET Sig
      BY <1>11, CallTypes, KindOfType DEF SyscallPass, Cont, CallInv, StopInv
    <2>2. run' = "run" /\ status' = "none"
      BY <1>11 DEF SyscallPass, Cont
    <2>3. QED
      BY <1>11, <2>1, <2>2 DEF SyscallPass, CallInv, TypeOK, target, locals
  <1>12. CASE SyscallFail
    BY <1>12, KindOfType DEF SyscallFail, CallInv, TypeOK, target, locals
  <1>13. CASE ToolOnly
    <2>1. pc' \in Calls \cup {"detach", "leave", "exit", "delete"}
      BY <1>13, ToolOnlyFrame DEF Calls
    <2>2. fd' \in Fds
      BY <1>13, ToolOnlyNext, CallTypes DEF After, CallInv, OpenInv, Fds, Free
    <2>3. err' \in {"yes", "no"} /\ name' \in {"buf", "bad"} /\ hdr' \in {"area", "bad", "none"}
      BY <1>13, ToolOnlyNext DEF After, CallInv, TypeOK
    <2>4. step' = "begin" /\ UNCHANGED <<target, run, traced, pend, status, sent, got, old, orig, res>>
      BY <1>13, ToolOnlyFrame
    <2>5. QED
      BY <1>13, <2>1, <2>2, <2>3, <2>4 DEF CallInv, TypeOK, target, locals
  <1>14. CASE UNCHANGED vars
    BY <1>14, KindOfType DEF vars, CallInv, TypeOK, target, locals
  <1>15. QED
    BY <1>1, <1>2, <1>3, <1>4, <1>5, <1>6, <1>7, <1>8, <1>9, <1>10, <1>11,
       <1>12, <1>13, <1>14 DEF Next, Tool, Target, ToolOnly

LEMMA StopStep == CallInv /\ [Next]_vars => StopInv'
  <1> SUFFICES ASSUME CallInv, [Next]_vars PROVE StopInv'
    OBVIOUS
  <1>1. ASSUME NEW s \in Sig, Send(s) PROVE StopInv'
    BY <1>1, KindOfType, CallTypes DEF Send, Queue, CallInv, StopInv, Calls
  <1>2. ASSUME NEW s \in pend, Signal(s) PROVE StopInv'
    <2>1. step = "wait" => s # AttachStop
      BY <1>2 DEF Signal, CallInv, StopInv, AttachInv, Calls
    <2>2. step = "wait" \/ pc = "attwait" \/ traced = "no"
      BY <1>2 DEF Signal, CallInv, StopInv
    <2>3. s \in Sig \cup {AttachStop}
      BY <1>2, CallTypes
    <2>4. QED
      BY <1>2, <2>1, <2>2, <2>3 DEF Signal, CallInv, StopInv, Calls
  <1>3. CASE Die
    BY <1>3, KindOfType, CallTypes DEF Die, CallInv, StopInv, Calls
  <1>4. CASE Execute
    BY <1>4, KindOfType, CallTypes, ExecuteFrame, Zenon DEF CallInv, StopInv, Calls
  <1>5. CASE Break
    <2>1. step = "wait"
      BY <1>5 DEF Break, CallInv, CodeInv, CodeBack
    <2>2. QED
      BY <1>5, <2>1 DEF Break, CallInv, StopInv, Calls
  <1>6. CASE TaskAttach
    BY <1>6, KindOfType, CallTypes, Zenon DEF TaskAttach, Queue, AfterAttach,
       CallInv, StopInv, Calls
  <1>7. CASE AttachWait
    BY <1>7, KindOfType, CallTypes, Zenon DEF AttachWait, Cont, AfterAttach,
       CallInv, StopInv, Calls
  <1>8. CASE TaskDetach \/ Exit
    BY <1>8, KindOfType, CallTypes DEF TaskDetach, Exit, LetGo, CallInv,
       StopInv, Calls
  <1>9. CASE SyscallBegin
    BY <1>9, KindOfType, CallTypes DEF SyscallBegin, CallInv, StopInv, Calls
  <1>10. CASE SyscallEnd
    BY <1>10, KindOfType, CallTypes, Zenon DEF SyscallEnd, CallInv, StopInv, Calls
  <1>11. CASE SyscallPass
    BY <1>11, KindOfType, CallTypes, Zenon DEF SyscallPass, Cont, CallInv, StopInv,
       Calls
  <1>12. CASE SyscallFail
    BY <1>12, KindOfType, CallTypes, Zenon DEF SyscallFail, CallInv, StopInv, Calls
  <1>13. CASE ToolOnly
    BY <1>13, KindOfType, CallTypes, ToolOnlyFrame DEF CallInv, StopInv,
       Calls
  <1>14. CASE UNCHANGED vars
    BY <1>14, KindOfType, CallTypes DEF vars, CallInv, StopInv, Calls
  <1>15. QED
    BY <1>1, <1>2, <1>3, <1>4, <1>5, <1>6, <1>7, <1>8, <1>9, <1>10, <1>11,
       <1>12, <1>13, <1>14 DEF Next, Tool, Target, ToolOnly

LEMMA AttachStep == CallInv /\ [Next]_vars => AttachInv'
  <1> SUFFICES ASSUME CallInv, [Next]_vars PROVE AttachInv'
    OBVIOUS
  <1>1. ASSUME NEW s \in Sig, Send(s) PROVE AttachInv'
    <2>1. s # AttachStop
      BY SignalsAssumption
    <2>2. AttachStop \in pend' => AttachStop \in pend
      BY <1>1, <2>1 DEF Send, Queue
    <2>3. AttachStop \in pend => \A p \in pend' : IsStop(p) => p \in pend
      BY <1>1, KindOfType DEF Send, Queue, IsStop
    <2>4. UNCHANGED <<run, pc, status>>
      BY <1>1 DEF Send
    <2>5. QED
      BY <1>1, <2>1, <2>2, <2>3, <2>4 DEF CallInv, AttachInv, IsStop, KindOf
  <1>2. ASSUME NEW s \in pend, Signal(s) PROVE AttachInv'
    BY <1>2, KindOfType, CallTypes, Zenon DEF Signal, CallInv, StopInv, AttachInv,
       IsStop
  <1>3. CASE Die
    BY <1>3, KindOfType, CallTypes, Zenon DEF Die, CallInv, StopInv, AttachInv,
       IsStop
  <1>4. CASE Execute
    BY <1>4, KindOfType, CallTypes, ExecuteFrame, Zenon DEF CallInv, StopInv,
       AttachInv, IsStop
  <1>5. CASE Break
    BY <1>5, KindOfType, CallTypes, Zenon DEF Break, CallInv, StopInv, AttachInv,
       IsStop
  <1>6. CASE TaskAttach
    BY <1>6, KindOfType, CallTypes, Zenon DEF TaskAttach, Queue, AfterAttach,
       CallInv, StopInv, AttachInv, IsStop
  <1>7. CASE AttachWait
    BY <1>7, KindOfType, CallTypes, Zenon DEF AttachWait, Cont, AfterAttach,
       CallInv, StopInv, AttachInv, IsStop
  <1>8. CASE TaskDetach \/ Exit
    BY <1>8, KindOfType, CallTypes, Zenon DEF TaskDetach, Exit, LetGo, CallInv,
       StopInv, AttachInv, IsStop
  <1>9. CASE SyscallBegin
    BY <1>9, KindOfType, CallTypes, Zenon DEF SyscallBegin, CallInv, StopInv,
       AttachInv, IsStop
  <1>10. CASE SyscallEnd
    BY <1>10, KindOfType, CallTypes, Zenon DEF SyscallEnd, CallInv, StopInv,
       AttachInv, IsStop
  <1>11. CASE SyscallPass
    BY <1>11, KindOfType, CallTypes, Zenon DEF SyscallPass, Cont, CallInv, StopInv,
       AttachInv, IsStop
  <1>12. CASE SyscallFail
    BY <1>12, KindOfType, CallTypes, Zenon DEF SyscallFail, CallInv, StopInv,
       AttachInv, IsStop
  <1>13. CASE ToolOnly
    BY <1>13, KindOfType, CallTypes, ToolOnlyFrame, Zenon DEF CallInv, StopInv,
       AttachInv, IsStop
  <1>14. CASE UNCHANGED vars
    BY <1>14, KindOfType, CallTypes, Zenon DEF vars, CallInv, StopInv, AttachInv,
       IsStop
  <1>15. QED
    BY <1>1, <1>2, <1>3, <1>4, <1>5, <1>6, <1>7, <1>8, <1>9, <1>10, <1>11,
       <1>12, <1>13, <1>14 DEF Next, Tool, Target, ToolOnly

LEMMA CodeStep == CallInv /\ [Next]_vars => CodeInv'
  <1> SUFFICES ASSUME CallInv, [Next]_vars PROVE CodeInv'
    OBVIOUS
  <1>1. CASE Aside
    BY <1>1 DEF Aside, CallInv, CodeInv, CodeBack, target
  <1>2. CASE Execute
    BY <1>2, ExecuteFrame DEF CallInv, StopInv, CodeInv, CodeBack, target
  <1>3. CASE TaskAttach
    BY <1>3 DEF TaskAttach, Queue, AfterAttach,
       CallInv, StopInv, CodeInv, CodeBack, target
  <1>4. CASE AttachWait
    BY <1>4 DEF AttachWait, Cont, AfterAttach,
       CallInv, StopInv, CodeInv, CodeBack, target
  <1>5. CASE TaskDetach \/ Exit
    BY <1>5 DEF TaskDetach, Exit, LetGo, CallInv, StopInv,
       CodeInv, CodeBack, target
  <1>6. CASE SyscallBegin
    BY <1>6 DEF SyscallBegin, CallInv, StopInv, CodeInv, CodeBack, target
  <1>7. CASE SyscallEnd
    BY <1>7 DEF SyscallEnd, CallInv, StopInv, CodeInv, CodeBack, target
  <1>8. CASE SyscallFail
    BY <1>8 DEF SyscallFail, CallInv, StopInv, CodeInv, CodeBack, target
  <1>9. CASE ToolOnly
    BY <1>9, ToolOnlyFrame DEF CallInv, StopInv, CodeInv, CodeBack, target
  <1>10. QED
    BY <1>1, <1>2, <1>3, <1>4, <1>5, <1>6, <1>7, <1>8, <1>9, NextSteps DEF Steps

LEMMA OpenStep == CallInv /\ [Next]_vars => OpenInv'
  <1> SUFFICES ASSUME CallInv, [Next]_vars PROVE OpenInv'
    OBVIOUS
  <1>1. CASE Aside
    BY <1>1 DEF Aside, CallInv, OpenInv, target
  <1>2. CASE Execute
    BY <1>2, ExecuteFrame DEF CallInv, OpenInv
  <1>3. CASE TaskAttach
    BY <1>3 DEF TaskAttach, AfterAttach, OpenInv
  <1>4. CASE AttachWait
    BY <1>4 DEF AttachWait, AfterAttach, OpenInv
  <1>5. CASE TaskDetach \/ Exit
    BY <1>5 DEF TaskDetach, Exit, OpenInv
  <1>6. CASE SyscallBegin
    BY <1>6 DEF SyscallBegin, OpenInv
  <1>7. CASE SyscallEnd
    BY <1>7 DEF SyscallEnd, Early, CallInv, CodeInv, OpenInv, TypeOK, Free
  <1>8. CASE SyscallFail
    BY <1>8, KindOfType, CallTypes, Zenon DEF SyscallFail, CallInv, StopInv,
       OpenInv, Calls
  <1>9. CASE ToolOnly
    BY <1>9, KindOfType, CallTypes, ToolOnlyFrame, Zenon DEF CallInv, StopInv,
       OpenInv, Calls
  <1>10. QED
    BY <1>1, <1>2, <1>3, <1>4, <1>5, <1>6, <1>7, <1>8, <1>9, NextSteps DEF Steps

LEMMA KeptStep == CallInv /\ [Next]_vars => SignalsKept'
  <1> SUFFICES ASSUME CallInv, [Next]_vars PROVE SignalsKept'
    OBVIOUS
  <1>1. ASSUME NEW s \in Sig, Send(s) PROVE SignalsKept'
    BY <1>1, KindOfType, CallTypes DEF Send, Queue, CallInv, SignalsKept
  <1>2. ASSUME NEW s \in pend, Signal(s) PROVE SignalsKept'
    BY <1>2, CallTypes, SignalsAssumption DEF Signal, CallInv, StopInv,
       SignalsKept
  <1>3. CASE Die
    BY <1>3, KindOfType, CallTypes DEF Die, CallInv, SignalsKept
  <1>4. CASE Execute
    BY <1>4, KindOfType, CallTypes, ExecuteFrame DEF CallInv, SignalsKept
  <1>5. CASE Break
    BY <1>5, CallTypes, SignalsAssumption DEF Break, CallInv, StopInv, target,
       SignalsKept
  <1>6. CASE TaskAttach
    BY <1>6, KindOfType, CallTypes DEF TaskAttach, Queue, AfterAttach,
       CallInv, SignalsKept
  <1>7. CASE AttachWait
    BY <1>7, KindOfType DEF AttachWait, Cont, CallInv, TypeOK, SignalsKept
  <1>8. CASE TaskDetach \/ Exit
    BY <1>8, KindOfType, CallTypes DEF TaskDetach, Exit, LetGo, CallInv,
       SignalsKept
  <1>9. CASE SyscallBegin
    BY <1>9 DEF SyscallBegin, CallInv, StopInv, Calls, SignalsKept
  <1>10. CASE SyscallEnd
    BY <1>10, KindOfType DEF SyscallEnd, CallInv, TypeOK, SignalsKept
  <1>11. CASE SyscallPass
    BY <1>11, KindOfType, CallTypes DEF SyscallPass, Cont, CallInv,
       SignalsKept
  <1>12. CASE SyscallFail
    BY <1>12, KindOfType DEF SyscallFail, CallInv, TypeOK, SignalsKept
  <1>13. CASE ToolOnly
    BY <1>13, KindOfType, CallTypes, ToolOnlyFrame DEF CallInv, SignalsKept
  <1>14. CASE UNCHANGED vars
    BY <1>14, KindOfType, CallTypes DEF vars, CallInv, SignalsKept
  <1>15. QED
    BY <1>1, <1>2, <1>3, <1>4, <1>5, <1>6, <1>7, <1>8, <1>9, <1>10, <1>11,
       <1>12, <1>13, <1>14 DEF Next, Tool, Target, ToolOnly

LEMMA CallInit == Init => CallInv
  <1> SUFFICES ASSUME Init PROVE CallInv
    OBVIOUS
  <1>1. TypeOK
    BY DEF Init, TypeOK, Results, Fds, Calls
  <1>2. StopInv /\ AttachInv /\ CodeInv /\ OpenInv /\ SignalsKept
    BY DEF Init, StopInv, AttachInv, CodeInv, CodeBack, OpenInv, SignalsKept, Calls
  <1>3. QED
    BY <1>1, <1>2 DEF CallInv

LEMMA CallInvariant == Spec => []CallInv
  <1>1. CallInv /\ [Next]_vars => CallInv'
    BY TypeStep, StopStep, AttachStep, CodeStep, OpenStep, KeptStep DEF CallInv
  <1>2. QED
    BY CallInit, <1>1, PTL DEF Spec

(* Every variable keeps its type: what task_open() returns is a            *)
(* descriptor, and what is passed on to the application is a signal that   *)
(* somebody sent, never the SIGSTOP of the attach or the SIGTRAP of a call.*)
THEOREM RemoteTypes == Spec => []TypeOK
  <1>1. CallInv => TypeOK
    BY DEF CallInv
  <1>2. QED
    BY <1>1, CallInvariant, PTL

(* wait_for_stop() and task_attach() lose no signal for the application,   *)
(* whatever signals come, in whatever order.                               *)
THEOREM NoSignalLost == Spec => []SignalsKept
  <1>1. CallInv => SignalsKept
    BY DEF CallInv
  <1>2. QED
    BY <1>1, CallInvariant, PTL

(* task_syscall() puts the code it borrowed back, however the call ends,   *)
(* also in a call made after one that SIGSEGV failed.                      *)
THEOREM CodeReturned == Spec => []CodeBack
  <1>1. CallInv => CodeBack
    BY DEF CallInv, CodeInv
  <1>2. QED
    BY <1>1, CallInvariant, PTL

-----------------------------------------------------------------------------
(* The signals a target has to take, or stopped with, were sent to it or   *)
(* are the tool's own.                                                     *)
SentInv ==
    /\ pend \subseteq sent \cup {AttachStop}
    /\ status \in sent \cup {AttachStop, Trap, "none"}

(* A call ends with the registers put back, unless the target is dead.     *)
RegsInv ==
    /\ step = "wait" => old = "app"
    /\ step # "wait" /\ run # "dead" => regs = "app"

(* Then a call that has no result was made without a stopped tracee, and   *)
(* so will be those that follow.                                           *)
FdInv ==
    /\ step = "wait" /\ regs = "ret" => rax # "undef"
    /\ pc \in Calls /\ step = "done" /\ res = "undef" => traced = "no" \/ run = "dead"
    /\ pc \in {"free", "ftruncate", "mmap", "close"} /\ fd = "own" =>
         traced = "no" \/ run = "dead"
    /\ step = "wait" /\ pc \in {"ftruncate", "close"} => fd # "std"
    /\ FdOwned

(* The area is mapped before the tool knows it only at the end of mmap.    *)
AreaInv ==
    /\ pc \in {"create", "malloc", "open", "free", "ftruncate", "mmap"} => hdr = "none"
    /\ run # "dead" =>
         /\ hdr = "none" /\ area = "yes" =>
              /\ pc = "mmap"
              /\ step = "wait" => regs = "ret" /\ rax = "area"
              /\ step = "done" => res = "area"
              /\ step # "begin"
         /\ hdr = "bad" => area = "no"
         /\ hdr = "area" /\ pc \in {"close", "detach", "loaded", "delete"} => area = "yes"
         /\ pc = "mmap" /\ step = "wait" /\ regs = "ret" /\ rax = "area" => area = "yes"
         /\ pc = "mmap" /\ step = "done" /\ res = "area" => area = "yes"

CleanInv == CallInv /\ SentInv /\ (NoSegv => RegsInv /\ FdInv /\ AreaInv)

-----------------------------------------------------------------------------
LEMMA SentStep == CallInv /\ SentInv /\ [Next]_vars => SentInv' /\ sent \subseteq sent'
  <1> SUFFICES ASSUME CallInv, SentInv, [Next]_vars PROVE SentInv' /\ sent \subseteq sent'
    OBVIOUS
  <1>1. ASSUME NEW s \in Sig, Send(s) PROVE SentInv' /\ sent \subseteq sent'
    BY <1>1 DEF Send, Queue, SentInv
  <1>2. ASSUME NEW s \in pend, Signal(s) PROVE SentInv' /\ sent \subseteq sent'
    BY <1>2 DEF Signal, SentInv
  <1>3. CASE Die \/ Break
    BY <1>3 DEF Die, Break, SentInv
  <1>4. CASE Execute
    BY <1>4, ExecuteFrame DEF SentInv
  <1>5. CASE TaskAttach \/ AttachWait
    BY <1>5 DEF TaskAttach, AttachWait, Cont, Queue, SentInv
  <1>6. CASE TaskDetach \/ Exit
    BY <1>6 DEF TaskDetach, Exit, LetGo, SentInv
  <1>7. CASE SyscallBegin
    BY <1>7 DEF SyscallBegin, SentInv
  <1>8. CASE SyscallEnd \/ SyscallPass \/ SyscallFail
    BY <1>8 DEF SyscallEnd, SyscallPass, SyscallFail, Cont, SentInv
  <1>9. CASE ToolOnly
    BY <1>9, ToolOnlyFrame DEF SentInv
  <1>10. CASE UNCHANGED vars
    BY <1>10 DEF vars, SentInv
  <1>11. QED
    BY <1>1, <1>2, <1>3, <1>4, <1>5, <1>6, <1>7, <1>8, <1>9, <1>10
    DEF Next, Tool, Target, ToolOnly

LEMMA FailDead == ASSUME NoSegv, SentInv, CallInv, SyscallFail PROVE run = "dead"
  <1>1. status \in sent => KindOf(status) # "SEGV"
    BY CallTypes, KindOfType DEF NoSegv
  <1>2. run = "stop" => status \in sent \cup {Trap}
    BY SignalsAssumption DEF SentInv, SyscallFail, CallInv, StopInv
  <1>3. QED
    BY <1>1, <1>2, KindOfType DEF SyscallFail

LEMMA RegsStep == NoSegv /\ SentInv /\ CallInv /\ RegsInv /\ [Next]_vars => RegsInv'
  <1> SUFFICES ASSUME NoSegv, SentInv, CallInv, RegsInv, [Next]_vars PROVE RegsInv'
    OBVIOUS
  <1>1. CASE Aside
    BY <1>1 DEF Aside, RegsInv, target
  <1>2. CASE Execute
    BY <1>2, CallTypes, ExecuteFrame DEF RegsInv, target
  <1>3. CASE TaskAttach
    BY <1>3, CallTypes DEF TaskAttach, Queue, AfterAttach, RegsInv, target
  <1>4. CASE AttachWait
    BY <1>4, CallTypes DEF AttachWait, Cont, AfterAttach, RegsInv, target
  <1>5. CASE TaskDetach \/ Exit
    BY <1>5 DEF TaskDetach, Exit, LetGo, CallInv, TypeOK, RegsInv, target
  <1>6. CASE SyscallBegin
    BY <1>6 DEF SyscallBegin, RegsInv
  <1>7. CASE SyscallEnd
    BY <1>7, CallTypes DEF SyscallEnd, RegsInv, target
  <1>8. CASE SyscallFail
    BY <1>8, FailDead DEF SyscallFail, RegsInv
  <1>9. CASE ToolOnly
    BY <1>9, ToolOnlyFrame DEF RegsInv, target
  <1>10. QED
    BY <1>1, <1>2, <1>3, <1>4, <1>5, <1>6, <1>7, <1>8, <1>9, NextSteps DEF Steps

LEMMA FdStep == NoSegv /\ SentInv /\ CallInv /\ FdInv /\ [Next]_vars => FdInv'
  <1> SUFFICES ASSUME NoSegv, SentInv, CallInv, FdInv, [Next]_vars PROVE FdInv'
    OBVIOUS
  <1>1. CASE Aside
    BY <1>1 DEF Aside, FdInv, FdOwned, target, locals
  <1>2. CASE Execute
    <2>1. hit' = {}
      BY <1>2, CallTypes, ExecuteEffect, ExecuteFrame, Zenon
      DEF Effect, Touched, FdInv, FdOwned, CallInv, StopInv, Fds
    <2>2. /\ UNCHANGED <<run, traced, pc, step, res, fd>>
          /\ rax' # "undef" /\ run = "run" /\ step = "wait"
      BY <1>2, ExecuteFrame DEF locals
    <2>3. QED
      BY <1>2, <2>1, <2>2 DEF FdInv, FdOwned, CallInv, StopInv
  <1>3. CASE TaskAttach
    BY <1>3, CallTypes, Zenon DEF TaskAttach, Queue, AfterAttach, FdInv, FdOwned,
       target, locals, CallInv, StopInv, Calls
  <1>4. CASE AttachWait
    BY <1>4, CallTypes, Zenon DEF AttachWait, Cont, AfterAttach, FdInv, FdOwned,
       target, locals, CallInv, StopInv, Calls
  <1>5. CASE TaskDetach \/ Exit
    BY <1>5, CallTypes, Zenon DEF TaskDetach, Exit, LetGo, FdInv, FdOwned, target,
       locals, CallInv, StopInv, Calls
  <1>6. CASE SyscallBegin
    <2>1. step' = "wait" /\ pc \in {"ftruncate", "close"} => fd # "std"
      BY <1>6 DEF SyscallBegin, ShouldSkipRemoteFd
    <2>2. step' = "wait" => traced = "yes" /\ run = "stop" /\ regs' = "call"
      BY <1>6 DEF SyscallBegin
    <2>3. step' # "wait" => step' = "done" /\ (traced = "no" \/ run = "dead")
      BY <1>6, CallTypes, Zenon DEF SyscallBegin, CallInv, StopInv, Calls
    <2>4. UNCHANGED <<traced, pc, fd, hit>> /\ (run = "dead" => run' = "dead")
      BY <1>6 DEF SyscallBegin, locals
    <2>5. QED
      BY <1>6, <2>1, <2>2, <2>3, <2>4 DEF FdInv, FdOwned
  <1>7. CASE SyscallEnd
    BY <1>7 DEF SyscallEnd, Early, CallInv, CodeInv, TypeOK, FdInv, FdOwned,
       locals
  <1>8. CASE SyscallFail
    BY <1>8, FailDead DEF SyscallFail, FdInv, FdOwned, locals
  <1>9. CASE ToolOnly
    <2>1. /\ UNCHANGED <<run, traced, hit>>
          /\ step' = "begin"
      BY <1>9, ToolOnlyFrame DEF target
    <2>2. pc' \in {"free", "ftruncate", "mmap", "close"} /\ fd' = "own" =>
            traced = "no" \/ run = "dead"
      BY <1>9, ToolOnlyNext DEF After, CallInv, OpenInv, FdInv, Calls, Free
    <2>3. QED
      BY <1>9, <2>1, <2>2 DEF FdInv, FdOwned
  <1>10. QED
    BY <1>1, <1>2, <1>3, <1>4, <1>5, <1>6, <1>7, <1>8, <1>9, NextSteps DEF Steps

LEMMA AreaStep == NoSegv /\ SentInv /\ CallInv /\ FdInv /\ AreaInv /\ [Next]_vars => AreaInv'
  <1> SUFFICES ASSUME NoSegv, SentInv, CallInv, FdInv, AreaInv, [Next]_vars PROVE AreaInv'
    OBVIOUS
  <1>1. CASE Aside
    BY <1>1 DEF Aside, AreaInv, target, locals
  <1>2. CASE Execute
    <2>1. pc # "mmap" /\ pc # "munmap" => area' = area
      BY <1>2, ExecuteEffect, CallTypes DEF Effect
    <2>2. pc = "mmap" =>
            \/ area' = "yes" /\ rax' = "area"
            \/ area' = area /\ rax' = "err"
      BY <1>2, ExecuteEffect, CallTypes DEF Effect
    <2>3. pc = "munmap" => area' = area \/ area' = "no"
      BY <1>2, ExecuteEffect, CallTypes DEF Effect
    <2>4. area' # "yes" => area' = "no"
      BY <2>1, <2>2, <2>3 DEF CallInv, TypeOK
    <2>5. regs # "ret"
      BY <1>2 DEF Execute
    <2>6. /\ UNCHANGED <<run, pc, step, hdr>>
          /\ regs' = "ret" /\ step = "wait"
      BY <1>2, ExecuteFrame DEF locals
    <2>7. QED
      BY <1>2, <2>1, <2>2, <2>3, <2>4, <2>5, <2>6 DEF AreaInv
  <1>3. CASE TaskAttach
    BY <1>3 DEF TaskAttach, AfterAttach, AreaInv, target, locals
  <1>4. CASE AttachWait
    BY <1>4, CallTypes, Zenon DEF AttachWait, Cont, AfterAttach, AreaInv, target,
       locals
  <1>5. CASE TaskDetach \/ Exit
    BY <1>5, CallTypes, Zenon DEF TaskDetach, Exit, LetGo, AreaInv, target, locals,
       CallInv, StopInv, Calls
  <1>6. CASE SyscallBegin
    BY <1>6, Zenon DEF SyscallBegin, CallInv, StopInv, AreaInv, locals
  <1>7. CASE SyscallEnd
    BY <1>7, Zenon DEF SyscallEnd, Early, CallInv, CodeInv, TypeOK, AreaInv, locals
  <1>8. CASE SyscallFail
    BY <1>8, FailDead, Zenon DEF SyscallFail, AreaInv, locals
  <1>9. CASE ToolOnly
    <2>1. UNCHANGED <<run, area>> /\ step' = "begin"
      BY <1>9, ToolOnlyFrame DEF target
    <2>2. pc # "mmap" => UNCHANGED hdr /\ (pc' = "mmap" => pc = "ftruncate")
      BY <1>9, ToolOnlyNext DEF After, Calls
    <2>3. pc' \in {"create", "malloc", "open", "free", "ftruncate", "mmap"} =>
            pc \in {"malloc", "open", "free", "ftruncate"}
      BY <1>9, ToolOnlyNext DEF After, Calls
    <2>4. pc' \in {"close", "detach", "loaded", "delete"} =>
            pc \in {"ftruncate", "mmap", "close", "loaded"}
      BY <1>9, ToolOnlyNext DEF After, Calls
    <2>5. pc = "mmap" => pc' = "close" /\ step = "done"
      BY <1>9, ToolOnlyNext DEF After
    <2>6. pc = "mmap" /\ run # "dead" =>
            \/ hdr' = "area" /\ area = "yes"
            \/ hdr' \in {"none", "bad"} /\ area = "no"
      BY <1>9, <2>5, ToolOnlyNext, Zenon DEF After, CallInv, TypeOK, AreaInv
    <2>7. QED
      BY <1>9, <2>1, <2>2, <2>3, <2>4, <2>5, <2>6 DEF CallInv, TypeOK, AreaInv
  <1>10. QED
    BY <1>1, <1>2, <1>3, <1>4, <1>5, <1>6, <1>7, <1>8, <1>9, NextSteps DEF Steps

LEMMA CleanInit == Init => SentInv /\ RegsInv /\ FdInv /\ AreaInv
  BY DEF Init, SentInv, RegsInv, FdInv, FdOwned, AreaInv, Calls

LEMMA CleanInvariant == Spec => []CleanInv
  <1>1. ASSUME CleanInv, [Next]_vars, NoSegv' PROVE (RegsInv /\ FdInv /\ AreaInv)'
    <2>1. CallInv /\ SentInv /\ sent \subseteq sent'
      BY <1>1, SentStep DEF CleanInv
    <2>2. NoSegv
      BY <1>1, <2>1 DEF NoSegv
    <2>3. QED
      BY <1>1, <2>1, <2>2, RegsStep, FdStep, AreaStep DEF CleanInv
  <1>2. CleanInv /\ [Next]_vars => SentInv' /\ (NoSegv => RegsInv /\ FdInv /\ AreaInv)'
    BY <1>1, SentStep DEF CleanInv
  <1>3. CleanInv <=> CallInv /\ SentInv /\ (NoSegv => RegsInv /\ FdInv /\ AreaInv)
    BY DEF CleanInv
  <1>4. QED
    BY CallInit, CleanInit, CallInvariant, <1>2, <1>3, PTL DEF Spec

(* A target resumes with its own registers and code whenever task_detach() *)
(* or the exit of the tool lets it go: also when a SIGSTOP ended a call    *)
(* early, as long as no SIGSEGV was sent.                                  *)
THEOREM ApplicationResumes == Spec => []AppResumes
  <1>1. CleanInv => AppResumes
    BY DEF CleanInv, CallInv, StopInv, CodeInv, CodeBack, RegsInv, AppResumes
  <1>2. QED
    BY <1>1, CleanInvariant, PTL

(* As long as no SIGSEGV was sent, the checks of __should_skip_remote_fd() *)
(* keep task_ftruncate() and task_close() off the descriptors of the       *)
(* application, although task_open() may return a wrong one.               *)
THEOREM DescriptorsUntouched == Spec => []FdKept
  <1>1. CleanInv => FdKept
    BY DEF CleanInv, FdInv, FdKept
  <1>2. QED
    BY <1>1, CleanInvariant, PTL

(* As long as no SIGSEGV was sent, what create_mmap_vma_file() reports of  *)
(* the area is true, so that the area can be found and unmapped.           *)
THEOREM AreaKnown == Spec => []MapHonest
  <1>1. CleanInv => MapHonest
    BY DEF CleanInv, CallInv, TypeOK, AreaInv, MapHonest
  <1>2. QED
    BY <1>1, CleanInvariant, PTL

-----------------------------------------------------------------------------
(* Only signals for the application were sent: no call ends early.         *)
OnlyOther == \A s \in sent : Kind[s] = "other"

(* The break instruction comes after the call.                             *)
TrapInv == status = Trap => regs = "ret"

(* The buffer and the descriptor are in the target from the call that      *)
(* makes them to the one that takes them away, and the tool knows them.    *)
BufInv ==
    run # "dead" /\ buf = "yes" =>
      /\ traced = "yes" /\ pc \in {"malloc", "open", "free"}
      /\ pc = "malloc" => \/ step = "wait" /\ regs = "ret" /\ rax = "buf"
                          \/ step = "done" /\ res = "buf"
      /\ pc # "malloc" => name = "buf"
      /\ pc = "free" => step # "done" /\ (step = "wait" => regs # "ret")
OpenedInv ==
    low = "new" /\ run # "dead" /\ opened # {} =>
      /\ opened = {"new"}
      /\ traced = "yes" /\ pc \in {"open", "free", "ftruncate", "mmap", "close"}
      /\ pc = "open" => \/ step = "wait" /\ regs = "ret" /\ rax = "new"
                        \/ step = "done" /\ res = "new"
      /\ pc # "open" => fd = "new"
      /\ pc = "close" => step # "done" /\ (step = "wait" => regs # "ret")

LeftInv == CallInv /\ SentInv /\ TrapInv /\ (OnlyOther => BufInv /\ OpenedInv)

LEMMA TrapStep == CallInv /\ TrapInv /\ [Next]_vars => TrapInv'
  <1> SUFFICES ASSUME CallInv, TrapInv, [Next]_vars PROVE TrapInv'
    OBVIOUS
  <1>1. ASSUME NEW s \in pend, Signal(s) PROVE TrapInv'
    BY <1>1, CallTypes, SignalsAssumption DEF Signal, TrapInv, target
  <1>2. CASE Break \/ Die
    BY <1>2 DEF Break, Die, TrapInv, target
  <1>3. CASE Execute
    BY <1>3, ExecuteFrame DEF TrapInv
  <1>4. CASE TaskAttach \/ AttachWait \/ TaskDetach \/ Exit
    BY <1>4, Zenon DEF TaskAttach, AttachWait, Cont, TaskDetach, Exit, TrapInv, target
  <1>5. CASE SyscallBegin \/ SyscallEnd \/ SyscallPass \/ SyscallFail
    BY <1>5, Zenon DEF SyscallBegin, SyscallEnd, SyscallPass, SyscallFail, Cont, TrapInv, target
  <1>6. CASE ToolOnly
    BY <1>6, ToolOnlyFrame DEF TrapInv, target
  <1>7. ASSUME NEW s \in Sig, Send(s) PROVE TrapInv'
    BY <1>7 DEF Send, TrapInv, target
  <1>8. QED
    BY <1>1, <1>2, <1>3, <1>4, <1>5, <1>6, <1>7
    DEF Next, Tool, Target, ToolOnly, vars, TrapInv, target

(* Then a call goes on to its result, unless the target is dead.           *)
LEMMA CallsComplete ==
    ASSUME OnlyOther, SentInv, CallInv, TrapInv
    PROVE  /\ SyscallEnd => regs = "ret" /\ res' = rax
           /\ SyscallFail => run = "dead"
           /\ SyscallBegin /\ traced = "yes" /\ run # "dead" => step' = "wait" /\ regs' = "call"
  <1>1. status \in sent => KindOf(status) = "other"
    BY CallTypes, KindOfType DEF OnlyOther
  <1>2. run = "stop" /\ step = "wait" => status \in sent \cup {Trap}
    BY SignalsAssumption DEF SentInv, CallInv, StopInv
  <1>3. SyscallEnd => regs = "ret" /\ res' = rax
    BY <1>1, <1>2 DEF SyscallEnd, TrapInv
  <1>4. SyscallFail => run = "dead"
    BY <1>1, <1>2, KindOfType DEF SyscallFail
  <1>5. SyscallBegin /\ traced = "yes" /\ run # "dead" => step' = "wait" /\ regs' = "call"
    BY CallTypes, Zenon DEF SyscallBegin, CallInv, StopInv, Calls
  <1>6. QED
    BY <1>3, <1>4, <1>5

LEMMA BufStep ==
    OnlyOther /\ SentInv /\ CallInv /\ TrapInv /\ BufInv /\ [Next]_vars => BufInv'
  <1> SUFFICES ASSUME OnlyOther, SentInv, CallInv, TrapInv, BufInv, [Next]_vars PROVE BufInv'
    OBVIOUS
  <1>1. CASE Aside
    BY <1>1 DEF Aside, BufInv, target, locals
  <1>2. CASE Execute
    <2>1. pc = "malloc" => rax' = "buf" \/ buf' = buf
      BY <1>2, ExecuteEffect, CallTypes DEF Effect
    <2>2. pc = "free" /\ name = "buf" => buf' = "no"
      BY <1>2, ExecuteEffect, CallTypes DEF Effect
    <2>3. pc # "malloc" => buf' = buf \/ buf' = "no"
      BY <1>2, ExecuteEffect, CallTypes DEF Effect
    <2>4. regs # "ret" /\ traced = "yes"
      BY <1>2, ExecuteFrame, Zenon DEF Execute, CallInv, StopInv
    <2>5. UNCHANGED <<run, traced, pc, step, name>> /\ regs' = "ret" /\ step = "wait"
      BY <1>2, ExecuteFrame DEF locals
    <2>6. QED
      BY <2>1, <2>2, <2>3, <2>4, <2>5 DEF BufInv
  <1>3. CASE TaskAttach \/ AttachWait
    BY <1>3, Zenon DEF TaskAttach, AttachWait, BufInv, target, locals
  <1>4. CASE TaskDetach \/ Exit
    BY <1>4 DEF TaskDetach, Exit, LetGo, BufInv, target, locals
  <1>5. CASE SyscallBegin
    BY <1>5, CallsComplete, Zenon DEF SyscallBegin, BufInv, locals
  <1>6. CASE SyscallEnd \/ SyscallFail
    BY <1>6, CallsComplete, Zenon DEF SyscallEnd, SyscallFail, BufInv, locals
  <1>7. CASE ToolOnly
    BY <1>7, ToolOnlyNext, ToolOnlyFrame, Zenon DEF After, BufInv, target
  <1>8. QED
    BY <1>1, <1>2, <1>3, <1>4, <1>5, <1>6, <1>7, NextSteps DEF Steps

LEMMA OpenedStep ==
    OnlyOther /\ SentInv /\ CallInv /\ TrapInv /\ OpenedInv /\ [Next]_vars => OpenedInv'
  <1> SUFFICES ASSUME OnlyOther, SentInv, CallInv, TrapInv, OpenedInv, [Next]_vars PROVE OpenedInv'
    OBVIOUS
  <1>1. CASE Aside
    BY <1>1 DEF Aside, OpenedInv, target, locals
  <1>2. CASE Execute
    <2>1. /\ pc = "open" => rax' = low \/ opened' = opened
          /\ opened' \subseteq opened \cup {low} /\ low' = low
          /\ pc = "close" => opened' = opened \ {fd}
          /\ pc \notin {"open", "close"} => opened' = opened
      BY <1>2, ExecuteEffect, CallTypes DEF Effect, Execute
    <2>2. regs # "ret" /\ traced = "yes"
      BY <1>2, ExecuteFrame, Zenon DEF Execute, CallInv, StopInv
    <2>3. low = "new" /\ pc = "close" /\ opened # {} /\ run # "dead" => opened' = {}
      BY <2>1, CallTypes DEF OpenedInv
    <2>4. UNCHANGED <<run, traced, pc, step, fd>> /\ regs' = "ret" /\ step = "wait"
      BY <1>2, ExecuteFrame DEF locals
    <2>5. QED
      BY <2>1, <2>2, <2>3, <2>4 DEF OpenedInv
  <1>3. CASE TaskAttach \/ AttachWait
    BY <1>3, Zenon DEF TaskAttach, AttachWait, OpenedInv, target, locals
  <1>4. CASE TaskDetach \/ Exit
    BY <1>4 DEF TaskDetach, Exit, LetGo, OpenedInv, target, locals
  <1>5. CASE SyscallBegin
    BY <1>5, CallsComplete, Zenon DEF SyscallBegin, OpenedInv, locals
  <1>6. CASE SyscallEnd \/ SyscallFail
    BY <1>6, CallsComplete, Zenon DEF SyscallEnd, SyscallFail, OpenedInv, locals
  <1>7. CASE ToolOnly
    BY <1>7, ToolOnlyNext, ToolOnlyFrame, Zenon DEF After, OpenedInv, target
  <1>8. QED
    BY <1>1, <1>2, <1>3, <1>4, <1>5, <1>6, <1>7, NextSteps DEF Steps

(* When only signals for the application were sent, the buffer of          *)
(* task_open() does not stay in the target, and neither does map_fd in a   *)
(* target that has its standard descriptors open, whichever remote call    *)
(* was refused, and although most of their results are not looked at.      *)
THEOREM NothingStays == Spec => []NothingLeft
  <1>1. Init => SentInv /\ TrapInv /\ BufInv /\ OpenedInv
    BY DEF Init, SentInv, TrapInv, BufInv, OpenedInv
  <1>2. ASSUME CallInv, SentInv, TrapInv, OnlyOther => BufInv /\ OpenedInv, [Next]_vars, OnlyOther'
        PROVE  (BufInv /\ OpenedInv)'
    <2>1. OnlyOther
      BY <1>2, SentStep DEF OnlyOther
    <2>2. QED
      BY <1>2, <2>1, BufStep, OpenedStep
  <1>3. LeftInv /\ [Next]_vars =>
          SentInv' /\ TrapInv' /\ (OnlyOther => BufInv /\ OpenedInv)'
    BY <1>2, SentStep, TrapStep DEF LeftInv
  <1>4. LeftInv <=> CallInv /\ SentInv /\ TrapInv /\ (OnlyOther => BufInv /\ OpenedInv)
    BY DEF LeftInv
  <1>5. LeftInv => NothingLeft
    BY DEF LeftInv, CallInv, TypeOK, OnlyOther, BufInv, OpenedInv, NothingLeft
  <1>6. QED
    BY <1>1, <1>3, <1>4, <1>5, CallInit, CallInvariant, PTL DEF Spec

=============================================================================
