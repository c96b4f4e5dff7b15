----------------------------- MODULE RemoteCall -----------------------------
(***************************************************************************)
(* System calls that a tool makes in the target with ptrace(2):            *)
(* task_syscall(), the calls built from it, and the two sequences of them  *)
(* that patching uses, create_mmap_vma_file() and the munmap of the area.  *)
(* The target goes on receiving signals from others, and may die.          *)
(*                                                                         *)
(* A tracee that is stopped changes only by dying, so what the tool does   *)
(* to it between two stops is one step.  One tool, one session.            *)
(***************************************************************************)
EXTENDS Naturals

CONSTANTS
    Sig,        \* signals others may send, each once
    Kind,       \* their kind: SIGSTOP, SIGSEGV or another
    Arch,       \* the architecture: "x86_64" or "aarch64"
    MayDie      \* the target may be killed

Kinds == {"STOP", "SEGV", "other"}

(* SIGSTOP of PTRACE_ATTACH, SIGTRAP of the break instruction.             *)
AttachStop == "attach"
Trap == "trap"

ASSUME SignalsAssumption ==
    /\ Kind \in [Sig -> Kinds]
    /\ Arch \in {"x86_64", "aarch64"}
    /\ MayDie \in BOOLEAN
    /\ Sig \cap {AttachStop, Trap, "none"} = {}

VARIABLES
    run,        \* the target: running, stopped (as a tracee) or dead
    traced,     \* it is the tool's tracee: "yes" or "no"
    regs,       \* its registers: the application's, a call's, a call's result
    code,       \* the instructions at libc_base
    rax,        \* the result register of a call that was executed
    pend,       \* signals pending
    status,     \* the signal it stopped with, or "none"
    sent,       \* signals that were sent
    got,        \* signals that reached the application
    opened,     \* descriptors the tool opened in it and that are open
    hit,        \* descriptors of its own that the tool truncated or closed
    buf,        \* the buffer for the path name: "yes" or "no"
    area,       \* the area of the patch: "yes" or "no"
    low,        \* the lowest descriptor free in it, the one open(2) gives
    pc,         \* the tool: the call or step it is at
    step,       \* where it is in task_syscall()
    old,        \* old_regs
    orig,       \* orig_code
    res,        \* *res, or "undef" when it was not set
    err,        \* the error create_mmap_vma_file() will return: "yes" or "no"
    name,       \* task_open()'s name: the buffer or a wrong address
    fd,         \* map_fd
    hdr         \* info->target_hdr: the area, a wrong address or "none"

target == <<regs, code, rax, opened, hit, buf, area, low>>
locals == <<err, name, fd, hdr>>
vars == <<target, run, traced, pend, status, sent, got, pc, step, old, orig,
          res, locals>>

Calls == {"malloc", "open", "free", "ftruncate", "mmap", "close", "munmap"}

(* Descriptors: an error, 0, 1 and 2, one of the application's own above   *)
(* them, and one above them that is free.                                  *)
Fds == {"err", "zero", "std", "own", "new"}

(* What open(2) gives: 0, or 1 or 2, in a target that has closed it.       *)
Free == {"zero", "std", "new"}

(* Results: "ok" is 0, "buf" and "area" are addresses.                     *)
Results == Fds \cup {"ok", "nr", "buf", "area", "undef"}

KindOf(s) == IF s = AttachStop THEN "STOP" ELSE IF s = Trap THEN "TRAP" ELSE Kind[s]

TypeOK ==
    /\ run \in {"run", "stop", "dead"}
    /\ traced \in {"yes", "no"}
    /\ regs \in {"app", "call", "ret"}
    /\ code \in {"orig", "syscall"}
    /\ rax \in Results
    /\ pend \in SUBSET (Sig \cup {AttachStop})
    /\ status \in Sig \cup {AttachStop, Trap, "none"}
    /\ sent \in SUBSET Sig
    /\ got \in SUBSET Sig
    /\ opened \in SUBSET Free
    /\ hit \in SUBSET {"std", "own"}
    /\ buf \in {"yes", "no"}
    /\ area \in {"yes", "no"}
    /\ low \in Free
    /\ pc \in Calls \cup {"create", "delete", "attwait", "detach", "loaded",
                         "leave", "exit", "end"}
    /\ step \in {"begin", "wait", "done"}
    /\ old \in {"app", "call", "ret"}
    /\ orig \in {"orig", "syscall"}
    /\ res \in Results
    /\ err \in {"yes", "no"}
    /\ name \in {"buf", "bad"}
    /\ fd \in Fds
    /\ hdr \in {"area", "bad", "none"}

Init ==
    /\ run = "run" /\ traced = "no" /\ regs = "app" /\ code = "orig"
    /\ rax = "undef" /\ pend = {} /\ status = "none" /\ sent = {} /\ got = {}
    /\ opened = {} /\ hit = {} /\ buf = "no" /\ area = "no" /\ low \in Free
    /\ pc = "create" /\ step = "begin" /\ old = "app" /\ orig = "orig"
    /\ res = "undef" /\ err = "no" /\ name = "bad" /\ fd = "err"
    /\ hdr = "none"

-----------------------------------------------------------------------------
(* The target and its environment                                          *)

(* A second SIGSTOP is merged with one that is pending.                    *)
Queue(s) ==
    pend' = IF KindOf(s) = "STOP" /\ \E p \in pend : KindOf(p) = "STOP"
              THEN pend ELSE pend \cup {s}

Send(s) ==
    /\ run # "dead"
    /\ s \notin sent
    /\ sent' = sent \cup {s}
    /\ Queue(s)
    /\ UNCHANGED <<target, run, traced, status, got, pc, step, old, orig, res, locals>>

(* A signal for a tracee stops it; otherwise the application gets it.      *)
Signal(s) ==
    /\ run = "run"
    /\ s \in pend
    /\ pend' = pend \ {s}
    /\ \/ /\ traced = "yes"
          /\ run' = "stop"
          /\ status' = s
          /\ UNCHANGED got
       \/ /\ traced = "no"
          /\ got' = got \cup {s}
          /\ UNCHANGED <<run, status>>
    /\ UNCHANGED <<target, traced, sent, pc, step, old, orig, res, locals>>

Die ==
    /\ MayDie
    /\ run # "dead"
    /\ run' = "dead"
    /\ UNCHANGED <<target, traced, pend, status, sent, got, pc, step, old, orig, res, locals>>

(* What the kernel does for each call, from how the tool uses it.          *)
Touched(f) == hit' = hit \cup (({f} \cap {"std", "own"}) \ opened)

KernelMalloc ==
    /\ pc = "malloc"
    /\ \/ rax' = "buf" /\ buf' = "yes"
       \/ rax' = "err" /\ UNCHANGED buf
    /\ UNCHANGED <<opened, hit, area>>

KernelOpen ==
    /\ pc = "open"
    /\ \/ /\ name = "buf" /\ buf = "yes"
          /\ rax' = low
          /\ opened' = {low}
       \/ rax' = "err" /\ UNCHANGED opened
    /\ UNCHANGED <<hit, buf, area>>

KernelFree ==
    /\ pc = "free"
    /\ IF name = "buf" THEN rax' = "ok" /\ buf' = "no"
                       ELSE rax' = "err" /\ UNCHANGED buf
    /\ UNCHANGED <<opened, hit, area>>

KernelFtruncate ==
    /\ pc = "ftruncate"
    /\ \/ /\ fd \in opened \cup {"std", "own"}
          /\ rax' = "ok"
          /\ Touched(fd)
       \/ rax' = "err" /\ UNCHANGED hit
    /\ UNCHANGED <<opened, buf, area>>

KernelMmap ==
    /\ pc = "mmap"
    /\ \/ /\ fd \in opened
          /\ rax' = "area"
          /\ area' = "yes"
       \/ rax' = "err" /\ UNCHANGED area
    /\ UNCHANGED <<opened, hit, buf>>

KernelClose ==
    /\ pc = "close"
    /\ IF fd \in opened \cup {"std", "own"} THEN rax' = "ok" ELSE rax' = "err"
    /\ opened' = opened \ {fd}
    /\ Touched(fd)
    /\ UNCHANGED <<buf, area>>

KernelMunmap ==
    /\ pc = "munmap"
    /\ \/ hdr = "area" /\ rax' = "ok" /\ area' = "no"
       \/ rax' = "err" /\ UNCHANGED area
    /\ UNCHANGED <<opened, hit, buf>>

(* The target runs the instruction at libc_base.                           *)
Execute ==
    /\ run = "run" /\ regs = "call" /\ code = "syscall"
    /\ \/ KernelMalloc \/ KernelOpen \/ KernelFree \/ KernelFtruncate
       \/ KernelMmap \/ KernelClose \/ KernelMunmap
    /\ regs' = "ret"
    /\ UNCHANGED <<run, traced, code, low, pend, status, sent, got, pc, step, old, orig,
                   res, locals>>

(* The break instruction after it.  What a target does that was let go     *)
(* with the registers of a call, after a failure, is not modelled.         *)
Break ==
    /\ run = "run" /\ regs = "ret" /\ code = "syscall" /\ traced = "yes"
    /\ run' = "stop"
    /\ status' = Trap
    /\ UNCHANGED <<target, traced, pend, sent, got, pc, step, old, orig, res, locals>>

-----------------------------------------------------------------------------
(* Attaching and detaching                                                 *)

AfterAttach == IF hdr = "none" THEN "malloc" ELSE "munmap"

(* PTRACE_ATTACH; it may be refused, and callers go on all the same.       *)
TaskAttach ==
    /\ pc \in {"create", "delete"}
    /\ \/ /\ run # "dead"
          /\ traced' = "yes"
          /\ Queue(AttachStop)
          /\ pc' = "attwait"
       \/ /\ pc' = AfterAttach
          /\ UNCHANGED <<traced, pend>>
    /\ UNCHANGED <<target, run, status, sent, got, step, old, orig, res, locals>>

(* Mutant: PTRACE_CONT without the signal.                                 *)
ContDropped ==
    /\ run' = "run"
    /\ status' = "none"
    /\ UNCHANGED got

(* PTRACE_CONT with the signal the target stopped with.                    *)
Cont ==
    /\ run' = "run"
    /\ got' = got \cup {status}
    /\ status' = "none"

AttachWait ==
    /\ pc = "attwait"
    /\ \/ /\ run = "stop" /\ KindOf(status) = "STOP"
          /\ pc' = AfterAttach
          /\ status' = "none"
          /\ UNCHANGED <<run, got>>
       \/ /\ run = "stop" /\ KindOf(status) # "STOP"
          /\ Cont
          /\ UNCHANGED pc
       \/ /\ run = "dead"
          /\ pc' = AfterAttach
          /\ UNCHANGED <<run, got, status>>
    /\ UNCHANGED <<target, traced, pend, sent, step, old, orig, res, locals>>

LetGo ==
    /\ traced' = "no"
    /\ run' = IF run = "stop" THEN "run" ELSE run

TaskDetach ==
    /\ \/ pc = "detach" /\ pc' = IF err = "yes" THEN "exit" ELSE "loaded"
       \/ pc = "leave" /\ pc' = "exit"
    /\ LetGo
    /\ UNCHANGED <<target, pend, status, sent, got, step, old, orig, res, locals>>

(* The tool exits, and the kernel lets go of the tracee.                   *)
Exit ==
    /\ pc = "exit"
    /\ pc' = "end"
    /\ LetGo
    /\ UNCHANGED <<target, pend, status, sent, got, step, old, orig, res, locals>>

(* Later the area is unmapped (delete_patch(), delete_mmap_vma_file()).    *)
DeletePatch ==
    /\ pc = "loaded"
    /\ pc' = "delete"
    /\ UNCHANGED <<target, run, traced, pend, status, sent, got, step, old, orig, res, locals>>

-----------------------------------------------------------------------------
(* task_syscall()                                                          *)

(* Mutant: the check is missing.                                           *)
ShouldNeverSkip == FALSE

(* ftruncate and close leave descriptors 0, 1 and 2 alone.                 *)
ShouldSkipRemoteFd == pc \in {"ftruncate", "close"} /\ fd = "std"

(* Up to the first PTRACE_CONT.  Without a stopped tracee PTRACE_GETREGS   *)
(* fails, and *res is not set.                                             *)
SyscallBegin ==
    /\ pc \in Calls /\ step = "begin"
    /\ ~ShouldSkipRemoteFd
    /\ res' = "undef"
    /\ \/ /\ traced = "yes" /\ run = "stop"
          /\ old' = regs
          /\ orig' = code
          /\ regs' = "call"
          /\ code' = "syscall"
          /\ run' = "run"
          /\ status' = "none"
          /\ step' = "wait"
       \/ /\ traced = "no" \/ run # "stop"
          /\ step' = "done"
          /\ UNCHANGED <<old, orig, regs, code, run, status>>
    /\ UNCHANGED <<traced, rax, pend, sent, got, opened, hit, buf, area, low, pc, locals>>

(* What the result register holds before the call is executed: on x86_64   *)
(* the number of the call, which for open is 2, on aarch64 the first       *)
(* argument, which for openat is negative.                                 *)
Early ==
    IF pc # "open" THEN "nr" ELSE IF Arch = "x86_64" THEN "std" ELSE "err"

(* Mutant: after the call the registers are left.                          *)
SyscallEndRegsLeft ==
    /\ pc \in Calls /\ step = "wait"
    /\ run = "stop" /\ KindOf(status) \in {"TRAP", "STOP"}
    /\ res' = IF regs = "ret" THEN rax ELSE Early
    /\ code' = orig
    /\ step' = "done"
    /\ status' = "none"
    /\ UNCHANGED <<run, traced, regs, rax, pend, sent, got, opened, hit, buf, area,
                   low, pc, old, orig, locals>>

(* wait_for_stop() and the rest.  SIGTRAP and SIGSTOP end the call, and    *)
(* SIGSEGV fails it and leaves the registers; other signals are passed on. *)
SyscallEnd ==
    /\ pc \in Calls /\ step = "wait"
    /\ run = "stop" /\ KindOf(status) \in {"TRAP", "STOP"}
    /\ res' = IF regs = "ret" THEN rax ELSE Early
    /\ regs' = old
    /\ code' = orig
    /\ step' = "done"
    /\ status' = "none"
    /\ UNCHANGED <<run, traced, rax, pend, sent, got, opened, hit, buf, area,
                   low, pc, old, orig, locals>>

SyscallPass ==
    /\ pc \in Calls /\ step = "wait"
    /\ run = "stop" /\ KindOf(status) = "other"
    /\ Cont
    /\ UNCHANGED <<target, traced, pend, sent, pc, step, old, orig, res, locals>>

(* Mutant: wait_for_stop() goes on waiting for a target that is dead.      *)
SyscallFailAlive ==
    /\ pc \in Calls /\ step = "wait"
    /\ run = "stop" /\ KindOf(status) = "SEGV"
    /\ code' = orig
    /\ status' = "none"
    /\ step' = "done"
    /\ UNCHANGED <<run, traced, regs, rax, pend, sent, got, opened, hit, buf, area,
                   low, pc, old, orig, res, locals>>

(* Mutant: a failed call returns before poke_back.                         *)
SyscallFailNoPoke ==
    /\ pc \in Calls /\ step = "wait"
    /\ \/ run = "stop" /\ KindOf(status) = "SEGV" /\ status' = "none"
       \/ run = "dead" /\ UNCHANGED status
    /\ step' = "done"
    /\ UNCHANGED <<target, run, traced, pend, sent, got, pc, old, orig, res, locals>>

SyscallFail ==
    /\ pc \in Calls /\ step = "wait"
    /\ \/ /\ run = "stop" /\ KindOf(status) = "SEGV"
          /\ code' = orig
          /\ status' = "none"
       \/ /\ run = "dead"
          /\ UNCHANGED <<code, status>>
    /\ step' = "done"
    /\ UNCHANGED <<run, traced, regs, rax, pend, sent, got, opened, hit, buf, area,
                   low, pc, old, orig, res, locals>>

-----------------------------------------------------------------------------
(* create_mmap_vma_file() and the munmap, from call to call                *)

Return(c, l) ==
    /\ pc = c /\ step = "done"
    /\ pc' = l
    /\ step' = "begin"
    /\ UNCHANGED <<target, run, traced, pend, status, sent, got, old, orig, res>>

(* task_malloc(): an error number is an address like another.              *)
MallocReturns ==
    /\ Return("malloc", "open")
    /\ name' = IF res = "buf" THEN "buf" ELSE "bad"
    /\ UNCHANGED <<err, fd, hdr>>

(* task_open() does not look at the result of task_syscall(): its own may  *)
(* be uninitialised.                                                       *)
OpenReturns ==
    /\ Return("open", "free")
    /\ IF res = "undef" THEN \E f \in Fds : fd' = f ELSE fd' = res
    /\ UNCHANGED <<err, name, hdr>>

(* Without a descriptor create_mmap_vma_file() returns without detaching;  *)
(* it takes 0 for an error.                                                *)
FreeReturns ==
    /\ \/ /\ fd \in {"err", "zero"}
          /\ Return("free", "exit")
          /\ err' = "yes"
       \/ /\ fd \notin {"err", "zero"}
          /\ Return("free", "ftruncate")
          /\ UNCHANGED err
    /\ UNCHANGED <<name, fd, hdr>>

(* task_ftruncate() returns 0 when task_syscall() fails.                   *)
FtruncateReturns ==
    /\ \/ /\ res \in {"ok", "undef"}
          /\ Return("ftruncate", "mmap")
          /\ UNCHANGED err
       \/ /\ res \notin {"ok", "undef"}
          /\ Return("ftruncate", "close")
          /\ err' = "yes"
    /\ UNCHANGED <<name, fd, hdr>>

(* Mutant: when mmap fails the descriptor is not closed.                   *)
MmapReturnsAtOnce ==
    /\ \/ /\ res = "area"
          /\ Return("mmap", "close")
          /\ hdr' = "area"
          /\ UNCHANGED err
       \/ /\ res # "area"
          /\ Return("mmap", "detach")
          /\ err' = "yes"
          /\ UNCHANGED hdr
    /\ UNCHANGED <<name, fd>>

(* Mutant: the address asked for is saved, not the one mmap(2) returned.   *)
MmapReturnsHint ==
    /\ Return("mmap", "close")
    /\ \/ /\ res = "undef"
          /\ err' = "yes"
          /\ UNCHANGED hdr
       \/ /\ res # "undef"
          /\ hdr' = "area"
          /\ UNCHANGED err
    /\ UNCHANGED <<name, fd>>

(* Only 0, the result of a task_syscall() that failed, is an error.        *)
MmapReturns ==
    /\ Return("mmap", "close")
    /\ \/ /\ res = "undef"
          /\ err' = "yes"
          /\ UNCHANGED hdr
       \/ /\ res # "undef"
          /\ hdr' = IF res = "area" THEN "area" ELSE "bad"
          /\ UNCHANGED err
    /\ UNCHANGED <<name, fd>>

CloseReturns == Return("close", "detach") /\ UNCHANGED locals

MunmapReturns == Return("munmap", "leave") /\ UNCHANGED locals

SkipRemoteFd ==
    /\ ShouldSkipRemoteFd
    /\ step = "begin"
    /\ pc' = IF pc = "ftruncate" THEN "close" ELSE "detach"
    /\ err' = IF pc = "ftruncate" THEN "yes" ELSE err
    /\ UNCHANGED <<target, run, traced, pend, status, sent, got, step, old, orig,
                   res, name, fd, hdr>>

Tool ==
    \/ TaskAttach \/ AttachWait \/ TaskDetach \/ DeletePatch \/ Exit
    \/ SyscallBegin \/ SyscallEnd \/ SyscallPass \/ SyscallFail
    \/ MallocReturns \/ OpenReturns \/ FreeReturns \/ FtruncateReturns
    \/ MmapReturns \/ CloseReturns \/ MunmapReturns \/ SkipRemoteFd

Target == Execute \/ Break \/ \E s \in pend : Signal(s)

Next == Tool \/ Target \/ Die \/ \E s \in Sig : Send(s)

Spec == Init /\ [][Next]_vars

(* The tool runs on, and so does a target that is not stopped.             *)
FairSpec == Spec /\ WF_vars(Tool) /\ WF_vars(Target)

-----------------------------------------------------------------------------
(* Properties                                                              *)

(* No SIGSEGV was sent to the target: the only signal that fails a call in *)
(* a target that lives, after which its registers are not put back.        *)
NoSegv == \A s \in sent : Kind[s] # "SEGV"

(* A target that task_detach(), or the exit of the tool, lets go resumes   *)
(* its application: with its own registers, and with the code at libc_base *)
(* that task_syscall() borrowed put back.                                  *)
AppResumes ==
    NoSegv /\ run = "run" /\ traced = "no" => regs = "app" /\ code = "orig"

(* No signal for the application is lost: wait_for_stop() and              *)
(* task_attach() pass on those they see, once the target goes on.          *)
SignalsKept ==
    \A s \in sent :
      Kind[s] = "other" /\ run # "dead" => s \in pend \cup got \cup {status}

(* The tool truncates and closes no descriptor of the application.         *)
FdOwned == hit = {}

(* It does not while no SIGSEGV fails a call: __should_skip_remote_fd() is *)
(* enough then, also when a SIGSTOP ended the remote open early.           *)
FdKept == NoSegv => FdOwned

(* When the tool is done nothing of create_mmap_vma_file() stays in the    *)
(* target but the area: not the buffer of task_open(), and not map_fd if   *)
(* the target has its descriptors 0, 1 and 2 open.  In one that has closed *)
(* one of them open(2) gives it to the tool, which takes 0 for an error,   *)
(* skips the close of 1 and 2, and so leaves it open.  The signals the     *)
(* target received were for the application.                               *)
NothingLeft ==
    (\A s \in sent : Kind[s] = "other") /\ pc \in {"loaded", "exit", "end"} /\ run # "dead" =>
      buf = "no" /\ (low = "new" => opened = {})

(* create_mmap_vma_file() tells the truth about the area: it returns 0 and *)
(* its address when it is mapped; when it is not, an error or an address   *)
(* that is not the area's.                                                 *)
MapHonest ==
    NoSegv /\ pc \in {"detach", "loaded", "delete"} /\ run # "dead" => (area = "yes" <=> hdr = "area")

(* The code task_syscall() borrows is put back however the call ends, also *)
(* when SIGSEGV fails it and leaves the registers to the next call.        *)
CodeBack == step # "wait" /\ run # "dead" => code = "orig"

(* The tool comes to its end, whatever signals the target receives, and    *)
(* the target is not left stopped: also not by create_mmap_vma_file() when *)
(* it returns without task_detach(), for the exit of the tool lets it go.  *)
Finishes == <>(pc = "end" /\ traced = "no" /\ run # "stop")

=============================================================================
