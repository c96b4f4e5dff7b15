# ULPatch in TLA+

TLA+ modules, TLC configurations and TLAPS proofs for ULPatch, which patches
the functions of a running process: `ulpatch` loads a relocatable object into a
target and writes a jump at the entry of a function, `ulpatch --unpatch` takes
the last patch away, `ulftrace` patches and unpatches in one session, `ulpinfo`
and `ultask` look at a target and operate on it.

## The system

| part | source | model |
|---|---|---|
| patch life cycle: `init_patch()`, `delete_patch()`, metadata in the mapped file | `patch/patch.c`, `patch/meta.h` | `PatchLifecycle`, `PatchStack` |
| sessions: `open_task()`, `close_task()`, the ulp list, the proc directory | `task/core.c`, `task/proc.c`, `task/current.c` | `PatchLifecycle`, `TaskSession` |
| commands: what a session does and in which order | `ulpatch.c`, `ulftrace.c`, `ulpinfo.c` | `PatchLifecycle` |
| remote system calls by `ptrace(2)` | `task/syscall.c`, `task/core.c` | `RemoteCall` |
| VMA table: `/proc/PID/maps`, leaders, free spans | `task/vma.c` | `VmaTable` |
| symbol tables of a task, by name and by address | `task/symbol.c` | `TaskSymbols` |
| loading an object: sections, symbols, relocations, metadata | `patch/patch.c`, `patch/asm.h` | `LoadObject`; one step of `PatchLifecycle` |
| relocations, immediates of instructions | `arch/` | `Relocate` |
| BFD files, cached with reference counts; symbols of an ELF file | `elf/` | `TaskSession`, partly |
| red-black tree | `utils/rbtree.*` | `RbTree`, `RbTreeUse` |
| lists, `list_sort()` | `utils/list.*` | by what their users make of them |
| `ultask` | `ultask.c` | `UlTask` |
| files, strings, logging, start-up; the object `ulftrace` loads | `utils/`, `objects/` | not modelled |

A tool opens a task (reads the target's VMAs and, from each ulp area, the
metadata of the patch in it), runs its command and closes the task. Patching
makes a file, has the target map it by remote system calls, loads the object
into the file, publishes an id and an address, saves the code it is about to
replace, and writes the jump. The file is mapped shared, so what was written
is in the target at once and stays when the tool dies. Nothing locks the
target: the only exclusion is that `PTRACE_ATTACH` is refused while another
tool traces it, and callers of `task_attach()` ignore that.

## Modules

**`PatchLifecycle`**. The target is its text in words of 8 bytes (`text`), the
file mapped in each area (`vmas`), the contents of the patch files (`meta`:
Build ID, section headers, `ulp_id`, `virtual_addr`, `orig_code`), the names in
the `map_files` directory (`files`), the proc directory and the tracer. A tool
has a label `pc` and the locals of its session: `ulps` and `areas` (the ulp
list as read by `open_task()`), `max_ulp_id`, `ulptree` (whether its VMA tree
holds a ulp area), `file`, `base`. There is one action for each part of a
handler after which another session, or a session after a crash, could see a
difference:

| action | code |
|---|---|
| `OpenTask`, `CloseTask` | `open_task()`, `close_task()` |
| `AllocPatchFile` | `__make_pid_ulpname()`, `alloc_patch_file()` |
| `CreateMmapVmaFile`, `DeleteMmapVmaFile` | the functions of that name |
| `LoadPatch` | `load_patch()` up to the relocations |
| `SolvePatchSymbols`, `PublishAddr` | `solve_patch_symbols()`: the store of the id, then that of the address |
| `BackupOrigCode`, `CopyPatch`, `KickTarget` | `kick_target_process()` |
| `RemoveUlpFile` | the error label of `init_patch()` |
| `NothingToDelete`, `RestoreOrigCode`, `MunmapUlp`, `UnlinkPatchFile` | `delete_patch()` |
| `Crash` | a tool is killed |

`Faults` says which faults of the environment may happen: `crash`, `munmap`
(a remote `munmap(2)` fails), `mem` (an access to `/proc/PID/mem` fails),
`short` (a write to it is cut short, in or between words). Errors of
allocation, mapping and loading are always possible. `Exclusive` says whether
sessions overlap.

**`PatchStack`** is the promise: a stack of patches, of which patching pushes
one and unpatching pops the last, and a text that is at every moment what the
stack makes of it. `PatchLifecycle!ImplementsStack` reads the stack off the ids
of the patches in effect and the code off the text.

**`RemoteCall`**. A session that maps a patch area in the target by remote
calls (`task_open()` with its buffer, `task_ftruncate()`, `task_mmap()`,
`task_close()`) and later unmaps it, next to a target that receives signals
and may die. `task_syscall()` saves the registers and the code at the start of
libc, puts a system-call and a break instruction there, continues the target
and waits for a stop: `SyscallBegin`, then `SyscallEnd`, `SyscallPass` (a
signal is passed on) or `SyscallFail` (SIGSEGV, or a dead target). The actions
`...Returns` are what the callers make of a result. The kernel's part
(`Kernel...`, `Signal`, `Execute`, `Break`) is modelled from how the tool uses
it. A result that the code leaves uninitialised is any descriptor. The target may
have closed its descriptor 0, or 1 or 2 (`low`): `open(2)` then gives the tool
one that its tests take for an error or skip.

`PatchLifecycle` sees all of this as `CreateMmapVmaFile`, `DeleteMmapVmaFile`
and `MunmapUlp`, which succeed or fail.

**`VmaTable`**. A session's list and tree of the areas of its target, read line
by line (`ReadLine`) when it opens the target and again after it mapped or
unmapped a patch, next to a target whose threads map, unmap and grow the heap
(`AppMmap`, `AppMunmap`, `AppBrk`) between any two lines. Addresses are page
numbers: sizes in bytes are rounded up by `mmap(2)` and the gaps between areas
are whole pages, so that the comparisons of `find_vma_span_area()` come out the
same. The tree is a set, which is what `RbTreeUse` shows of the real one as
long as its areas are disjoint (`TreeSound`). `PatchLifecycle` sees this table
as `ulptree` and the hint as a free area.

**`RbTree`** has the functions of `rbtree.c` and `rbtree.h` as operators on a
tree of nodes, children, parents and colors; a branch and its mirror image are
one definition with a side. **`RbTreeUse`** inserts and erases nodes and takes
the tree down in the two ways the program does: by `rb_destroy()`, and by
`unlink_vma()` for every area of a list, which erases an area that overlapped
another from a tree it never was in.

**`TaskSymbols`** has the two trees of symbols, by name and by address, each
node with the list of its equals, and the references that decide when a symbol
is freed. The functions for names and for addresses are one definition with
the key as a parameter. `Width` is the width of the `int` that a difference of
addresses is returned in; addresses may be further apart than it holds, as those
of an executable and its libraries are.

**`LoadObject`** is `init_patch()` on one object, from the object file to the
jump, with `Relocate` for what a single relocation writes. Where
`PatchLifecycle` has one step, it has one action per section, symbol and
relocation entry, every failing call, and the error paths that undo what was
done; `ReadBack` is a later session that reads the symbols of the patch out of
the target (`load_ulp_info_from_vma()`). Numbers keep their widths scaled down:
`Unit` bits make a `short`.

**`TaskSession`** is `open_task()` and `close_task()` read by read, for two
tasks of one process: flags, the types of areas, ELF and program headers peeked
from memory, BFD files with their counts, symbols (of files, and of the patches
in the target), the proc directory and `current`. `close_task()` is one action
up to the directory and then one for each of the calls of
`__clean_task_proc()`. Between any two steps the target may unmap an area or
exit, and another tool may open, patch, unpatch or close it.

**`UlTask`** is the command `ultask`: `ParseOption` and `CheckArgs` for
`parse_config()`, then one action for each part of an operation between which
the target may change its address space (`AppMaps`, `AppUnmaps`).

The modules `MC...` give the constants values.

## Runs

| run | question | what holds |
|---|---|---|
| `lifecycle_stack` | Two tools in turn, three objects (two for one function, the third overlaps it), every clean failure. | `TextExact`, `AreasComplete`, `FilesMatchAreas`; `ImplementsStack`; `UnpatchDrains` |
| `lifecycle_faults` | One tool, two overlapping objects, all faults. | `JumpsMapped`, `BackupsOlder`, `UniquePatches` |
| `remote_calls` | A SIGSEGV, a SIGSTOP from outside and two handled signals at any moment, refused attaches and calls, closed standard descriptors, death; x86_64. | `SignalsKept`, `CodeBack`, `Finishes`; before a SIGSEGV is sent `AppResumes`, `FdKept`, `MapHonest`; before either is sent `NothingLeft` |
| `vma_table` | Three layouts of the target, which changes three times at any moment. | `TreeSound`, `LeadersLead`, `SpanFree`, `PatchFound`, `TableExact` |
| `load_object` | Objects of both architectures with every kind of relocation at its limits, malformed ones, and each system call failing. | `RelocExact`, `OverflowCaught`, `JumpToPatch`, `FailedLeavesNothing`, `ReadBackExact`, `MalformedRefused` |
| `task_session` | Two tasks on a plain and on a patched target that unmap areas or exit at any read, and another tool that patches and unpatches. | `RefsExact`, `ImagesExact`, `DirFollowsPatches`; `BreaksOnlyWhenLost` |
| `ultask` | Up to three options in any order on a target that changes once. | `ProtectExact`, `MapKeepsOthers`, `UnmapExact`, `WritesExact`, `Released` |
| `rbtree` | All insertions and erasures of ten nodes, then either end. | `RedBlack`, `WalkSorted`, `FreedUnread` |
| `symbols_near` | Any five symbols of three names, at addresses near each other and far apart. | `LookupsExact`, `SymsFreed` |

What these properties leave out:

* `RelocExact` holds the loader to the ABI where the loader follows it, and to
  what it does where it does not. On x86_64 the reach of a 32-bit distance is not
  checked, and the field has its low half; there is no GOT, and an entry for one
  gets the distance to the symbol itself, or, for a thread-local symbol, to an
  address made of the first addend of the section; places that ask for an offset
  from the thread pointer stay as they are in the file. On aarch64 `do_reloc()`
  takes the address of the place in the loader's own mapping, so that a distance
  is right in the target only when both mappings have one address.
  `OverflowCaught` tests the same distance, and only while `overflow_check` is
  on.
* `MalformedRefused` is about what the target runs. The tool itself may die of a
  section table outside of the file, or of the note of another type where it
  looks for a build id.
* `NothingLeft` speaks of `map_fd` in a target with its descriptors 0, 1 and 2
  open. Where one is closed, `open(2)` returns it, 0 passes for an error and 1
  and 2 are never closed.
* `LookupsExact` holds lookups by address to exactness while no difference of
  addresses is cut. Otherwise the address found is right modulo the range of an
  `int`, and a symbol may be missed. A simulation with nine nodes shows a miss;
  it takes eight distinct addresses, so the run with five symbols has none.
  Lookups by name and the freeing of symbols are exact always.
* `BreaksOnlyWhenLost` allows a use of freed memory to a task whose own target
  exited during its own `open_task()`, where the code has one.
* `DirFollowsPatches` says that a patched target which runs has its directory
  and the file of its patch, and that a process left alone leaves no directory
  of a target without patches. `comm` may be missing: a failed open, or a table
  older than the patch, removes it.
* `Released` lets the target be stopped until the command ends when the remote
  `open` was refused or gave 0. `UnmapExact` is about areas as long as their
  file, or of no file; `munmap_an_vma()` otherwise takes pages of the neighbours
  or leaves a part. `WritesExact` and `ProtectExact` are about a target that did
  not change its areas since the table was read, and `WritesExact` about commands
  without `--unmap`.

Three runs show a disagreement between the code and what a comment or document
of the repository says of it:

| run | what happens |
|---|---|
| `unpatch_after_crash` | A tool is killed between `solve_patch_symbols()` and the backup. The area has an id and an address but no saved code, and the next unpatch writes zeros over the function (`NoZeroText`). |
| `unpatch_same_session` | `init_patch()` raises `max_ulp_id` without adding to the ulp list, so that `delete_patch()` in the same session (`ulftrace`) finds nothing to delete (`LastPatchFound`). |
| `load_unresolved` | `simplify_symbols()` overwrites its result with that of the next symbol: an unresolved one in the middle is not reported and the patch is jumped into (`UndefResolved`). |

### Observations without a run

Patching. When sessions overlap, a second tool can read the published metadata
of a patch, restore and unmap it before the first tool writes its jump. A load
that fails after its area was mapped leaves the area in the session's VMA tree,
and `close_task()` then leaves the proc directory. A SIGSEGV that fails the
remote `open` leaves its result uninitialised, and the descriptor that is then
truncated and closed may be the application's. Two addresses that are a
multiple of 2^32 apart compare equal in the symbol tree. `insert_vma()`
compares an area with the one before it only, so that areas of one name with
another area in between have two leaders.

Sessions (`task/core.c`). A short read of program headers frees `vma_elf` and
leaves the pointer and `is_elf` (336-341). The comparisons with `-1` at 260 and
336 are unsigned. `load_task_status()` and `__get_comm()` use the result of
`fopen()` unchecked (947, 740), and so does the writing of `comm` (1071), so that
a target that exits while it is opened ends the tool. The `FTO_` flags have
several bits, so that `FTO_VMA_ELF` alone turns on the symbols too.
`close_task()` resets `current` whichever task is current. A failed open of a
patched target removes its `comm` file. RELRO areas are matched without looking
at the program header.

`ultask.c`. `mmap_a_file()` looks up only the two ends of its range (590) and
returns without a detach when the remote `open` fails (604); a failed remote
`mmap` is an error number, which passes the test for 0 (624), and
`task_ftruncate()` returns 0 when the call fails. `munmap_an_vma()` unmaps the
size of the file, ignores the result (680) and does not refresh the table that
`run_jmp()` checks later. `run_jmp()` writes without attaching and ignores the
result. A dump over an existing file keeps its old tail, ignores a failed read
and leaks the descriptor on errors. Two `--dump` options share their flags.

### Bounds

The life cycle needs two patches of one function to save a jump, a third that
overlaps it to save half of one, and an area and a file for each; more add no
new relation between two patches, and the theorems below are for any number.
Ids are bounded by the number of areas, since a session numbers from the
largest id it reads. With all faults on, the state space allows two objects.
In `RemoteCall` each of four signals is sent at most once: a SIGSEGV that fails
a call and a SIGSTOP that ends one early can arrive at any of the calls, in
either order, and two signals for the application before, during or after
them. The run is for x86_64, the proofs are for both architectures.

`VmaTable` has eight pages, a patch of two, and layouts with room below the
first area or between areas; when the heap grows into the gap there is room
nowhere. Three changes let an area disappear, another come in its place, and
the hint be taken; the theorems are for any number.

With ten nodes all cases of both rebalancing loops of the red-black tree occur
with their mirror images. Insertion goes through several rounds in every case.
Erasure has a second round that ends in the black-sibling cases; a second round
that meets a red sibling or a red parent needs a larger tree and is not
reached.

Five symbols make trees that were rotated, lists of two entries, and symbols
that head one list and are in another. With an `int` of eight values the
addresses 0, 1 and 3 are near each other, 6 comes before 0 and after 3, and 8
compares equal to 0.

`load_object` has a `short` of three bits and a page of five, so that every
field of an instruction has a value that fits and one that does not on either
side; each object is built around one feature and its neighbours. In
`task_session` two tasks are enough for a count of two from different tasks and
from areas of one task, and one disturbance, the patch of another tool included,
can hit every read and every call of the removal of the directory. In `ultask`
eight pages hold an area that maps a whole file, one that maps a part, an
anonymous one and gaps; three options are enough for an operation with its
`--output` and `--force`, or three operations in one command.

The sessions of `RemoteCall`, `VmaTable`, `TaskSession`, `UlTask`, `RbTreeUse`
and `TaskSymbols` end, or use up the changes and the nodes there are, so their
runs do not look for deadlock.

### Fairness

`PatchLifecycle!FairSpec`: a tool that is in a session goes on; none of its
steps waits for another tool. `UnpatchDrains` has three premises: patching ends,
unpatching is tried again and again, and from some moment on no restore is
refused (`<>[][~WriteRefused]_vars`), since `delete_patch()` gives up when the
write to `/proc/PID/mem` fails. `RemoteCall!FairSpec`: the tool runs on, and so
does a target that is not stopped (it executes, and takes pending signals).
Nothing is assumed of the processes that send signals. `Finishes` includes that
the target is not left stopped: `create_mmap_vma_file()` returns without
`task_detach()` when the remote open failed, and the exit of the tool is what
lets the target go.

## Proofs

Four modules prove results on `PatchLifecycle`, for any sets of tools, objects,
areas, files and addresses. Each extends the one before it:

| module | theorem | statement |
|---|---|---|
| `PatchLifecycleAreas` | `TypeCorrect` | `Spec => []TypeOK`, also with overlapping sessions |
| `PatchLifecycleProofs` | `NoDanglingJump` | `Exclusive => (Spec => []JumpsMapped)` |
| | `SavedCodeOlder` | `Exclusive => (Spec => []BackupsOlder)` |
| | `PatchesDiffer` | `Exclusive => (Spec => []UniquePatches)` |
| `PatchLifecycleOrder` | `AreasAreComplete` | `Orderly => (Spec => []AreasComplete)` |
| | `FilesAreThoseOfAreas` | `Orderly => (Spec => []FilesMatchAreas)` |
| | `ZerosNeverWritten` | `Orderly => (Spec => []NoZeroText)` |
| `PatchLifecycleText` | `TextIsExact` | `Untorn => (Spec => []TextExact)` |
| | `SessionsImplementStack` | `Untorn => (Spec => ImplementsStack)` |

The assumption on the constants is `ConstantsAssumption`: each function to
patch has two words of text, and addresses, areas and code words are told
apart. The hypotheses say which faults of the environment a theorem leaves out,
and each is needed:

* `Exclusive`: sessions do not overlap. With `Exclusive = FALSE` and two tools
  TLC finds the interleaving described above, in which the first tool jumps to
  the area the second one unmapped.
* `Orderly`: besides, tools are not killed and the remote `munmap(2)` works. A
  tool that is killed leaves what it was making; `unpatch_after_crash` violates
  `NoZeroText`. Accesses to `/proc/PID/mem` may fail or be cut short.
* `Untorn`: besides, no write of code is cut short. It may fail.

**`SafeInv`**. `JumpsMapped` is not inductive. When an area is unmapped, nothing
may jump to it, neither the text nor saved code that a later unpatch would write
back. So the invariant says which word can hold the address of an area: the
second word of the function the area patches (`JumpInv`); and which saved code
can: that of an area with a larger id whose function overlaps there
(`SavedInv`). The area with the largest id is therefore saved by none, and the
restore, when it was written whole, has overwritten the one word that could jump
to it. For this the session must pick the largest id of the target and not of an
old list (`ListInv`, `AllListed`), ids must differ, and an area with an address
must have an id, one without an address no saved code (`IdAddr`): between the
stores of the id and of the address an area has only the former, and a tool that
is killed there leaves it so. The rest of `SessionInv` says, label by label, how
far the area being loaded is. The generic lemmas `AreasKept`, `AreasUnmap`,
`AreasWrite` and `FileWritten` show what the area invariants need of a step that
leaves them, unmaps, writes text or writes metadata; then there is one lemma per
action, and `SafeStep` puts them together.

**`OrderInv`**. A session that runs alone is never refused to attach
(`TracedInv`, `AttachedAlone`), so what it mapped it can unmap; and where tools
are not killed, the only area with an id and no address is that of a session
between the two stores (`AddrInv`). `KeptFiles` says
at which labels the session's own file is in the directory besides those of the
areas, `KeptAreas` that every area but the one being made is complete, and
`LeftInv` what follows when no session runs. That complete areas have saved code
without zeros and that the text has none need each other: the text is saved, and
what was saved is written back.

**`TextInv`**. The text is exact at every address if each word is what the active
patch with the largest id among those that cover it asks for (`Exact`). To undo
the last patch, what it saved must be the text without it (`SavedExact`), also
for patches below it, whose order stays; and what a session saves before its
jump must still be right when the jump is written (`BackupExact`). The steps
that change the text are a `Put` and a `Take`; all others are `Same`.

**`StackInv`**. Ids in effect are `1 .. n` without a gap, and the session that
patches gives `n + 1` (`Numbered`). The refinement maps the stack to the objects
in the order of their ids and the code to the text, and every step is a push, a
pop or a stutter (`StackSimulates`).

`RemoteCallProofs` proves for any set of signals of any kinds, either
architecture and a target that may die: `RemoteTypes` (`TypeOK`),
`NoSignalLost` (`SignalsKept`), `CodeReturned` (`CodeBack`),
`ApplicationResumes` (`AppResumes`), `DescriptorsUntouched` (`FdKept`),
`AreaKnown` (`MapHonest`) and `NothingStays` (`NothingLeft`). `AppResumes`,
`FdKept` and `MapHonest` speak of the states in which no SIGSEGV has been sent
so far (`NoSegv`), `NothingLeft` of those in which all signals sent are for the
application, and of `map_fd` in a target with its standard descriptors open. The
assumption is `SignalsAssumption`: each signal has a kind.

The invariants follow what the tool may assume when it does not look. A tracee
is stopped whenever the tool does not wait for it, and then no signal is left
that the tool has not looked at (`StopInv`), so `PTRACE_CONT` with no signal
loses none. The SIGSTOP of the attach is swallowed by a pending one and never
outlives `task_attach()` (`AttachInv`), so it neither ends a call nor reaches
the application. A call without a result was made without a stopped tracee,
and so will be the calls that use its result (`FdInv`): the uninitialised
descriptor of `task_open()` is harmless until a SIGSEGV fails a call in a
tracee that lives. When nothing but signals for the application was sent, a
call that was begun ends with its trap (`TrapInv`), and so the buffer is mapped
and the descriptor open only between the calls that take and give them back
(`BufInv`, `OpenedInv`).

`VmaTableProofs` proves all properties of `vma_table` for any layout, any size
of a patch and any number of changes: `TableTypes`, `TreeStaysSound`,
`LeadersStayLeaders`, `SpanIsFree`, `PatchIsFound`, `TableIsExact`. The
assumption is `TableAssumption`: a layout is a set of disjoint areas, and the
target's own areas are not named as patches are. `PatchFound` is about the end
of an update and needs to be followed through it: until its line is read, the
area of the patch has room in the tree (`PatchInv`), because
`find_vma_span_area()` chose it there (`SpanResult`) and the lines before it
are of areas that end below it. `ExactInv` says the same of the whole table:
the areas read so far are those that end below the position. The hypothesis
that the kernel took the hint is in `PatchFound` itself: an area elsewhere may
overlap an old one, and then the tree refuses it.

`LoadObjectProofs` proves, for any word length, any set of objects and targets
and any failures: `JumpIsRight` (`JumpToPatch`), `FailureLeavesNothing`
(`FailedLeavesNothing`), `SymbolsAreReadBack` (`ReadBackExact`) and
`OnlyWellFormedRuns` (`MalformedRefused`). `CaseAssumption` says what an
object is: two tables that are arrays, symbol 0 the null symbol, and each symbol
in a section there is, absolute, common or undefined. `simplify_symbols()`
indexes the section table with `st_shndx` without a test, so an object that has
it otherwise has no defined behaviour. `WidthAssumption` is about the word
length; that a power of two is a positive number is a conjunct of it, since the
provers know no exponents. The invariant follows the two loops:
`rewrite_section_headers()` has set the addresses of the sections below `i`, and
`simplify_symbols()` the values of the symbols below `i`, to what they are in the
target, and leaves the rest of the tables as the object has them (`LoopInv`,
`ImageInv`). What `setup_load_info()` and the comparison of build ids found is
carried to the jump (`SetupInv`), and `TargetInv` says at which labels the area
and the file are there. The patch function is the largest index of its name
(`Max`); that there is one is shown from a least counterexample, with the
well-foundedness of the order on `Nat`.

`UlTaskProofs` proves, for any options, files, page size, length of a jump and
address space, and any number of options and changes: `TargetReleased`
(`Released`), `ProtectionIsExact` (`ProtectExact`), `WritesAreExact`
(`WritesExact`), `UnmapIsExact` (`UnmapExact`) and `MappingTakesNothing`
(`MapKeepsOthers`), with the restrictions that the properties have.
`CommandAssumption` gives the options their types, and says that a page of a
file is one the file has. What each operation needs is spread over the ones
before it. The globals hold what the last option of its kind set and what
`parse_config()` accepted (`Asked`, `Accepted`); the areas of the table are
apart (`TreeInv`), so that an address is in one at most. `WritesExact` compares
the table, which is read once, with the address space when the write is done:
`SnapshotInv` says that areas of the table have no holes and that all that is
mapped is in one, a file that `--map` has just mapped apart, as long as neither
the target nor `--unmap` took something away. That every mapped page is in an
area of a fresh table needs the first and the last page of a run of pages that
belong together; they are found as a least counterexample (`LeastExists`).

Only model-checked:

* `RbTreeUse` and `TaskSymbols`, whose loops are recursive operators;
* `UnpatchDrains` and `Finishes`: liveness under fairness is out of the prover's
  reach;
* `RelocExact` and `OverflowCaught`: arithmetic on fields of symbolic width,
  with powers of two of which the provers know nothing;
* the properties of `TaskSession`. `ImagesExact` speaks of what `SelectSeq` and
  `FoldLeft` return, which takes induction with an operator as a parameter; the
  others have no proof yet.

## Not modelled

Threads of the target: only the attached one is stopped while a jump is written
(`docs/en/TODO.md` lists this as open), so what another thread executes in the
words being replaced, or in an area that is unmapped, is not in the models.
Option parsing but that of `ultask`; output, dumps and logging; parsing of host
files by libelf and libbfd; `list_sort()`, which only its results stand for. In
`RbTree`, rounds of erasure that need more than ten nodes are not reached.
