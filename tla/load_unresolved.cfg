SPECIFICATION Spec
CONSTANTS
    Unit = 3
    Page = 5
    Imm <- MCImm
    Cases <- MCCases
    Faults = {"shmem", "copy", "chown", "mmap", "kick"}
    None = None
INVARIANT UndefResolved
