----------------------------- MODULE MCVmaTable -----------------------------
(* VmaTable in an address space of a few pages.                            *)
EXTENDS VmaTable

Vma(s, e, n) == [start |-> s, end |-> e, name |-> n]

Ulps == {"ulp1", "ulp2"}
Names == {"exe", "heap", "anon", "libc"} \cup Ulps

(* An executable, a heap that can grow, a library with memory of its own.  *)
Low == {Vma(2, 3, "exe"), Vma(3, 4, "heap"), Vma(6, 7, "libc"), Vma(7, 8, "anon")}

(* The first area is high: there is room below it.                         *)
High == {Vma(4, 5, "exe"), Vma(5, 6, "heap"), Vma(7, 8, "anon")}

(* Anonymous memory on both sides of a library.                            *)
Split == {Vma(1, 2, "exe"), Vma(2, 3, "anon"), Vma(5, 6, "libc"), Vma(6, 7, "anon")}

LowHigh == {Low, High, Split}

=============================================================================
