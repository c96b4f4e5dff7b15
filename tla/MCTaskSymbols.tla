---------------------------- MODULE MCTaskSymbols ----------------------------
(* TaskSymbols with few names.  Of the addresses 0, 1 and 3 are near each  *)
(* other for an int of 8 values; 6 comes before 0 and after 3; 8 compares  *)
(* equal to 0.                                                             *)
EXTENDS TaskSymbols

NearAndFar ==
    [name : 1..3, addr : {0, 1, 3}] \cup [name : {1}, addr : {6}] \cup [name : {1, 2}, addr : {8}]

=============================================================================
