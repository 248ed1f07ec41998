------------------------------ MODULE MCPages ------------------------------
(* PhyPages for TLC with an entry whose size does not divide the size of a *)
(* page, as it is in the code: 24 and 4096 there, 3 and 8 here.            *)
EXTENDS PhyPages

BootZones ==
  <<[base |-> 0, pages |-> 2, aligned |-> TRUE], [base |-> 4, pages |-> 8, aligned |-> TRUE],
    [base |-> 14, pages |-> 5, aligned |-> TRUE]>>
=============================================================================
