--------------------------- MODULE MCFwpkgBuild ---------------------------
(* A small instance of FwpkgBuild: up to three partitions, payloads of 0,   *)
(* 1 or 3 bytes, and a u32 so small that large packages do not fit in it.  *)
EXTENDS FwpkgBuild

CONSTANT MaxParts

MCTypes == {[known |-> TRUE, code |-> 1], [known |-> FALSE, code |-> 9]}
MCPartitions ==
  {[name |-> n, size |-> s, burn_addr |-> s, burn_size |-> 2, type |-> t] :
     n \in {<<"a">>, <<"a", "b", "c">>}, s \in {0, 1, 3}, t \in MCTypes}
MCInputs == UNION {[1..n -> MCPartitions] : n \in 0..MaxParts}
=============================================================================
