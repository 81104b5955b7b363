------------------------------ MODULE MCMemory ------------------------------
(* Memory with small regions and address spaces for TLC: two levels of tables *)
(* shared by two pages, so that a call fails before, between and after them.  *)
EXTENDS Memory

MCSmallRegions == << [begin |-> 1, end |-> 3], [begin |-> 4, end |-> 6] >>
MCVirt == {"a", "b"}
MCPath == [v \in MCVirt |-> <<"pml2", "pml1">>]
MCRanges == {<<"a">>, <<"a", "b">>}
=============================================================================
