------------------------------- MODULE MCIde -------------------------------
(* Ide with bytes of three values, so that addresses need all three ports. *)
EXTENDS Ide

Machine(b) == [d \in Drives |-> IF d = "A" THEN "ata" ELSE b]
MCMachines == {Machine("ata"), Machine("atapi"), Machine("none")}
=============================================================================
