-------------------------- MODULE MCKernelLocks --------------------------
(* KernelLocks with a screen of two rows and columns. *)
EXTENDS KernelLocks

MCMessage == <<"x", "nl">>
MCBuffers == { <<>>, <<"x", "lead", "cont", "bad">>, <<"cont", "x", "lead", "nl">>, <<"x", "lead">> }
=============================================================================
