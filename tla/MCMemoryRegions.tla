---------------------------- MODULE MCMemoryRegions ----------------------------
EXTENDS MemoryRegions, TLC

MCTwo == (1 :> "rw") @@ (2 :> "rw")
(* The target maps another region below the one that is open. *)
MCUpper == 2 :> "rw"
=============================================================================
