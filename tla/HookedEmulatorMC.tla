--------------------------- MODULE HookedEmulatorMC ---------------------------
(* Up to MaxHooks hooks on an emulator that is started any number of times, *)
(* for at most MaxCycles instructions each time.  Three hooks are a list    *)
(* with a first, an inner and a last element; two cycles have an end of the *)
(* instruction that is not the end of the run.                              *)
EXTENDS HookedEmulator
=============================================================================
