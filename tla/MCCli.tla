-------------------------------- MODULE MCCli -------------------------------
(* A small instance of Cli: two handles, a packed repository and a directory. *)
EXTENDS Cli, TLC

CONSTANTS packed, dir

MCPath == {packed, dir}
MCPackedPath == {packed}
MCSymmetry == Permutations(Handle)
=============================================================================
