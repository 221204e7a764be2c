-------------------------- MODULE MCManagedProvider -------------------------
(***************************************************************************)
(* Two sessions and room for one of them.                                  *)
(***************************************************************************)
EXTENDS ManagedProvider

CONSTANTS k1, k2

MCKey == {k1, k2}
=============================================================================
