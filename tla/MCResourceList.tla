---------------------------- MODULE MCResourceList ----------------------------
(***************************************************************************)
(* Finite instance of ResourceList: three registrars, one with a nil       *)
(* lister, and a collection of up to four items, one of them hidden.       *)
(***************************************************************************)
EXTENDS ResourceList

CONSTANTS r1, r2, r3
==============================================================================
