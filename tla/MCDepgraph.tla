----------------------------- MODULE MCDepgraph -----------------------------
(***************************************************************************)
(* Depgraph on every graph over three services, with one name that no      *)
(* service has, so that cycles, self-dependencies and dangling entries all *)
(* occur.                                                                  *)
(***************************************************************************)
EXTENDS Depgraph

CONSTANTS a, b, c, ghost

MCServices == {a, b, c}
MCNames == {a, b, c, ghost}
=============================================================================
