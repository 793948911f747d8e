------------------------------ MODULE MCMicroVM ------------------------------
(***************************************************************************)
(* An instance of MicroVM: two published ports, clients on the first.      *)
(***************************************************************************)
EXTENDS MicroVM

MCPort == [c \in Conns |-> 1]
=============================================================================
