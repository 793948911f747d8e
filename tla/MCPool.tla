------------------------------- MODULE MCPool --------------------------------
(***************************************************************************)
(* Instances of Pool for TLC: two workers and channels of one slot.        *)
(***************************************************************************)
EXTENDS Pool

CONSTANTS w1, w2, r1, r2, r3, r4

MCWorkers == {w1, w2}

\* The greatest load that cannot get stuck with channels of one slot: the
\* requests of two updates of one resource, so that a cancellation meets them
\* in every stage.
MCRequests == {r1, r2, r3, r4}
MCSubjects == [r \in MCRequests |-> 1]
=============================================================================
