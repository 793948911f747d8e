---------------------------- MODULE MCSupervisor ----------------------------
(***************************************************************************)
(* Instances of Supervisor for TLC.                                        *)
(***************************************************************************)
EXTENDS Supervisor

CONSTANTS web, db, shell

\* web depends on db and is stopped first.
Two == {web, db}
TwoStopSeq == <<web, db>>

\* One other terminal.
OneOther == {shell}

\* For PolicyEnforced.
TwoAlways == [s \in Two |-> "always"]

\* One service of each policy that can end.
MixedPolicies == (web :> "unless-stopped") @@ (db :> "on-failure")
=============================================================================
