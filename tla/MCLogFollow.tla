----------------------------- MODULE MCLogFollow -----------------------------
(***************************************************************************)
(* An instance of LogFollow: two services, db and web.                     *)
(***************************************************************************)
EXTENDS LogFollow

MCServices == <<"db", "web">>
=============================================================================
