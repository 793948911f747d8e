------------------------------ MODULE MCProject ------------------------------
(***************************************************************************)
(* An instance of Project: web with an init container, and db.             *)
(***************************************************************************)
EXTENDS Project

Svc(def, deps, profiles, inits, probe) ==
  [def |-> def, deps |-> deps, profiles |-> profiles, xprofiles |-> {}, inits |-> inits,
   probe |-> probe, env |-> <<>>, envFrom |-> <<>>]

MCNameSeq == <<"db", "web", "web-init-x">>
MCInitName == <<"web", "x">> :> "web-init-x"
X == [name |-> "x", def |-> 1]

db == Svc(1, <<>>, {}, <<>>, TRUE)

\* web waits for a healthy db, and has an init container.
DocInit == ("db" :> db) @@ ("web" :> Svc(1, "db" :> "healthy", {}, <<X>>, FALSE))
\* db is for a profile that is not active, and web depends on it no more.
DocProfile == ("db" :> Svc(1, <<>>, {"p"}, <<>>, TRUE))
              @@ ("web" :> Svc(3, <<>>, {}, <<>>, FALSE))
\* db is gone, and web waits for itself.
DocCycle == "web" :> Svc(1, "web" :> "started", {}, <<>>, FALSE)

MCDocs == {DocInit, DocProfile, DocCycle}

MCTargets == {Range(MCNameSeq)}
=============================================================================
