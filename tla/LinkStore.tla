----------------------------- MODULE LinkStore ------------------------------
(***************************************************************************)
(* What the link half of the state database promises: one set of           *)
(* dependency links, readable from either end.  A link <<s, t>> says that  *)
(* resource s depends on resource t.                                       *)
(***************************************************************************)
CONSTANT Ids          \* resource ids

VARIABLE links        \* the set of links

Init == links = {}

Add(s, t) == links' = links \cup {<<s, t>>}

\* Remove a resource's outgoing links; links that point to it stay.
RemoveFrom(s) == links' = {l \in links : l[1] # s}

Next ==
  \/ \E s, t \in Ids : Add(s, t)
  \/ \E s \in Ids : RemoveFrom(s)

Spec == Init /\ [][Next]_links

Dependencies(s) == {t \in Ids : <<s, t>> \in links}

Depending(t) == {s \in Ids : <<s, t>> \in links}
=============================================================================
