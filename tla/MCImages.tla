------------------------------- MODULE MCImages -------------------------------
(***************************************************************************)
(* An instance of Images: two processes, a store path of two platforms and *)
(* one of a foreign platform, two other paths with one reference, and a    *)
(* registry image.                                                         *)
(***************************************************************************)
EXTENDS Images, TLC

M(id, platform) == [id |-> id, platform |-> platform]

MCRef == ("store" :> "store:hash") @@ ("foreign" :> "foreign:hash")
         @@ ("a/img" :> "img:latest") @@ ("b/img" :> "img:latest")
MCBuilt == ("store" :> <<M(1, "host"), M(2, "other")>>) @@ ("foreign" :> <<M(3, "other")>>)
MCVersions == {<<M(4, ""), M(5, "other")>>, <<M(6, "")>>}
MCRegistry == "reg" :> M(7, "host")

Symmetry == Permutations(Procs)

Svc(image, drv) == [image |-> image, drv |-> drv]
MCComps ==
  {"web" :> Svc("store", TRUE), "web" :> Svc("store", FALSE),
   ("web" :> Svc("a/img", FALSE)) @@ ("db" :> Svc("b/img", FALSE)),
   ("web" :> Svc("reg", FALSE)) @@ ("db" :> Svc("foreign", TRUE)), "web" :> Svc("", FALSE)}
=============================================================================
