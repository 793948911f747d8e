------------------------------ MODULE MCRender -------------------------------
(***************************************************************************)
(* An instance of Render: web and its init container, a job, one service   *)
(* for a profile that is not active, and one whose files get the names of  *)
(* web's.                                                                  *)
(***************************************************************************)
EXTENDS Render

MCNameSeq == <<"debug", "job", "web", "web-app">>

File(place, type, size, utf8, key, base) ==
  [place |-> place, type |-> type, size |-> size, utf8 |-> utf8, key |-> key, base |-> base]

MCKind == [x \in {"./a/app.conf", "./b/app.conf", "./conf", "./tls.key", "/etc/hosts", "./dir", "./big",
                  "/nix/store/x", "./bin"} |-> "path"]
          @@ ("~/rc" :> "home") @@ [x \in {"data", "Data", "cache"} |-> "name"]

MCHost ==
  ("./a/app.conf" :> File("project", "regular", 1, TRUE, FALSE, "app.conf"))
  @@ ("./b/app.conf" :> File("project", "regular", 1, TRUE, FALSE, "app.conf"))
  @@ ("./conf" :> File("project", "regular", 1, TRUE, FALSE, "conf"))
  @@ ("./tls.key" :> File("project", "regular", 1, TRUE, TRUE, "tls.key"))
  @@ ("/etc/hosts" :> File("outside", "regular", 1, TRUE, FALSE, "hosts"))
  @@ ("./dir" :> File("project", "dir", 1, TRUE, FALSE, "dir"))
  @@ ("./big" :> File("project", "regular", 2, TRUE, FALSE, "big"))
  @@ ("./bin" :> File("project", "regular", 1, FALSE, FALSE, "bin"))
  @@ ("/nix/store/x" :> File("store", "regular", 1, TRUE, FALSE, "x"))
  @@ ("~/rc" :> File("home", "regular", 1, TRUE, FALSE, "rc"))

\* The label of a path drops its punctuation, that of a name its capitals: the two
\* app.conf and the two spellings of data collide, and so do a path and a secret.
MCLabel ==
  (<<"web", "app.conf">> :> "web-app-conf") @@ (<<"web-app", "conf">> :> "web-app-conf")
  @@ (<<"web", "x">> :> "web-x")
  @@ (<<"web", "tls.key">> :> "web-tls-key") @@ (<<"job", "app.conf">> :> "job-app-conf")
  @@ (<<"job", "tls.key">> :> "job-tls-key")
  @@ (<<"data">> :> "data") @@ (<<"Data">> :> "data") @@ (<<"cache">> :> "cache")
  @@ (<<"/etc/hosts">> :> "etc-hosts") @@ (<<"./dir">> :> "dir") @@ (<<"./big">> :> "big")
  @@ (<<"./bin">> :> "bin") @@ (<<"~/rc">> :> "rc") @@ (<<"tls">> :> "tls")
  @@ (<<"web.app.conf">> :> "web-app-conf")

MCPrefixed == <<"P_", "A">> :> "P_A"

Vol(src, dst, ro) == [src |-> src, dst |-> dst, ro |-> ro, anonymous |-> FALSE]
Anonymous(dst) == [src |-> dst, dst |-> dst, ro |-> FALSE, anonymous |-> TRUE]
Port(parts, ip, host, cont, proto) ==
  [parts |-> parts, ip |-> ip, host |-> host, cont |-> cont, proto |-> proto]

Svc(vols, secrets, inits, ports, named, envFrom, job) ==
  [def |-> 1, deps |-> <<>>, profiles |-> {}, xprofiles |-> {}, inits |-> inits, probe |-> FALSE,
   env |-> <<>>, envFrom |-> envFrom, vols |-> vols, secretMounts |-> secrets, ports |-> ports,
   named |-> named, job |-> job, tmpfs |-> {"/tmp"}, storePaths |-> {"/nix/store/x"}]

Env(file) == <<[file |-> file, prefix |-> "P_"]>>
Files == ("full" :> <<[key |-> "A", val |-> 1]>>) @@ ("blank" :> <<[key |-> "", val |-> 1]>>)

Strings == <<Port(1, "", 0, 80, ""), Port(2, "", 81, 81, "udp"), Port(3, "ip", 82, 82, ""),
             Port(3, "", 84, 84, "")>>
Named == <<[name |-> "http", ip |-> "", host |-> 2, cont |-> 83, proto |-> "TCP"],
           [name |-> "far", ip |-> "", host |-> 0, cont |-> 70000, proto |-> ""]>>

\* Two files of one name, two volumes of one label, one volume twice, and a secret
\* whose name looks like the first file's.
DocNames ==
  [services |->
     "web" :> Svc(<<Vol("./a/app.conf", "/1", FALSE), Vol("./b/app.conf", "/2", FALSE),
                    Vol("data", "/3", FALSE), Vol("Data", "/4", TRUE), Vol("data", "/5", FALSE),
                    Vol("./tls.key", "/6", FALSE)>>,
                  "./tls.key" :> "web.app.conf",
                  <<[name |-> "i", def |-> 1, vols |-> <<Vol("./b/app.conf", "/1", TRUE),
                                                         Vol("cache", "/2", FALSE)>>]>>,
                  Strings, <<>>, Env("full"), FALSE),
   volumes |-> {"data"}, files |-> Files]

\* Something of every kind that is refused, with a service left out by its profile.
DocRefused ==
  [services |->
     ("web" :> Svc(<<Vol("./tls.key", "/1", FALSE), Vol("./dir", "/2", FALSE),
                     Vol("~/rc", "/3", FALSE), Vol("/nix/store/x", "/4", TRUE)>>,
                   <<>>, <<>>, Strings, Named, Env("blank"), FALSE))
     @@ ("job" :> Svc(<<Vol("/etc/hosts", "/1", TRUE), Vol("./big", "/2", FALSE),
                        Vol("./bin", "/3", FALSE), Vol("cache", "", FALSE),
                        Anonymous("/etc/hosts")>>,
                      <<>>, <<>>, <<Port(2, "", -1, 80, "")>>, <<>>, <<>>, TRUE))
     @@ ("debug" :> [Svc(<<Vol("./dir", "/1", FALSE)>>, <<>>, <<>>, <<>>, <<>>, <<>>, FALSE)
                       EXCEPT !.profiles = {"debug"}]),
   volumes |-> {"cache"}, files |-> Files]

\* A secret mount that covers nothing, next to a key and a directory.
DocMistake ==
  [services |->
     ("web" :> Svc(<<Vol("./tls.key", "/1", FALSE)>>, "./dir" :> "tls", <<>>, Strings, <<>>, <<>>,
                   FALSE))
     @@ ("job" :> Svc(<<Vol("./dir", "/1", FALSE)>>, <<>>, <<>>, <<>>, <<>>, <<>>, TRUE)),
   volumes |-> {}, files |-> Files]

\* An environment file that is not there.
DocUnreadable ==
  [services |-> "job" :> Svc(<<>>, <<>>, <<>>, <<>>, <<>>, Env("none"), TRUE),
   volumes |-> {}, files |-> Files]

\* Less than DocNames: some of its files are of no use any more.
DocFew ==
  [services |->
     ("web" :> Svc(<<Vol("./a/app.conf", "/1", FALSE)>>, <<>>, <<>>, <<>>, Named, <<>>, FALSE))
     @@ ("job" :> Svc(<<Vol("./a/app.conf", "/1", FALSE), Vol("./tls.key", "/2", FALSE)>>,
                      "./tls.key" :> "tls", <<>>, Strings, <<>>, Env(""), TRUE)),
   volumes |-> {"Data"}, files |-> Files]

\* Two services, each with a file whose label is web-app-conf.
DocClash ==
  [services |->
     ("web" :> Svc(<<Vol("./a/app.conf", "/1", FALSE)>>, <<>>, <<>>, <<>>, <<>>, <<>>, FALSE))
     @@ ("web-app" :> Svc(<<Vol("./conf", "/1", TRUE)>>, <<>>, <<>>, <<>>, <<>>, <<>>, FALSE)),
   volumes |-> {}, files |-> Files]

MCDocs == {DocNames, DocRefused, DocMistake, DocUnreadable, DocFew, DocClash}
=============================================================================
