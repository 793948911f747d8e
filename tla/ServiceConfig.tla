---------------------------- MODULE ServiceConfig ----------------------------
(***************************************************************************)
(* Ports and volumes of a service, as `up` hands them to the container     *)
(* runtime (pkg/cri/convert.go), as the microVM forwarder reads them       *)
(* (pkg/microvm/portfwd/extract.go), and as `render` does (pkg/k8s).  The  *)
(* three parse the same strings, each in its own way.                      *)
(*                                                                         *)
(* A port string is a record: parts is how many numbers or addresses the   *)
(* colons separate, ip, host and cont what they say (a port of -1 does not *)
(* parse, 0 stands for an empty or absent part), proto what follows the    *)
(* slash ("" if there is none).  A named port has a name, the numbers and  *)
(* a protocol.  A volume string has a source, a destination and whether it *)
(* is read-only; anonymous is one without a source.                        *)
(***************************************************************************)
EXTENDS Integers, Sequences, FiniteSets, Functions, SequencesExt

CONSTANT MaxPort   \* 65535

Upper(proto) ==
  CASE proto \in {"tcp", "TCP"} -> "TCP" [] proto \in {"udp", "UDP"} -> "UDP"
    [] proto \in {"sctp", "SCTP"} -> "SCTP" [] OTHER -> proto

----------------------------------------------------------------------------
(***************************************************************************)
(* The container runtime.                                                  *)
(***************************************************************************)
\* ParsePort fails on an unknown protocol or a part that is no number.
Parses(p) ==
  /\ p.proto = "" \/ Upper(p.proto) \in {"TCP", "UDP", "SCTP"}
  /\ p.parts \in 1..3
  /\ p.cont > 0
  /\ p.parts > 1 => p.host > 0

ParsePort(p) ==
  [ip |-> IF p.parts = 3 THEN p.ip ELSE "", host |-> IF p.parts = 1 THEN 0 ELSE p.host,
   cont |-> p.cont, proto |-> IF p.proto = "" THEN "TCP" ELSE Upper(p.proto)]

ClampPort(n) == IF n > MaxPort THEN MaxPort ELSE IF n < 0 THEN 0 ELSE n

ParseNamedPort(np) ==
  [ip |-> np.ip, host |-> ClampPort(np.host), cont |-> ClampPort(np.cont),
   proto |-> IF Upper(np.proto) \in {"UDP", "SCTP"} THEN Upper(np.proto) ELSE "TCP"]

\* BuildPodConfig drops the error of ParsePorts, and with it every mapping.
PortMappings(svc) ==
  IF \E p \in Range(svc.ports) : ~Parses(p) THEN {}
  ELSE {ParsePort(p) : p \in Range(svc.ports)}
         \cup {ParseNamedPort(np) : np \in Range(svc.named)}

\* ParseVolumeMount: a host path, a named volume, or nothing at all.
ParseVolumeMount(vol, kind, declared) ==
  IF vol.anonymous THEN {}
  ELSE IF kind = "path"
  THEN {[of |-> "host", src |-> vol.src, dst |-> vol.dst, ro |-> vol.ro]}
  ELSE IF kind = "name" \/ vol.src \in declared
  THEN {[of |-> "volume", src |-> vol.src, dst |-> vol.dst, ro |-> vol.ro]}
  ELSE {}

\* The volumes, the tmpfs paths and, if the host's store is used, the store paths;
\* kind[v.src] is what the prefix of a source looks like: "path", "name" or "home".
BuildMounts(svc, kind, declared) ==
  (UNION {ParseVolumeMount(v, kind[v.src], declared) : v \in Range(svc.vols)})
    \cup {[of |-> "tmpfs", src |-> "", dst |-> d, ro |-> FALSE] : d \in svc.tmpfs}
    \cup {[of |-> "store", src |-> d, dst |-> d, ro |-> TRUE] : d \in svc.storePaths}

----------------------------------------------------------------------------
(***************************************************************************)
(* The forwarder: TCP only, and the port of the VM is the host's.          *)
(***************************************************************************)
ParsePortString(p) ==
  LET host == IF p.parts = 1 THEN p.cont ELSE p.host
  IN  IF /\ p.proto \in {"", "tcp"} /\ p.parts \in 1..3
         /\ host \in 1..MaxPort /\ p.cont \in 0..MaxPort
      THEN {[ip |-> IF p.parts = 3 THEN p.ip ELSE "", host |-> host]} ELSE {}

FromNamedPort(np) ==
  IF np.proto \in {"", "tcp"} /\ np.host \in 1..MaxPort
  THEN {[ip |-> np.ip, host |-> np.host]} ELSE {}

ExtractPorts(svc) ==
  (UNION {ParsePortString(p) : p \in Range(svc.ports)})
    \cup (UNION {FromNamedPort(np) : np \in Range(svc.named)})

----------------------------------------------------------------------------
(***************************************************************************)
(* Kubernetes: only what follows the first colon, as one number.           *)
(***************************************************************************)
K8sPortString(p) ==
  LET cont == CASE p.parts = 1 -> p.cont [] p.parts = 2 -> p.cont [] OTHER -> -1
  IN  IF cont > 0 THEN {[name |-> "", cont |-> cont, proto |-> Upper(p.proto)]} ELSE {}

K8sNamedPort(np) == {[name |-> np.name, cont |-> np.cont, proto |-> Upper(np.proto)]}

\* Where there are named ports the port strings do not count.
ContainerPorts(svc) ==
  IF svc.named # <<>> THEN UNION {K8sNamedPort(np) : np \in Range(svc.named)}
  ELSE UNION {K8sPortString(p) : p \in Range(svc.ports)}
=============================================================================
