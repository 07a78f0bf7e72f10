---------------------------- MODULE MCMcpRegistry ----------------------------
(* Small instances of McpRegistry. *)
EXTENDS McpRegistry

CONSTANTS s1, s2, n1, n2, u1, u2

conf(n, u, e) == [ns |-> n, url |-> u, enabled |-> e, strict |-> TRUE]

(* One server configured; an admin may move it and disable it, or delete   *)
(* it and create it again.                                                 *)
AdminConfs == {conf(n1, u1, TRUE), conf(n2, u2, FALSE)}
OneServer == <<s1>>
OneConf == [s \in {s1} |-> conf(n1, u1, TRUE)]

(* Two servers that offer the same wire name. *)
TwoServers == <<s1, s2>>
TwoConfs == [s \in {s1, s2} |-> conf(n1, IF s = s1 THEN u1 ELSE u2, TRUE)]
NoConfs == {}
=============================================================================
