---------------------------- MODULE MCInvocation ----------------------------
(* One request, one HTTP tool and one MCP tool that share a short name, and    *)
(* three versions of the configuration: open with two keys; a token, a         *)
(* narrowed scope and a key removed; the key back and the resource gone.       *)
EXTENDS Invocation

CONSTANTS k1, k2, h1, m1, short

MCShortOf == [t \in {h1, m1} |-> short]
MCBatches == {<<h1, m1>>, <<short, h1>>}
MCVersions ==
    <<[scope |-> (k1 :> {h1, m1} @@ k2 :> {m1}), tokens |-> {},
       resources |-> {h1}, closed |-> FALSE, lazy |-> {}],
      [scope |-> (k1 :> {h1} @@ k2 :> None), tokens |-> {k1},
       resources |-> {h1}, closed |-> TRUE, lazy |-> {}],
      [scope |-> (k1 :> {m1} @@ k2 :> {h1}), tokens |-> {k1, k2},
       resources |-> {}, closed |-> TRUE, lazy |-> {k2}]>>
=============================================================================
