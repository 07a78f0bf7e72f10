----------------------------- MODULE MCLibrary -----------------------------
(* The parts of the gateway that share no state with one another: what it     *)
(* publishes (catalog, OpenAPI import, schema view, MCP surface), what it     *)
(* returns (result cache, rendering, errors), what it lets out (egress), how  *)
(* it starts, and what it remembers (defaults, usage).  A behaviour is one of    *)
(* one part; the others stay as an idle gateway has them.                     *)
EXTENDS ToolCatalog, SchemaRefs, SchemaView, ResultCache, Rendering,
        McpSurface, Egress, MCStartup, Records, ClientBoundary, TLC

CONSTANTS m1, m2
\* Searchers, readers, debug calls and writers are alike.
ActorSymmetry == Permutations({m1, m2})

VARIABLE part
lvars == <<part, catVars, docVars, viewVars, rcVars, mdVars, defVars, sfVars, sfTargets,
           egVars, stVars, usVars, bdVars>>

One(S) == CHOOSE x \in S : TRUE

----------------------------------------------------------------------------
Ep(d, p, t, x) == [domain |-> d, provider |-> p, tool |-> t, resource |-> "api", text |-> x]
e1 == Ep(<<1>>, <<2>>, <<3>>, "x")
e2 == Ep(<<4>>, <<1>>, <<2, 3>>, "x")
e3 == Ep(<<5>>, <<12>>, <<3>>, "y")
Mcp(t, x) == Ep(<<6>>, <<7>>, t, x)
MCApiConfigs == {{e1, e2}, {e1, e3}, {Ep(<<1>>, <<2>>, <<3, 3, 3, 3>>, "x")}}
MCMcpOffers == {{}, {Mcp(<<3>>, "x"), Mcp(<<2, 3>>, "x")}, {Mcp(<<3>>, "y"), Mcp(<<0, 8>>, "x")}, {Mcp(<<20>>, "x")}}
Pat(w) == [valid |-> TRUE, words |-> w]
BadPat == [valid |-> FALSE, words |-> <<>>]
Key(d, s, n, a) == [denied |-> d, servers |-> s, tool_names |-> n, allowed |-> a]
MCKeys == {Key({}, {}, {}, {Pat(<<>>)}), Key({Pat(<<6, 7, 3>>)}, {"mcp"}, {}, {Pat(<<1>>), Pat(<<5>>)}),
   Key({}, {"mcp"}, {<<4, 1, 2, 3>>}, {}), Key({BadPat}, {"mcp"}, {}, {}), Key({}, {"mcp"}, {}, {BadPat})}
MCFilters == {[include |-> <<>>, exclude |-> <<>>, domain |-> <<>>], [include |-> <<>>, exclude |-> <<1>>, domain |-> <<>>]}
MCSearches == {[words |-> <<>>, text |-> "x"], [words |-> <<2, 3>>, text |-> "x"]}
----------------------------------------------------------------------------
PName(n) == [lower |-> n, text |-> n, valid |-> TRUE]
Param(l, n, r) == [location |-> l, name |-> PName(n), required |-> r, resolves |-> TRUE]
NoBody == [present |-> FALSE, required |-> FALSE, schema |-> "inline"]
Op(m, p, id, t, ps, b) == [method |-> m, path |-> p, operation_id |-> id, tags |-> {"t"}, template |-> t, parameters |-> ps, body |-> b]
Arg(n) == [header |-> FALSE, name |-> PName(n)]
AuthName == [lower |-> "authorization", text |-> "Authorization", valid |-> TRUE]
OddName == [lower |-> "o d", text |-> "o d", valid |-> FALSE]
IdPath == <<Lit("/"), Lit("a"), Lit("/"), Placeholder(Arg("id"))>>
MCOperations == {
  Op("get", "/a", <<"a">>, IdPath, <<Param("path", "id", FALSE), Param("query", "body", FALSE), Param("query", "q", FALSE)>>, NoBody),
  Op("post", "/a", <<"a">>, <<Lit("/"), Lit("a")>>, <<Param("header", "x", TRUE), [Param("header", "", TRUE) EXCEPT !.name = AuthName]>>, [present |-> TRUE, required |-> TRUE, schema |-> "S"]),
  Op("get", "/b", <<"a", 2>>, IdPath, <<Param("query", "q", TRUE), Param("query", "id", FALSE), Param("path", "id", TRUE)>>, NoBody),
  Op("delete", "/b", <<>>, <<Lit("/"), Lit("b")>>, <<Param("cookie", "q2", TRUE), [Param("header", "", TRUE) EXCEPT !.name = OddName]>>, [present |-> TRUE, required |-> FALSE, schema |-> "inline"]),
  [Op("get", "/c", <<>>, <<Lit("/")>>, <<[Param("query", "q", TRUE) EXCEPT !.resolves = FALSE]>>, NoBody) EXCEPT !.tags = {}]}
MCArgumentOrder == <<[header |-> TRUE, name |-> AuthName], [header |-> TRUE, name |-> OddName], [header |-> TRUE, name |-> PName("x")],
                     Arg("body"), Arg("id"), Arg("q"), Arg("q2")>>
MCValues == {[json |-> "string", text |-> <<Lit("v")>>, header_ok |-> TRUE], [json |-> "number", text |-> <<Lit("7")>>, header_ok |-> TRUE],
             [json |-> "string", text |-> <<Placeholder(Arg("q")), Lit("&")>>, header_ok |-> FALSE]}
MCDiscoveries == {[methods |-> {}, include_tags |-> {}, exclude |-> {}], [methods |-> {"get", "delete"}, include_tags |-> {"t"}, exclude |-> {<<"a", 2>>}]}
Comp(ps) == [alias |-> "none", kind |-> "object", props |-> ps]
Alias(n) == [alias |-> n, kind |-> "none", props |-> NoFcn]
Text == [alias |-> "none", kind |-> "string", props |-> NoFcn]
MCGraphs == {NoFcn, "S" :> Comp(("a" :> "S") @@ ("b" :> "T")) @@ "T" :> Alias("U") @@ "U" :> Text,
             "S" :> Comp("a" :> "T" @@ "b" :> "gone") @@ "T" :> Comp("a" :> "S" @@ "b" :> "V") @@ "V" :> Alias("V"),
             "S" :> Comp("a" :> "T") @@ "T" :> Alias("gone")}
RVal(k, m) == [kind |-> k, members |-> m]
RLevel(vs) == {RVal("object", m) : m \in UNION {[d -> vs] : d \in SUBSET {"a", "b"}}}
Flat == {RVal("string", NoFcn), RVal("object", NoFcn)}
MCRefInstances == Flat \cup RLevel(Flat) \cup RLevel(RLevel(Flat))
   \cup {RVal("object", "a" :> RVal("object", "a" :> v)) : v \in RLevel(RLevel(Flat))}
----------------------------------------------------------------------------
Val(t, x) == [Str(x) EXCEPT !.type = t]
Obj(m) == [Val("object", "") EXCEPT !.members = m]
Arr(e) == [Val("array", "") EXCEPT !.elements = e]
MCInstances == LET flat == {Str("title"), Str("v1"), Val("integer", "7"), Arr(<<Str("v1")>>), Arr(<<Str("v1"), Val("integer", "7")>>)}
   names == {"example", "title"}
   objs == UNION {{Obj(m) : m \in [d -> flat]} : d \in SUBSET names}
   IN flat \cup objs \cup {Obj("title" :> o) : o \in objs}
T(t) == ("type" :> [list |-> FALSE, of |-> <<t>>])
Ts(ts) == ("type" :> [list |-> TRUE, of |-> ts])
Items(l) == ("items" :> [list |-> FALSE, of |-> <<l>>])
Enum(vs) == ("enum" :> [values |-> vs, short |-> TRUE])
Many == <<Str("v1"), Str("v2"), Str("v3"), Str("v4"), Str("v5"), Str("v6"), Str("v7")>>
StrNoise == T("string") @@ ("title" :> "title") @@ ("description" :> <<>>) @@ ("examples" :> 1)
LeafSchemas == {StrNoise, Ts(<<"string", "number">>), Enum(<<Val("integer", "7"), Str("v1")>>), T("string") @@ Enum(Many), "const" :> Str("v1"),
   "$ref" :> "S", T("array") @@ Items(T("integer")), "description" :> <<300, 20>>, Always(FALSE), Always(TRUE)}
Lists == {T("array"), T("array") @@ ("items" :> [list |-> TRUE, of |-> <<StrNoise, T("string")>>]),
   T("array") @@ Items(Ts(<<"string", "integer">>)) @@ ("contains" :> Enum(<<Val("integer", "7")>>) @@ ("example" :> 1)),
   T("array") @@ ("prefixItems" :> <<StrNoise>>) @@ Items(T("integer")), T("array") @@ Items(Ts(<<>>)), T("array") @@ ("unevaluatedItems" :> StrNoise)}
Unions == {("anyOf" :> <<a, b>>) @@ T("object") : a, b \in LeafSchemas} \cup {("oneOf" :> <<a, b>>) : a, b \in LeafSchemas}
Nested == ("properties" :> ("example" :> StrNoise)) @@ ("required" :> {"example"}) @@ ("additionalProperties" :> Always(TRUE)) @@ ("$id" :> 1)
Logic == {("allOf" :> <<Nested, l>>) : l \in LeafSchemas} \cup {("not" :> l) : l \in LeafSchemas \cup {Nested}}
   \cup {("if" :> Nested) @@ ("then" :> T("object")) @@ ("else" :> l) : l \in LeafSchemas}
   \cup {("dependentSchemas" :> ("title" :> Nested)) @@ ("patternProperties" :> ("title" :> l)) @@ ("propertyNames" :> Enum(<<Str("title"), Str("example")>>)
          @@ ("title" :> "title")) @@ ("additionalProperties" :> Always(FALSE)) : l \in LeafSchemas}
Objects(L, A) == {("properties" :> p) @@ ("required" :> r) @@ ("additionalProperties" :> a) @@ ("examples" :> 1) :
   p \in UNION {[d -> L] : d \in {{}, {"example"}, {"title"}}}, r \in SUBSET {"example", "title"}, a \in A}
Bools == {Always(b) : b \in BOOLEAN}
Defs == "$defs" :> ("S" :> Nested @@ T("object"))
MCSchemas == {T("object") @@ Defs @@ o : o \in Objects(LeafSchemas, LeafSchemas)} \cup Objects(Unions \cup Lists, Bools)
  \cup {("properties" :> ("title" :> o)) @@ Defs : o \in Objects(LeafSchemas, Bools) \cup Logic} \cup Logic
----------------------------------------------------------------------------
Tx(c, h, j) == [chars |-> c, hit |-> h, json |-> j, ok |-> TRUE, is_error |-> FALSE]
MCTexts == {Tx(<<1, 2>>, 2, TRUE), Tx(<<2, 3, 1, 3>>, 4, TRUE), Tx(<<3, 1, 1>>, 0, FALSE),
            [Tx(<<3, 3>>, 1, TRUE) EXCEPT !.ok = FALSE], [Tx(<<3, 2>>, 2, TRUE) EXCEPT !.is_error = TRUE]}
It(n) == [size |-> n, error |-> FALSE]
Er(n) == [size |-> n, error |-> TRUE]
MCBatches == {<<It(2), It(3)>>, <<It(1), It(4), It(2)>>, <<Er(3), Er(3), It(1)>>}
----------------------------------------------------------------------------
Sc(m) == [kind |-> "scalar", multi |-> m, members |-> <<>>, items |-> <<>>]
JObj(m) == [kind |-> "object", multi |-> FALSE, members |-> m, items |-> <<>>]
JArr(s) == [kind |-> "array", multi |-> FALSE, members |-> <<>>, items |-> s]
Level(vs) == {JObj(m) : m \in UNION {[d -> vs] : d \in SUBSET {"a", "b"}}}
    \cup {JArr(s) : s \in UNION {[1 .. n -> vs] : n \in 0 .. 2}}
Level1 == {Sc(FALSE), Sc(TRUE)} \cup Level({Sc(FALSE), Sc(TRUE)})
MCJsonValues == LET l2 == Level(Level1)
    IN  Level1 \cup l2 \cup {JObj([k \in {"c"} |-> v]) : v \in l2} \cup {JArr(<<v>>) : v \in l2}
----------------------------------------------------------------------------
sA == <<"s">>
sB == <<"s", "/", "t">>
MCNamespaceOf == [s \in {sA, sB} |-> "ns"]
MCAuthOf == [s \in {sA, sB} |-> IF s = sA THEN "authorization_code" ELSE "client_credentials"]
Rs(u, n) == [uri |-> u, name |-> n]
Tp(t, p, n) == [template |-> t, prefix |-> p, name |-> n]
Offer(p, r, t) == [prompts |-> p, resources |-> r, templates |-> t, has_prompts |-> TRUE,
                   has_resources |-> TRUE]
RichOffer == Offer(<<"p", "not a name", "p">>, <<Rs(<<"x">>, "secret"), Rs(<<Scheme, "s", "/", "y">>, "doc"), Rs(<<"x">>, "doc")>>,
                   <<Tp("a", <<>>, "doc"), Tp("b", <<"t", "/">>, "doc"), Tp("c", <<"t", "/">>, "secret")>>)
MCSfOffers == {RichOffer, [Offer(<<"q">>, <<Rs(<<"y">>, "doc")>>, <<>>) EXCEPT !.has_prompts = FALSE, !.has_resources = FALSE]}
MCSfIds == {sA, sB}
MCSfChecked == {sA}
MCSfFails == {{}, {"prompts"}}
MCSfKeys == {[denied |-> {<<"ns", "secret">>}, servers |-> {sA, sB}, names |-> {}],
             [denied |-> {}, servers |-> {sB}, names |-> {<<"ns", "p">>, <<"ns", "doc">>}]}
----------------------------------------------------------------------------
V6(a, b, c, d, e, f, g, h) == <<a, b, c, d, e, f, g, h>>
Ip4 == {<<8, 8, 8, 8>>, <<0, 0, 0, 1>>, <<9, 255, 0, 1>>, <<10, 255, 0, 1>>, <<11, 0, 0, 1>>, <<100, 63, 0, 1>>,
        <<100, 64, 0, 1>>, <<100, 127, 0, 1>>, <<100, 128, 0, 1>>, <<127, 1, 0, 0>>, <<169, 254, 169, 254>>,
        <<169, 253, 0, 1>>, <<172, 15, 0, 1>>, <<172, 16, 0, 1>>, <<172, 31, 0, 1>>, <<172, 32, 0, 1>>,
        <<192, 168, 0, 1>>, <<192, 167, 0, 1>>, <<168, 63, 129, 16>>, <<223, 0, 0, 1>>, <<224, 0, 0, 1>>,
        <<255, 255, 255, 255>>}
Ip6 == {V6(0, 0, 0, 0, 0, 65535, 2560, 1), V6(0, 0, 0, 0, 0, 65535, 2056, 2056), V6(0, 0, 0, 0, 0, 0, 32512, 1),
        V6(0, 0, 0, 0, 0, 0, 0, 1), V6(0, 0, 0, 0, 0, 0, 0, 0), V6(100, 65435, 0, 0, 0, 0, 43518, 43518),
        V6(100, 65435, 0, 0, 0, 0, 2056, 1), V6(8194, 2560, 1, 0, 0, 0, 0, 1), V6(8194, 2056, 1, 0, 0, 0, 0, 1),
        V6(64511, 0, 0, 0, 0, 0, 0, 1), V6(64512, 0, 0, 0, 0, 0, 0, 1), V6(65023, 0, 0, 0, 0, 0, 0, 1),
        V6(65024, 0, 0, 0, 0, 0, 0, 1), V6(65151, 0, 0, 0, 0, 0, 0, 1), V6(65152, 0, 0, 0, 0, 0, 0, 1),
        V6(65279, 0, 0, 0, 0, 0, 0, 1), V6(65280, 0, 0, 0, 0, 0, 0, 1), V6(8193, 3512, 0, 0, 0, 0, 0, 1)}
MCAddresses == Ip4 \cup Ip6
Labels == {"a", "localhost", "LOCALHOST", "metadata", "google", "internal"}
MCLowerOf == [l \in Labels |-> IF l = "LOCALHOST" THEN "localhost" ELSE l]
Url(s, k, h) == [scheme |-> s, kind |-> k, host |-> h]
MCEgUrls == {Url("http", "name", <<"a">>), Url("https", "name", <<"a">>), Url("http", "name", <<"a", "LOCALHOST", "">>),
             Url("https", "name", <<"metadata", "google", "internal">>), Url("ftp", "name", <<"a">>),
             Url("http", "none", <<>>), Url("http", "ip", <<8, 8, 8, 8>>), Url("http", "ip", <<169, 254, 169, 254>>),
             Url("http", "ip", <<0, 0, 0, 0, 0, 65535, 2560, 1>>), Url("http", "ip", <<0, 0, 0, 0, 0, 0, 0, 1>>)}
----------------------------------------------------------------------------
UsEv(t, k, d, n, s) == [table |-> t, key |-> k, kind |-> d, name |-> n, status |-> s]
MCUsEvents ==
    {UsEv("request_events", "ka", "tool", <<"web", "find">>, "success"),
     UsEv("request_events", "kb", "prompt", <<"web", "find">>, "timeout"),
     UsEv("request_events", "kb", "tool", <<"web">>, "limited"),
     UsEv("security_events", "ka", "tool", <<"web">>, "success")}
MCUsFilters == {[from |-> 4, to |-> 12, key |-> "any"], [from |-> 2, to |-> -1, key |-> "ka"]}
----------------------------------------------------------------------------
MCRequestIds == {<<>>, <<" ", "c", "tab", " ", "c", "tab">>, <<" ", "tab">>, <<"c", "c", "c", "c", "c">>}
MCBdArgs == {<<"{", "}">>, <<"{", "k", "w", "}">>, <<"{", "{", "}", "w", "}">>, <<"{", "h", "}">>,
             <<"{", "w", "{", "}", "}">>, <<"w">>}
----------------------------------------------------------------------------
CatIdle ==
    /\ upstream = [api |-> {}, mcp |-> {}] /\ tools = {} /\ proxy_key = One(ProxyKeys)
    /\ description_overrides = NoFcn /\ original_descriptions = NoFcn /\ cached_vectors = NoFcn
    /\ pager = [kind |-> "list", filter |-> One(Filters), query |-> One(Searches), cursor |-> 0,
                open |-> TRUE, seen |-> <<>>, stale |-> FALSE, answer |-> "page"]
    /\ ranking = [s \in Searchers |-> NotRanking] /\ changes = 0
DocIdle ==
    /\ document = <<>> /\ discovery = One(Discoveries) /\ schemas = One(SchemaGraphs)
    /\ discovered = FALSE /\ endpoints = <<>> /\ request = NoRequest
ViewIdle == input_schema = <<>> /\ described = [done |-> FALSE]
MdIdle == mdIn = Sc(FALSE) /\ mdDone = FALSE
EgIdle == egSwitch = [block |-> TRUE, built |-> TRUE] /\ EgInit
StIdle == stEnv = One(Environments) /\ StInit
UsIdle == usDays = 0 /\ UsInit

\* The part that runs takes its own initial states.
Starts(p, Init, Idle) == IF part = p THEN Init ELSE Idle
LInit ==
    /\ part \in {"catalog", "document", "view", "results", "markdown", "defaults", "surface",
                 "reads", "targets", "egress", "startup", "usage", "boundary"}
    /\ Starts("catalog", CatInit, CatIdle) /\ Starts("document", DocInit, DocIdle)
    /\ Starts("view", ViewInit, ViewIdle) /\ Starts("markdown", MdInit, MdIdle)
    /\ Starts("egress", EgInit, EgIdle)
    /\ Starts("startup", StInit, StIdle) /\ Starts("usage", UsInit, UsIdle)
    /\ SfInit /\ RcInit /\ DefInit /\ TgInit /\ BdInit

Stays(p, vars) == IF part = p THEN TRUE ELSE UNCHANGED vars
LNext ==
    /\ UNCHANGED part
    /\ \/ part = "catalog" /\ CatNext
       \/ part = "document" /\ DocNext
       \/ part = "view" /\ ViewNext
       \/ part = "results" /\ RcNext
       \/ part = "markdown" /\ MdNext
       \/ part = "defaults" /\ DefNext
       \/ part = "surface" /\ (SfHandlers \/ SfRefreshes)
       \/ part = "reads" /\ (SfHandlers \/ SfReads)
       \/ part = "targets" /\ TgNext
       \/ part = "egress" /\ EgNext
       \/ part = "startup" /\ StNext
       \/ part = "usage" /\ UsNext
       \/ part = "boundary" /\ BdNext
    /\ Stays("catalog", catVars) /\ Stays("document", docVars) /\ Stays("view", viewVars)
    /\ Stays("results", rcVars) /\ Stays("markdown", mdVars) /\ Stays("defaults", defVars)
    /\ Stays(IF part = "reads" THEN part ELSE "surface", sfVars) /\ Stays("targets", sfTargets)
    /\ Stays("egress", egVars)
    /\ Stays("startup", stVars) /\ Stays("usage", usVars)
    /\ Stays("boundary", bdVars)
LSpec == LInit /\ [][LNext]_lvars
----------------------------------------------------------------------------
(* The properties; each speaks of the behaviours of its parts.                *)

(* What clients are shown is what there is: the tools of an imported API are  *)
(* numbered apart, credentials hidden, arguments without a character that a   *)
(* URL reserves placed once and references inlined to their depth; the short  *)
(* forms of a schema accept what the schema does, and the Markdown of a value *)
(* has all of it (openapi/mod.rs, proxy/retry.rs, schema_view.rs, render.rs). *)
PublishedFaithful ==
    /\ part = "document" =>
         SegmentsDistinct /\ CredentialHeadersHidden /\ PlacedOnce /\ RefsInlined
    /\ part = "view" => ProjectionSame /\ SignatureSound
    /\ part = "markdown" => RenderComplete
=============================================================================
