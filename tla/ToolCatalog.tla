---------------------------- MODULE ToolCatalog ----------------------------
(* The catalog of wrapped tools: how names are formed, which tools a proxy    *)
(* key sees, under which name a tool is listed and which tool a name is       *)
(* resolved to, the descriptions an administrator overrides, and the pages    *)
(* and the semantic ranking in which a client reads the catalog while it      *)
(* changes.                                                                   *)
(*                                                                            *)
(* A string is the sequence of its words, the parts between two "__", and a   *)
(* word is a number: 0..9 in lower case (0 is "asl"), 10 + w is w in upper    *)
(* case and 20 a word with a character that names may not have.  A wire name  *)
(* is then the concatenation of its three segments, and as in the code it     *)
(* does not tell where one segment ends.  A scope pattern is a prefix in      *)
(* words, or a regular expression that does not compile.                      *)
(*                                                                            *)
(* The code sorts the list of tools by wire name whenever it adds some, and   *)
(* its other steps keep the order: the list is the set of its tools, and      *)
(* sort_by_wire_name puts a set in order where the order is seen.             *)
EXTENDS Naturals, Sequences, FiniteSets, SequencesExt

CONSTANTS ApiConfigs,     \* configurations: sets of endpoints of the HTTP API
          McpOffers,      \* what the MCP server lists: sets of endpoints
          McpServer,      \* its id, the resource id of its tools
          ProxyKeys,      \* the scopes a key can have
          Overrides,      \* descriptions an administrator writes
          Filters,        \* request filters of a listing
          Searches,       \* search queries
          Searchers,      \* concurrent semantic searches
          MaxWireName,    \* longest wire name, in words
          MaxCatalog      \* changes of the catalog, a bound

VARIABLES tools,                  \* the catalog
          description_overrides,  \* wire name -> description
          original_descriptions,  \* wire name -> upstream description
          proxy_key,              \* the key of the client
          pager,                  \* a client that reads page after page
          cached_vectors,         \* wire name -> hash and vector
          ranking,                \* semantic searches under way
          upstream,               \* history: endpoints the catalog was built from
          changes                 \* changes so far, bounded by MaxCatalog

catVars == <<tools, description_overrides, original_descriptions, proxy_key,
             pager, cached_vectors, ranking, upstream, changes>>

NoFcn == [x \in {} |-> x]
Without(f, x) == [y \in DOMAIN f \ {x} |-> f[y]]
\* The elements of S in the order of before, which is strict and total on S.
Ordered(S, before(_, _)) ==
    [i \in 1..Cardinality(S) |->
        CHOOSE x \in S : Cardinality({y \in S : before(y, x)}) = i - 1]
With(f, x, v) == [y \in DOMAIN f \cup {x} |-> IF y = x THEN v ELSE f[y]]

(*************************** names and scopes ****************************)

valid_segment(s) == s # <<>> /\ \A i \in DOMAIN s : s[i] < 20
normalize_segment(s) == [i \in DOMAIN s |-> s[i] % 10]
to_wire_name(n) == n.domain \o n.provider \o n.tool
ToolName(e) == [domain |-> normalize_segment(e.domain),
                provider |-> normalize_segment(e.provider),
                tool |-> normalize_segment(e.tool)]
ValidName(e) ==
    /\ valid_segment(e.domain) /\ valid_segment(e.provider) /\ valid_segment(e.tool)
    /\ Len(to_wire_name(e)) <= MaxWireName

tools_for_resource(e) ==
    [name |-> ToolName(e), resource_id |-> e.resource, description |-> e.text]
wrap_tools(e) ==
    [name |-> ToolName(e), resource_id |-> McpServer, description |-> e.text]
wire(t) == to_wire_name(t.name)

\* That the ids of resources and MCP servers differ is left to the author of the
\* configuration.
ASSUME CatalogAssumption ==
    /\ \A eps \in ApiConfigs \cup McpOffers :
         IsFiniteSet(eps) /\ \A e \in eps : {e.domain, e.provider, e.tool} \subseteq Seq(Nat)
    /\ \A c \in ApiConfigs : \A e \in c : e.resource # McpServer

(* The MCP registry drops the second of its tools with one wire name; nothing *)
(* keeps the endpoints of the configuration and those of the registry apart.  *)
(* In what order tools that share a wire name are listed is not modelled.     *)
Apart(c, o) ==
    /\ c \cap o = {}
    /\ \A e, f \in c \cup o : to_wire_name(ToolName(e)) = to_wire_name(ToolName(f)) => e = f
DistinctNames == Apart(upstream.api, upstream.mcp)

is_match(p, w) == p.valid /\ IsPrefix(p.words, w)

\* "yes", "no", or "error" when a pattern that is needed does not compile.
key_can_use_name(k, w, resource) ==
    CASE \E p \in k.denied : ~p.valid -> "error"
      [] \E p \in k.denied : is_match(p, w) -> "no"
      [] resource \in k.servers \/ w \in k.tool_names -> "yes"
      [] \E p \in k.allowed : ~p.valid -> "error"
      [] \E p \in k.allowed : is_match(p, w) -> "yes"
      [] OTHER -> "no"
key_can_use_tool(k, t) == key_can_use_name(k, wire(t), t.resource_id)
scope_error == \E t \in tools : key_can_use_tool(proxy_key, t) = "error"
visible == {t \in tools : key_can_use_tool(proxy_key, t) = "yes"}

(*************************** resolution **********************************)

two_segment_name(t) == t.name.provider \o t.name.tool
qualifiers_match(q, t) ==
    /\ q.domain = <<>> \/ q.domain = t.name.domain
    /\ q.provider = <<>> \/ q.provider = t.name.provider

\* One tier: the tools that match, within the scope of the key if it is asked.
resolve_tier(found, q, scoped) ==
    LET named == {t \in found : qualifiers_match(q, t)}
        candidates == IF scoped THEN named \cap visible ELSE named
    IN IF scoped /\ \E t \in named : key_can_use_tool(proxy_key, t) = "error"
       THEN [res |-> "error"]
       ELSE IF candidates = {} THEN [res |-> "none"]
       ELSE IF Cardinality(candidates) = 1
       THEN [res |-> "tool", tool |-> CHOOSE t \in candidates : TRUE]
       ELSE [res |-> "ambiguous"]

resolve_for_key(name, q) ==
    LET tier0 == resolve_tier({t \in tools : wire(t) = name}, q, FALSE)
        tier1 == resolve_tier({t \in tools : two_segment_name(t) = name}, q, TRUE)
        tier2 == resolve_tier({t \in tools : t.name.tool = name}, q, TRUE)
    IN IF tier0.res # "none" THEN tier0 ELSE IF tier1.res # "none" THEN tier1 ELSE tier2

\* Mutant: a name is free if no other visible tool has it in the same form.
name_is_free_by_form(candidate, t) ==
    Cardinality({u \in visible :
        IF candidate = t.name.tool THEN u.name.tool = candidate
                                   ELSE two_segment_name(u) = candidate}) = 1
name_is_free(candidate, t) ==
    /\ ~(Len(candidate) > 1 /\ candidate[1] = 0)
    /\ \A u \in tools : wire(u) # candidate
    /\ Cardinality({u \in visible : u.name.tool = candidate \/ two_segment_name(u) = candidate}) = 1
shortest_exposed_name(t) ==
    IF name_is_free(t.name.tool, t) THEN t.name.tool
    ELSE IF name_is_free(two_segment_name(t), t) THEN two_segment_name(t) ELSE wire(t)

(*************************** descriptions ********************************)

\* The first place where they differ, or where v has ended, decides.
Before(v, w) ==
    \E i \in 1..Len(w) :
        /\ i <= Len(v) + 1 /\ \A j \in 1..i - 1 : v[j] = w[j]
        /\ i > Len(v) \/ v[i] < w[i]
sort_by_wire_name(S) == Ordered(S, LAMBDA t, u : Before(wire(t), wire(u)))

\* The descriptions on record after the tools of S went through overlay_tool.
overlay_originals(originals, S) ==
    [w \in DOMAIN originals \cup {wire(t) : t \in {u \in S : wire(u) \in DOMAIN description_overrides}} |->
        IF \E t \in S : wire(t) = w /\ w \in DOMAIN description_overrides
        THEN (CHOOSE t \in S : wire(t) = w).description ELSE originals[w]]
overlay_tool(overrides, t) ==
    IF wire(t) \in DOMAIN overrides
    THEN [t EXCEPT !.description = overrides[wire(t)]] ELSE t

ApiPart(eps) == {tools_for_resource(e) : e \in eps}
McpPart(eps) == {wrap_tools(e) : e \in eps}
AllValid(eps) == \A e \in eps : ValidName(e)
Source(t) == CHOOSE e \in upstream.api \cup upstream.mcp : ToolName(e) = t.name

Changed == changes < MaxCatalog /\ changes' = changes + 1
           /\ pager' = [pager EXCEPT !.stale = TRUE]

(* A refresh of the MCP server: its tools are replaced, the overrides are     *)
(* applied to the new ones.  A name that cannot be wrapped refuses them all.  *)
replace_mcp_tools(offer) ==
    /\ Changed
    /\ AllValid(offer)
    /\ tools' = {t \in tools : t.resource_id # McpServer}
                \cup {overlay_tool(description_overrides, t) : t \in McpPart(offer)}
    /\ original_descriptions' = overlay_originals(original_descriptions, McpPart(offer))
    /\ upstream' = [upstream EXCEPT !.mcp = offer]
    /\ UNCHANGED <<description_overrides, proxy_key, cached_vectors, ranking>>

(* A configuration swap: a catalog from the new configuration, extended by    *)
(* the tools of the registry, into which the overrides are loaded.            *)
from_config(eps) ==
    /\ Changed
    /\ AllValid(eps)
    /\ LET fresh == ApiPart(eps) \cup McpPart(upstream.mcp)
       IN /\ tools' = {overlay_tool(description_overrides, t) : t \in fresh}
          /\ original_descriptions' = overlay_originals(NoFcn, fresh)
    /\ upstream' = [upstream EXCEPT !.api = eps]
    /\ UNCHANGED <<description_overrides, proxy_key, cached_vectors, ranking>>

\* The first tool of this name has another description.
Described(w, text) ==
    tools' = {IF wire(t) = w /\ t = (CHOOSE u \in tools : wire(u) = w)
              THEN [t EXCEPT !.description = text] ELSE t : t \in tools}

set_description_override(w, text) ==
    /\ Changed
    /\ description_overrides' = With(description_overrides, w, text)
    /\ IF \E t \in tools : wire(t) = w
       THEN /\ original_descriptions' =
                   IF w \in DOMAIN original_descriptions THEN original_descriptions
                   ELSE With(original_descriptions, w,
                             (CHOOSE t \in tools : wire(t) = w).description)
            /\ Described(w, text)
       ELSE UNCHANGED <<tools, original_descriptions>>
    /\ UNCHANGED <<proxy_key, cached_vectors, ranking, upstream>>

remove_description_override(w) ==
    /\ Changed
    /\ w \in DOMAIN description_overrides
    /\ description_overrides' = Without(description_overrides, w)
    /\ original_descriptions' = Without(original_descriptions, w)
    /\ IF w \in DOMAIN original_descriptions
       THEN Described(w, original_descriptions[w]) ELSE UNCHANGED tools
    /\ UNCHANGED <<proxy_key, cached_vectors, ranking, upstream>>

(*************************** pages ***************************************)

request_filter(f, t) ==
    /\ f.include = <<>> \/ IsPrefix(f.include, wire(t))
    /\ f.exclude = <<>> \/ ~IsPrefix(f.exclude, wire(t))
    /\ f.domain = <<>> \/ f.domain = t.name.domain
Filtered(f) == sort_by_wire_name({t \in visible : request_filter(f, t)})

\* exact name, prefix, contained in the name, contained in the description
score(q, t) ==
    CASE wire(t) = q.words -> 4
      [] IsPrefix(q.words, wire(t)) -> 3
      [] \E i \in DOMAIN wire(t) : IsPrefix(q.words, SubSeq(wire(t), i, Len(wire(t)))) -> 2
      [] t.description = q.text -> 1
      [] OTHER -> 0
search_for_key(q) ==
    IF q.words = <<>> THEN sort_by_wire_name(visible)
    ELSE Ordered({t \in visible : score(q, t) > 0},
             LAMBDA t, u : \/ score(q, t) > score(q, u)
                           \/ score(q, t) = score(q, u) /\ Before(wire(t), wire(u)))

Listing == IF pager.kind = "list" THEN Filtered(pager.filter)
                                  ELSE search_for_key(pager.query)
PageEnd(cursor, limit, n) == IF cursor + limit < n THEN cursor + limit ELSE n

next_cursor(cursor, limit, n) == PageEnd(cursor, limit, n)

EndPager(why) == pager' = [pager EXCEPT !.open = FALSE, !.answer = why]
NextPage(limit) ==
    LET all == Listing
        end == PageEnd(pager.cursor, limit, Len(all))
    IN pager' = [pager EXCEPT
            !.cursor = next_cursor(pager.cursor, limit, Len(all)),
            !.open = next_cursor(pager.cursor, limit, Len(all)) < Len(all),
            !.seen = @ \o SubSeq(all, pager.cursor + 1, end)]

list_for_key(limit) ==
    /\ pager.open /\ pager.kind = "list"
    /\ IF scope_error THEN EndPager("error") ELSE NextPage(limit)
    /\ UNCHANGED <<tools, description_overrides, original_descriptions, proxy_key,
                   cached_vectors, ranking, upstream, changes>>

\* A search refuses a cursor beyond its results: they may have become fewer.
search_response(limit) ==
    /\ pager.open /\ pager.kind = "search"
    /\ IF scope_error \/ pager.cursor > Len(Listing) THEN EndPager("error")
                                                     ELSE NextPage(limit)
    /\ UNCHANGED <<tools, description_overrides, original_descriptions, proxy_key,
                   cached_vectors, ranking, upstream, changes>>

(*************************** semantic search *****************************)

NotRanking == [step |-> "idle", candidates |-> {}, missing |-> <<>>, result |-> {}]
RankVars(s) == UNCHANGED <<tools, description_overrides, original_descriptions,
                           proxy_key, pager, upstream, changes>>

(* rank: the vectors that are missing or belong to another description are    *)
(* asked for, with the read lock on the cache released.                       *)
rank(s) ==
    /\ pager.kind = "semantic"
    /\ ranking[s].step = "idle" /\ ~scope_error
    /\ LET stale(t) == wire(t) \notin DOMAIN cached_vectors
                       \/ cached_vectors[wire(t)].text # t.description
           missing == {t \in visible : stale(t)}
       IN ranking' = [ranking EXCEPT ![s] =
              [step |-> IF missing = {} THEN "query" ELSE "embed",
               candidates |-> visible, missing |-> sort_by_wire_name(missing), result |-> {}]]
    /\ UNCHANGED cached_vectors
    /\ RankVars(s)

(* The endpoint answers with one embedding per text, in any order, each with  *)
(* the index of its text.                                                     *)
in_input_order(answer) ==
    Ordered({answer[i] : i \in DOMAIN answer}, LAMBDA a, b : a.index < b.index)
Orders(n) == {p \in [1..n -> 1..n] : \A i, j \in 1..n : p[i] = p[j] => i = j}
Filed(m, vectors, w) ==
    LET i == CHOOSE j \in DOMAIN m : wire(m[j]) = w
    IN [text |-> m[i].description, vector |-> vectors[i].vector]
embed(s) ==
    /\ ranking[s].step = "embed"
    /\ LET m == ranking[s].missing
           asked == {wire(m[i]) : i \in DOMAIN m}
       IN \E p \in Orders(Len(m)) :
            LET answer == [i \in DOMAIN m |-> [index |-> p[i], vector |-> m[p[i]]]]
            IN cached_vectors' = [w \in DOMAIN cached_vectors \cup asked |->
                   IF w \in asked THEN Filed(m, in_input_order(answer), w) ELSE cached_vectors[w]]
    /\ ranking' = [ranking EXCEPT ![s].step = "query"]
    /\ RankVars(s)

(* An endpoint that fails, or answers with another number of embeddings, ends *)
(* the ranking: the keyword search answers instead.                           *)
handle_search_semantic(s) ==
    /\ ranking[s].step \in {"embed", "query"}
    /\ ranking' = [ranking EXCEPT ![s] = [NotRanking EXCEPT !.step = "keyword"]]
    /\ UNCHANGED cached_vectors
    /\ RankVars(s)

(* The query is embedded, then every candidate with a vector is scored; the   *)
(* order of the scores is the endpoint's.                                     *)
score_candidates(s) ==
    /\ ranking[s].step = "query"
    /\ ranking' = [ranking EXCEPT ![s].step = "done",
           ![s].result = {t \in ranking[s].candidates : wire(t) \in DOMAIN cached_vectors}]
    /\ UNCHANGED cached_vectors
    /\ RankVars(s)

CatInit ==
    /\ upstream \in [api : {c \in ApiConfigs : AllValid(c)},
                     mcp : {o \in McpOffers : AllValid(o)}]
    /\ tools = ApiPart(upstream.api) \cup McpPart(upstream.mcp)
    /\ description_overrides = NoFcn /\ original_descriptions = NoFcn
    /\ proxy_key \in ProxyKeys
    /\ \E kind \in {"list", "search", "semantic"}, f \in Filters, q \in Searches :
           /\ kind # "list" => f = CHOOSE g \in Filters : TRUE
           /\ kind # "search" => q = CHOOSE g \in Searches : TRUE
           /\ pager = [kind |-> kind, filter |-> f, query |-> q, cursor |-> 0, open |-> TRUE,
                       seen |-> <<>>, stale |-> FALSE, answer |-> "page"]
    /\ cached_vectors = NoFcn
    /\ ranking = [s \in Searchers |-> NotRanking]
    /\ changes = 0

CatNext ==
    \/ \E o \in McpOffers : replace_mcp_tools(o)
    \/ \E c \in ApiConfigs : from_config(c)
    \/ \E t \in tools, d \in Overrides : set_description_override(wire(t), d)
    \/ \E w \in DOMAIN description_overrides : remove_description_override(w)
    \/ \E limit \in {1, 2} : list_for_key(limit) \/ search_response(limit)
    \/ \E s \in Searchers : rank(s) \/ embed(s) \/ handle_search_semantic(s)
                            \/ score_candidates(s)
CatSpec == CatInit /\ [][CatNext]_catVars

Unshared(t) ==
    /\ \A u \in tools : wire(u) = wire(t) => u = t
    /\ \A e, f \in upstream.api \cup upstream.mcp :
         to_wire_name(ToolName(e)) = wire(t) /\ to_wire_name(ToolName(f)) = wire(t) => e = f

(* Every tool a key may use, and whose full name no other tool shares, is     *)
(* listed under a name that, given back by the same key, is resolved to this  *)
(* tool: no other tool, visible or not, in any of the three forms of a name,  *)
(* takes it over (shortest_exposed_name).                                     *)
ExposedNameResolves ==
    scope_error \/ \A t \in {u \in visible : Unshared(u)} :
        LET r == resolve_for_key(shortest_exposed_name(t),
                                 [domain |-> <<>>, provider |-> <<>>])
        IN r.res = "tool" /\ r.tool = t

(* The description shown is the override or else what the upstream says now,  *)
(* and the original on record is the upstream's, through refreshes that drop  *)
(* a tool and bring it back with another description, configuration swaps     *)
(* and changes of the overrides.                                              *)
OverlayExact ==
    \A t \in tools :
        LET w == wire(t)
        IN /\ t.description = (IF w \in DOMAIN description_overrides
                               THEN description_overrides[w] ELSE Source(t).text)
           /\ (IF w \in DOMAIN original_descriptions THEN original_descriptions[w]
               ELSE t.description) = Source(t).text

(* A client that follows the cursors to the end has seen every tool that      *)
(* matches, each once and in order, unless the catalog changed meanwhile.     *)
PagesComplete ==
    ~pager.open /\ ~pager.stale /\ pager.answer = "page" => pager.seen = Listing

(* A semantic search that does not fall back ranks all the tools the key saw  *)
(* when it began, and a vector in the cache is the one of the text it is      *)
(* filed under, whichever searches and refreshes ran in between.              *)
RankComplete ==
    /\ \A s \in Searchers : ranking[s].step = "done" =>
           ranking[s].result = ranking[s].candidates
    /\ \A w \in DOMAIN cached_vectors :
           /\ wire(cached_vectors[w].vector) = w
           /\ cached_vectors[w].vector.description = cached_vectors[w].text

(* Names, descriptions, pages and rankings of the catalog are right while it  *)
(* changes under its readers (catalog/mod.rs, query.rs, semantic.rs); all but *)
(* the names only as long as no two tools share a full name, which the        *)
(* configurations and listings of the run keep to.                            *)
CatalogExact == ExposedNameResolves /\ OverlayExact /\ PagesComplete /\ RankComplete
=============================================================================
