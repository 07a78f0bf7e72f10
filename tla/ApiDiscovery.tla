---------------------------- MODULE ApiDiscovery ----------------------------
(* Tools out of an OpenAPI document: which operations become tools, under     *)
(* which tool segment, with which input fields, and how the arguments of a    *)
(* call are put back into the path, the query, the headers and the body of    *)
(* the upstream request.                                                      *)
(*                                                                            *)
(* An operationId is its normalised stem, a sequence, so that <<"a", 2>> is   *)
(* what dedup_segment makes of the second <<"a">>.  A name has its lower-case *)
(* form, its spelling and whether it is a valid header name; the argument of  *)
(* a header is the name with an underscore, which no other name has.  Text in *)
(* a URL is a list of tokens, each a literal or the placeholder of a field.   *)
EXTENDS Naturals, Sequences, FiniteSets, SequencesExt

CONSTANTS Operations,     \* operations a document can have
          Discoveries,    \* discovery sections of the configuration
          SchemaGraphs,   \* components of a document: name -> component
          MaxRefDepth,    \* MAX_REF_DEPTH
          Values,         \* JSON values of arguments: type, text, whether it is
                          \* a valid header value
          ArgumentOrder,  \* the fields, sorted as the keys of a JSON object are
          MaxOperations   \* operations of a document, a bound

VARIABLES document,   \* the operations of the document, in its order
          discovery,  \* the discovery section
          schemas,    \* the components it refers to
          discovered, \* whether the document was read
          endpoints,  \* discovered endpoints
          request     \* the request of one call

docVars == <<document, discovery, schemas, discovered, endpoints, request>>

ASSUME DocumentAssumption ==
    \A op \in Operations :
        /\ \A i \in DOMAIN op.parameters :
               op.parameters[i].location \in {"path", "query", "header", "cookie"}
        /\ Len(op.operation_id) \in Nat
        /\ op.operation_id = [i \in 1..Len(op.operation_id) |-> op.operation_id[i]]

NoRequest == [made |-> FALSE]
NoField == [header |-> FALSE, name |-> [lower |-> "", text |-> "", valid |-> FALSE]]
Lit(s) == [key |-> NoField, lit |-> s]
Placeholder(f) == [key |-> f, lit |-> ""]
Placeholders(op) == {op.template[k].key : k \in DOMAIN op.template} \ {NoField}

AUTH_HEADERS == {"authorization", "x-api-key", "x-auth-token", "proxy-authorization"}

is_method_allowed(op, d) ==
    IF d.methods = {} THEN op.method # "delete" ELSE op.method \in d.methods
is_operation_selected(op, d) ==
    /\ is_method_allowed(op, d)
    /\ d.include_tags = {} \/ op.tags \cap d.include_tags # {}
    /\ <<op.method, op.path>> \notin d.exclude
    /\ op.operation_id = <<>> \/ op.operation_id \notin d.exclude

normalize_operation_id(op) ==
    IF op.operation_id = <<>> THEN <<op.method, op.path>> ELSE op.operation_id

\* The i-th of the operations with this stem has its number appended.
dedup_segment(raw, i) ==
    LET count == Cardinality({j \in DOMAIN raw : j <= i /\ raw[j] = raw[i]})
    IN IF count = 1 THEN raw[i] ELSE Append(raw[i], count)

(* Parameters of the operation come before those of the path; the first of a  *)
(* name counts, wherever it is; cookies and credentials are not exposed.      *)
Considered(op) == {i \in DOMAIN op.parameters :
    /\ op.parameters[i].location # "cookie"
    /\ \A j \in 1..i - 1 : op.parameters[j].location = "cookie"
                           \/ op.parameters[j].name # op.parameters[i].name}
FieldOf(p) == [header |-> p.location = "header", name |-> p.name]
BodyField == [header |-> FALSE, name |-> [lower |-> "body", text |-> "body", valid |-> TRUE]]

hidden_header(p) == p.location = "header" /\ p.name.lower \in AUTH_HEADERS
add_parameter(op) == {op.parameters[i] : i \in Considered(op)}
                     \ {p \in {op.parameters[i] : i \in Considered(op)} : hidden_header(p)}

build_input_schema(op) ==
    LET params == add_parameter(op)
        in(l) == {p \in params : p.location = l}
        query == SetToSortSeq({i \in Considered(op) : op.parameters[i].location = "query"},
                              LAMBDA i, j : i < j)
        body == IF op.body.present THEN {BodyField} ELSE {}
    IN [fields |-> {FieldOf(p) : p \in params} \cup body,
        required |-> {FieldOf(p) : p \in {q \in params : q.required \/ q.location = "path"}}
                     \cup (IF op.body.required THEN body ELSE {}),
        path_params |-> {p.name : p \in in("path")},
        query_params |-> [k \in DOMAIN query |-> op.parameters[query[k]].name],
        header_params |-> {p.name : p \in in("header")},
        has_body |-> op.body.present]

(* The components at each depth below the body's reference: of one that only  *)
(* refers to another, that one; of a schema, the known ones it refers to.     *)
Below(n) ==
    IF schemas[n].alias # "none" THEN {schemas[n].alias} \cap DOMAIN schemas
    ELSE {schemas[n].props[k] : k \in DOMAIN schemas[n].props} \cap DOMAIN schemas
Reached(root) ==
    LET at[d \in 1..MaxRefDepth] ==
            IF d = 1 THEN {root} \cap DOMAIN schemas ELSE UNION {Below(n) : n \in at[d - 1]}
    IN at

(* A parameter or body that refers to a component that is not there, itself   *)
(* or through components that only refer to another.                          *)
RefResolution(op) ==
    \/ \E i \in DOMAIN op.parameters : ~op.parameters[i].resolves
    \/ /\ op.body.present /\ op.body.schema # "inline"
       /\ \/ op.body.schema \notin DOMAIN schemas
          \/ \E d \in 1..MaxRefDepth : \E n \in Reached(op.body.schema)[d] :
                schemas[n].alias \notin DOMAIN schemas \cup {"none"}

(* discover_endpoints, of which an unresolvable reference refuses the whole.  *)
(* An endpoint is filed under the place of its operation in the document.     *)
discover_endpoints ==
    /\ ~discovered /\ discovered' = TRUE
    /\ LET chosen == {i \in DOMAIN document : is_operation_selected(document[i], discovery)}
           raw == [i \in chosen |-> normalize_operation_id(document[i])]
       IN /\ \A i \in chosen : ~RefResolution(document[i])
          /\ endpoints' = [i \in chosen |->
                 [op |-> document[i], raw |-> raw[i], tool_segment |-> dedup_segment(raw, i),
                  schema |-> build_input_schema(document[i])]]
    /\ UNCHANGED <<document, discovery, schemas, request>>

(* The text of a URL: the arguments, in the order of their keys, replace      *)
(* their placeholders wherever they stand by then, also inside a value put in *)
(* before; then the query parameters that are given.  Text goes in as it is.  *)
replace(text, f, by) ==
    FlattenSeq([k \in DOMAIN text |-> IF text[k].key = f THEN by ELSE <<text[k]>>])
build_url(e, args) ==
    LET resolved == FoldLeft(LAMBDA text, f : IF f \in DOMAIN args
                                              THEN replace(text, f, args[f].text) ELSE text,
                             e.op.template, ArgumentOrder)
        field(n) == [header |-> FALSE, name |-> n]
        given == SelectSeq(e.schema.query_params, LAMBDA n : field(n) \in DOMAIN args)
    IN resolved \o FlattenSeq([k \in DOMAIN given |->
           <<Lit(IF k = 1 THEN "?" ELSE "&"), Lit(given[k].text), Lit("=")>>
           \o args[field(given[k])].text])

(* Headers are sent whose value is a string, where name and value can be a    *)
(* header's; the body is sent when the operation has one.                     *)
SentHeaders(e, args, underscore) ==
    LET field(n) == [header |-> underscore, name |-> n]
    IN {[name |-> n, value |-> args[field(n)].text] :
           n \in {m \in e.schema.header_params :
                    /\ field(m) \in DOMAIN args
                    /\ args[field(m)].json = "string" /\ args[field(m)].header_ok /\ m.valid}}
SentBody(e, args) ==
    IF e.schema.has_body /\ BodyField \in DOMAIN args THEN {args[BodyField]} ELSE {}
\* Mutant: header arguments are looked up without their underscore.
apply_params_plain(e, args) ==
    [headers |-> SentHeaders(e, args, FALSE),
     body |-> SentBody(e, args)]
apply_params(e, args) ==
    [headers |-> SentHeaders(e, args, TRUE),
     body |-> SentBody(e, args)]

(* A call: nothing checks the arguments against the schema, so required ones  *)
(* may be missing, and others may name what the schema does not offer.        *)
Known(e) ==
    e.schema.fields \cup {FieldOf(e.op.parameters[i]) : i \in DOMAIN e.op.parameters}
    \cup Placeholders(e.op)
Call(i) ==
    /\ discovered /\ i \in DOMAIN endpoints /\ ~request.made
    /\ LET e == endpoints[i]
       IN \E given \in SUBSET Known(e) : \E args \in [given -> Values] :
            request' = [made |-> TRUE, endpoint |-> i, args |-> args,
                        url |-> build_url(e, args), rest |-> apply_params(e, args)]
    /\ UNCHANGED <<document, discovery, schemas, discovered, endpoints>>

DocInit ==
    /\ document \in UNION {[1..n -> Operations] : n \in 1..MaxOperations}
    /\ discovery \in Discoveries
    /\ schemas \in SchemaGraphs
    /\ discovered = FALSE /\ endpoints = <<>>
    /\ request = NoRequest

DocNext == discover_endpoints \/ \E i \in 1..MaxOperations : Call(i)
DocSpec == DocInit /\ [][DocNext]_docVars

Clash(op) ==
    \/ op.body.present /\ \E i \in DOMAIN op.parameters :
           FieldOf(op.parameters[i]) = BodyField
    \/ \E i, j \in DOMAIN op.parameters :
           i # j /\ op.parameters[i].name = op.parameters[j].name
    \/ Placeholders(op) #
           {FieldOf(op.parameters[i]) :
               i \in {j \in DOMAIN op.parameters : op.parameters[j].location = "path"}}
Reserved == {"?", "&", "=", "#", "/", "%"}
UrlPlain(v) == \A k \in DOMAIN v.text : v.text[k].key = NoField /\ v.text[k].lit \notin Reserved

NumberApart(a, b, most) == \E n \in 2..most : a = Append(b, n) \/ b = Append(a, n)

(* Two operations get the same tool segment only when the id of one is the    *)
(* other's with a number: ids that normalise to the same text are numbered    *)
(* apart, however many they are (dedup_segment).                              *)
SegmentsDistinct ==
    \A i, j \in DOMAIN endpoints :
        i # j /\ endpoints[i].tool_segment = endpoints[j].tool_segment =>
            NumberApart(endpoints[i].raw, endpoints[j].raw, Cardinality(DOMAIN endpoints))

(* A discovered tool neither offers a header that carries the upstream        *)
(* credential, in whatever case the document spells it, nor sends one, also   *)
(* when a caller names it (add_parameter, apply_params).                      *)
CredentialHeadersHidden ==
    /\ \A i \in DOMAIN endpoints :
           \A n \in endpoints[i].schema.header_params : n.lower \notin AUTH_HEADERS
    /\ request.made => \A h \in request.rest.headers : h.name.lower \notin AUTH_HEADERS

\* A URL as its reader takes it apart.
PathOf(url) == LET q == {k \in DOMAIN url : url[k] = Lit("?")}
               IN SubSeq(url, 1, (IF q = {} THEN Len(url) + 1 ELSE Min(q)) - 1)
PairsOf(url) ==
    LET cuts == {k \in DOMAIN url : url[k] \in {Lit("?"), Lit("&")}}
        end(k) == Min({j \in cuts \cup {Len(url) + 1} : j > k})
    IN {SubSeq(url, k + 1, end(k) - 1) : k \in cuts}

(* The upstream reads from the request each argument at the place where its   *)
(* parameter was declared, whole, and nothing else: the path with its         *)
(* placeholders filled, the query's pairs, the headers, the body; header      *)
(* arguments that cannot be a header are dropped (build_url, apply_params).   *)
(* This needs values that are plain in a URL, since nothing is encoded, and   *)
(* an operation that has one parameter of a name and a placeholder for each   *)
(* path parameter.                                                            *)
PlacedOnce ==
    LET e == endpoints[request.endpoint]
        args == request.args
        of(l) == {q \in add_parameter(e.op) : q.location = l /\ FieldOf(q) \in DOMAIN args}
        fits(q) == LET v == args[FieldOf(q)]
                   IN v.json = "string" /\ v.header_ok /\ q.name.valid
    IN request.made /\ ~Clash(e.op) /\ (\A f \in DOMAIN args : UrlPlain(args[f])) =>
         /\ PathOf(request.url) = FlattenSeq([k \in DOMAIN e.op.template |->
                IF e.op.template[k].key \in DOMAIN args THEN args[e.op.template[k].key].text
                ELSE <<e.op.template[k]>>])
         /\ PairsOf(request.url) =
                {<<Lit(q.name.text), Lit("=")>> \o args[FieldOf(q)].text : q \in of("query")}
         /\ request.rest.headers =
                {[name |-> q.name, value |-> args[FieldOf(q)].text] : q \in {h \in of("header") : fits(h)}}
         /\ request.rest.body =
                IF e.op.body.present /\ BodyField \in DOMAIN args THEN {args[BodyField]} ELSE {}
=============================================================================
