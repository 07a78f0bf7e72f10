----------------------------- MODULE SchemaView -----------------------------
(* What an agent is shown of a tool's input schema by asl__search and         *)
(* asl__describe: the schema without boilerplate and a one-line signature.    *)
(* A JSON schema is a function from its keywords, or Always(b) for the        *)
(* booleans; an instance is a record with its JSON type, its literal, its     *)
(* members and its elements.  A description is the sequence of the lengths of *)
(* its sentences: an empty one is blank.  "type" and "items" say whether they *)
(* are lists.  A pattern of patternProperties is the member name it matches.  *)
EXTENDS Naturals, Sequences, FiniteSets

CONSTANTS Schemas,       \* input schemas of tools
          Instances,     \* arguments a caller may send
          TextCap,       \* TEXT_CAP
          StubDepth      \* how deep type_stub looks

VARIABLES input_schema, described

viewVars == <<input_schema, described>>

Always(b) == [k \in {"boolean"} |-> b]
as_object(s) == "boolean" \notin DOMAIN s
\* The name of a node that is no member of a named map.
NoName == ""

\* The projection keeps a title that says more than the name of the field.
strip_entry(k, v, name) ==
    CASE k \in {"$schema", "$id", "example", "examples"} -> TRUE
      [] k = "title" -> name # NoName /\ v = name
      [] k = "description" -> v = <<>>
      [] k = "additionalProperties" -> v = Always(TRUE)
      [] OTHER -> FALSE

\* The first sentence, cut at TEXT_CAP.
cap_text(text) ==
    IF text = <<>> THEN <<>> ELSE <<IF text[1] <= TextCap THEN text[1] ELSE TextCap>>

RECURSIVE project_node(_, _)
project_named(named) == [n \in DOMAIN named |-> project_node(named[n], n)]
project_schema_list(list) == [i \in DOMAIN list |-> project_node(list[i], NoName)]
project_items(items) == [items EXCEPT !.of = project_schema_list(@)]
project_entry(k, v) ==
    CASE k \in {"properties", "patternProperties", "$defs", "definitions", "dependentSchemas"} ->
             project_named(v)
      [] k = "items" -> project_items(v)
      [] k \in {"additionalProperties", "unevaluatedItems", "unevaluatedProperties", "contains",
                "propertyNames", "not", "if", "then", "else"} -> project_node(v, NoName)
      [] k \in {"oneOf", "anyOf", "allOf", "prefixItems"} -> project_schema_list(v)
      [] k = "description" -> cap_text(v)
      [] OTHER -> v
project_node(s, name) ==
    IF ~as_object(s) THEN s
    ELSE [k \in {k \in DOMAIN s : ~strip_entry(k, s[k], name)} |-> project_entry(k, s[k])]
project_schema(s) == project_node(s, NoName)

(* type_stub: the alternatives the signature spells out for a parameter.      *)
Value == [label |-> "value"]
Typed(t) == [label |-> "type", type |-> t]
json_literal(v) == [label |-> "literal", literal |-> v]
ref_label(r) == [label |-> "ref", ref |-> r]
ArrayOf(stub) == [label |-> "array", of |-> stub]

scalar_value(v) == v.type \notin {"object", "array"}
\* "short": the rendered enum is at most 80 characters.
small_enum(s) ==
    /\ "enum" \in DOMAIN s
    /\ LET e == s["enum"]
       IN  Len(e.values) \in 1 .. 6 /\ (\A i \in DOMAIN e.values : scalar_value(e.values[i])) /\ e.short
union_of(s) == IF "oneOf" \in DOMAIN s THEN s["oneOf"]
               ELSE IF "anyOf" \in DOMAIN s THEN s["anyOf"] ELSE <<>>
join_unique(types) ==
    IF types = <<>> THEN {Value} ELSE {Typed(types[i]) : i \in DOMAIN types}
RECURSIVE type_stub(_, _)
array_stub(s, depth) ==
    CASE "items" \notin DOMAIN s -> {Typed("array")}
      [] "items" \in DOMAIN s /\ s["items"].list -> {ArrayOf({Value})}
      [] OTHER -> {ArrayOf(type_stub(s["items"].of[1], depth + 1))}
typed(t, s, depth) == IF t = "array" THEN array_stub(s, depth) ELSE {Typed(t)}
\* The order of the tests is the code's: the first that applies decides.
type_stub(s, depth) ==
    IF depth > StubDepth \/ ~as_object(s) THEN {Value}
    ELSE IF small_enum(s)
         THEN {json_literal(s["enum"].values[i]) : i \in DOMAIN s["enum"].values}
    ELSE IF "const" \in DOMAIN s THEN {json_literal(s["const"])}
    ELSE IF union_of(s) # <<>>
         THEN UNION {type_stub(union_of(s)[i], depth + 1) : i \in DOMAIN union_of(s)}
    ELSE IF "$ref" \in DOMAIN s THEN {ref_label(s["$ref"])}
    ELSE IF "type" \in DOMAIN s
         THEN IF s["type"].list THEN join_unique(s["type"].of) ELSE typed(s["type"].of[1], s, depth)
    ELSE IF "properties" \in DOMAIN s THEN {Typed("object")} ELSE {Value}

Named(s, k) == IF k \in DOMAIN s THEN s[k] ELSE [n \in {} |-> n]
properties_of(s) == Named(s, "properties")
required_names(s) == IF "required" \in DOMAIN s THEN s["required"] ELSE {}
compact_signature(s) ==
    [n \in DOMAIN properties_of(s) |->
        [optional |-> n \notin required_names(s), stub |-> type_stub(properties_of(s)[n], 0)]]

(* search_item and asl__describe. *)
describe ==
    /\ ~described.done
    /\ described' = [done |-> TRUE, schema |-> project_schema(input_schema),
                     signature |-> compact_signature(input_schema)]
    /\ UNCHANGED input_schema

ViewInit == input_schema \in Schemas /\ described = [done |-> FALSE]
ViewNext == describe

(*************************** reference ***********************************)

Str(n) == [type |-> "string", text |-> n, members |-> [m \in {} |-> m], elements |-> <<>>]
HasType(v, t) == v.type = t \/ (v.type = "integer" /\ t = "number")
Listed(s, k) == IF k \in DOMAIN s THEN s[k] ELSE <<>>

\* What JSON Schema says of the keywords above within the document `root';
\* keywords that are not named here are annotations.
RECURSIVE Accepts(_, _, _)
AcceptsMembers(root, s, v) ==
    LET props == properties_of(s)
        patterns == Named(s, "patternProperties")
        dependent == Named(s, "dependentSchemas")
    IN /\ required_names(s) \subseteq DOMAIN v.members
       /\ \A n \in DOMAIN v.members :
             /\ n \in DOMAIN props => Accepts(root, props[n], v.members[n])
             /\ n \in DOMAIN patterns => Accepts(root, patterns[n], v.members[n])
             /\ "additionalProperties" \in DOMAIN s /\ n \notin DOMAIN props \cup DOMAIN patterns =>
                   Accepts(root, s["additionalProperties"], v.members[n])
             /\ n \in DOMAIN dependent => Accepts(root, dependent[n], v)
             /\ "propertyNames" \in DOMAIN s => Accepts(root, s["propertyNames"], Str(n))
AcceptsElements(root, s, v) ==
    LET prefix == Listed(s, "prefixItems")
    IN /\ \A i \in DOMAIN v.elements :
             IF i <= Len(prefix) THEN Accepts(root, prefix[i], v.elements[i])
             ELSE "items" \in DOMAIN s =>
                    IF s["items"].list
                    THEN i <= Len(s["items"].of) => Accepts(root, s["items"].of[i], v.elements[i])
                    ELSE Accepts(root, s["items"].of[1], v.elements[i])
       /\ "contains" \in DOMAIN s =>
             \E i \in DOMAIN v.elements : Accepts(root, s["contains"], v.elements[i])
Accepts(root, s, v) ==
    IF ~as_object(s) THEN s["boolean"]
    ELSE
    /\ "type" \in DOMAIN s /\ s["type"].of # <<>> =>
           \E i \in DOMAIN s["type"].of : HasType(v, s["type"].of[i])
    /\ "enum" \in DOMAIN s => \E i \in DOMAIN s["enum"].values : v = s["enum"].values[i]
    /\ "const" \in DOMAIN s => v = s["const"]
    /\ v.type = "object" => AcceptsMembers(root, s, v)
    /\ v.type = "array" => AcceptsElements(root, s, v)
    /\ \A i \in DOMAIN Listed(s, "allOf") : Accepts(root, s["allOf"][i], v)
    /\ "anyOf" \in DOMAIN s => \E i \in DOMAIN s["anyOf"] : Accepts(root, s["anyOf"][i], v)
    /\ "oneOf" \in DOMAIN s =>
           Cardinality({i \in DOMAIN s["oneOf"] : Accepts(root, s["oneOf"][i], v)}) = 1
    /\ "not" \in DOMAIN s => ~Accepts(root, s["not"], v)
    /\ "if" \in DOMAIN s =>
           LET branch == IF Accepts(root, s["if"], v) THEN "then" ELSE "else"
           IN  branch \in DOMAIN s => Accepts(root, s[branch], v)
    /\ "$ref" \in DOMAIN s /\ s["$ref"] \in DOMAIN Named(root, "$defs") =>
           Accepts(root, root["$defs"][s["$ref"]], v)

(* The schema an agent reads admits exactly the arguments the upstream's own  *)
(* schema admits: what is left out never narrows or widens it, also when a    *)
(* parameter is called like one of the keywords that are removed, and at      *)
(* every keyword the projection descends into (schema_view.rs:245-314).       *)
(* Outside: "unevaluatedProperties", which a removed additionalProperties of  *)
(* true would have satisfied, and references relative to a removed "$id".     *)
ProjectionSame ==
    described.done => \A v \in Instances :
        Accepts(described.schema, described.schema, v) <=> Accepts(input_schema, input_schema, v)

\* A label of the signature and a value it covers: "value" and the name of a
\* definition promise nothing.
RECURSIVE Covers(_, _)
Covers(stub, v) ==
    \E l \in stub :
        CASE l.label \in {"value", "ref"} -> TRUE
          [] l.label = "type" -> HasType(v, l.type)
          [] l.label = "literal" -> v = l.literal
          [] l.label = "array" ->
                 v.type = "array" /\ \A i \in DOMAIN v.elements : Covers(l.of, v.elements[i])

(* The signature never misleads: parameters without "?" are the required      *)
(* ones, and an argument the schema admits is one the parameter's labels      *)
(* cover: its type, one of its literals, or an array of what its element      *)
(* labels cover (schema_view.rs:127-243).  Two shapes are outside: a schema   *)
(* with properties and no type is called an object, and the stub of an array  *)
(* with prefixItems speaks of the elements after the prefix.                  *)
SignatureSound ==
    described.done => \A n \in DOMAIN described.signature :
        LET s == properties_of(input_schema)[n]
            d == described.signature[n]
        IN /\ d.optional <=> n \notin required_names(input_schema)
           /\ \A v \in Instances : Accepts(input_schema, s, v) =>
                  \/ Covers(d.stub, v)
                  \/ "type" \notin DOMAIN s /\ "properties" \in DOMAIN s
                  \/ "prefixItems" \in DOMAIN s /\ "items" \in DOMAIN s
=============================================================================
