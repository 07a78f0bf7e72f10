----------------------------- MODULE SchemaRefs -----------------------------
(* How references between the component schemas of an OpenAPI document are    *)
(* resolved when a tool's input schema is built (openapi/mod.rs).  A          *)
(* component only refers to another (an alias), or is a schema with a type    *)
(* and, for an object, the components its properties refer to.                *)
EXTENDS ApiDiscovery

CONSTANT RefInstances   \* values a body can have

(* Inlining the schemas: a reference is replaced by what it names, and below  *)
(* MAX_REF_DEPTH references by a plain object; an unknown name inside a       *)
(* schema stays a reference.                                                  *)
Leaf(k) == [kind |-> k, props |-> [p \in {} |-> p]]
too_deep == Leaf("object")
RECURSIVE resolve_schema(_, _)
resolve_schema(name, depth) ==
    CASE depth > MaxRefDepth -> too_deep
      [] schemas[name].alias # "none" -> resolve_schema(schemas[name].alias, depth + 1)
      [] OTHER ->
           [kind |-> schemas[name].kind, props |-> [p \in DOMAIN schemas[name].props |->
               LET n == schemas[name].props[p]
               IN IF n \in DOMAIN schemas THEN resolve_schema(n, depth + 1) ELSE Leaf("ref")]]

RECURSIVE Fits(_, _)
\* A value of an inlined schema; a reference left over says nothing.
Fits(tree, v) ==
    tree.kind = "ref" \/ /\ v.kind = tree.kind
                         /\ \A p \in DOMAIN tree.props \cap DOMAIN v.members :
                                Fits(tree.props[p], v.members[p])

RECURSIVE Judge(_, _, _)
\* A value of the component itself: "yes", "no", or "deep" when that takes
\* more references than are left.
Judge(name, v, left) ==
    CASE name \notin DOMAIN schemas -> "yes"
      [] left = 0 -> "deep"
      [] schemas[name].alias # "none" -> Judge(schemas[name].alias, v, left - 1)
      [] schemas[name].kind # v.kind -> "no"
      [] OTHER ->
           LET parts == {Judge(schemas[name].props[p], v.members[p], left - 1) :
                            p \in DOMAIN schemas[name].props \cap DOMAIN v.members}
           IN IF "deep" \in parts THEN "deep" ELSE IF "no" \in parts THEN "no" ELSE "yes"

(* The body schema that a tool publishes accepts exactly the values that the  *)
(* document's own schema accepts, as long as to tell takes no more than       *)
(* MAX_REF_DEPTH references one below another, also when components refer to  *)
(* each other in a circle (resolve_schema_to_value, inline_schema_refs).      *)
RefsInlined ==
    \A i \in DOMAIN endpoints :
        LET body == endpoints[i].op.body
        IN body.present /\ body.schema # "inline" =>
             \A v \in RefInstances :
                 LET judged == Judge(body.schema, v, MaxRefDepth)
                 IN judged # "deep" =>
                      (judged = "yes" <=> Fits(resolve_schema(body.schema, 1), v))
=============================================================================
