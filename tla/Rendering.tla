------------------------------ MODULE Rendering -----------------------------
(* The Markdown projection of a JSON result (render.rs).  A value is a tree;   *)
(* the projection is the set of the scalars it shows, each by its path and in  *)
(* the form in which it is shown.                                              *)
EXTENDS Integers, Sequences

CONSTANTS
    JsonValues,       \* [kind, multi, members, items]
    MD_MAX_DEPTH      \* nesting after which a subtree is shown as YAML

VARIABLES mdIn, mdDone
mdVars == <<mdIn, mdDone>>

is_scalar(v) == v.kind = "scalar"
is_multiline(v) == is_scalar(v) /\ v.multi
is_empty_container(v) == ~is_scalar(v) /\ DOMAIN v.members = {} /\ v.items = <<>>

RECURSIVE Leaves(_, _)
Leaves(v, path) ==
    IF is_scalar(v) THEN {[path |-> path, multi |-> v.multi]}
    ELSE UNION ({Leaves(v.members[k], Append(path, k)) : k \in DOMAIN v.members}
                \cup {Leaves(v.items[i], Append(path, i)) : i \in DOMAIN v.items})

Show(path, form) == {[path |-> path, form |-> form]}
yaml_fence(v, path) == {[path |-> l.path, form |-> "yaml"] : l \in Leaves(v, path)}

table_able(items) ==
    \A i \in DOMAIN items :
        items[i].kind = "object" /\ \A k \in DOMAIN items[i].members : is_scalar(items[i].members[k])
columns(items) == UNION {DOMAIN items[i].members : i \in DOMAIN items}
table(items, path) ==
    UNION {{[path |-> path \o <<i, c>>, form |-> "cell"] :
               c \in columns(items) \cap DOMAIN items[i].members} : i \in DOMAIN items}

RECURSIVE md_value(_, _, _)
md_object(v, depth, path) ==
    UNION {LET val == v.members[k]  here == Append(path, k)
           IN  IF is_multiline(val) THEN Show(here, "fence")
               ELSE IF is_scalar(val) THEN Show(here, "inline")
               ELSE IF is_empty_container(val) THEN {}
               ELSE md_value(val, depth + 1, here) : k \in DOMAIN v.members}
md_array(v, path) ==
    IF \A i \in DOMAIN v.items : is_scalar(v.items[i]) /\ ~is_multiline(v.items[i])
    THEN UNION {Show(Append(path, i), "inline") : i \in DOMAIN v.items}
    ELSE IF table_able(v.items) THEN table(v.items, path)
    ELSE yaml_fence(v, path)
md_value(v, depth, path) ==
    IF depth >= MD_MAX_DEPTH /\ ~is_scalar(v) THEN yaml_fence(v, path)
    ELSE IF v.kind = "object" THEN md_object(v, depth, path)
    ELSE IF v.kind = "array" THEN md_array(v, path)
    ELSE Show(path, IF v.multi THEN "fence" ELSE "inline")

(* The set of what is shown is a function of the value, so the behaviour is    *)
(* one step: a value comes in and is rendered.                                 *)
markdown == ~mdDone /\ mdDone' = TRUE /\ UNCHANGED mdIn
MdInit == mdIn \in JsonValues /\ mdDone = FALSE
MdNext == markdown

(* Rendering loses no value: every scalar of the JSON result is shown exactly  *)
(* once, rows with keys that earlier rows lack included, and one of several    *)
(* lines is never put where a line break would end its list item               *)
(* (md_value, table, text_fence, yaml_fence).                                  *)
RenderComplete ==
    mdDone =>
        LET shown == md_value(mdIn, 0, <<>>)
            leaves == Leaves(mdIn, <<>>)
        IN  /\ {s.path : s \in shown} = {l.path : l \in leaves}
            /\ \A s, t \in shown : s.path = t.path => s = t
            /\ \A s \in shown : s.form = "inline" => [path |-> s.path, multi |-> FALSE] \in leaves
=============================================================================
