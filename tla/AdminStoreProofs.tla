-------------------------- MODULE AdminStoreProofs --------------------------
(* What AdminStore guarantees for every number of entries, tokens, writers,    *)
(* writes and restarts.  The invariant follows one write from the check under  *)
(* the lock to its last statement: what the new configuration is, which parts  *)
(* it has reached, how the rows relate to the running configuration, and who   *)
(* may still hold a token that was retired.                                    *)
EXTENDS AdminStore, TLAPS

AnyEntry == {None} \cup [rev : Bad..MaxRev, kept : Credential \cup SUBSET Refs]
Table == [Ids -> AnyEntry]
Steps == {"idle", "remove", "validate", "persist", "dropKeys", "insertKeys"} \cup Parts
Names == {"none", "create", "update", "delete", "token"}
Shown == Descs \cup {None}
Handler == [name : Names, id : Ids \cup {None}, new : Table, overlay : Shown, step : Steps]
AllTokens == Tokens \cup {YamlToken}

ATyped ==
    /\ mem \in [Parts -> Table] /\ db \in Table
    /\ upstreamKeys \in [Resources -> SUBSET Refs]
    /\ op \in Handler
    /\ overlay \in Shown /\ dbOverlay \in Shown
    /\ meta \in [Writers -> [step : {"idle", "apply"}, val : Shown]]
    /\ now \in 0..MaxNow /\ boots \in Nat
    /\ owner \in [AllTokens -> Keys \cup {None}]
    /\ dead \subseteq AllTokens /\ failed \subseteq Ids \cup {Tool}

\* The configuration a handler is about to install differs from the running one
\* in its own entry only, and is valid once it was built.
Before == {"idle", "remove", "validate"}
DraftFits ==
    ~Idle =>
        /\ op.id \in Ids /\ op.name # "none"
        /\ op.name = "delete" <=> op.new[op.id] = None
        /\ op.new[op.id] # None => /\ op.new[op.id].kept \in Kept(op.id)
                                   /\ op.step \notin Before => op.new[op.id].rev # Bad
        /\ op.step = "remove" => op.name = "delete" /\ op.id \notin Servers
        /\ op.step \in {"dropKeys", "insertKeys"} => op.id \in Resources /\ op.name # "delete"
        /\ op.name = "token" => op.id \in Keys
        /\ \A j \in Ids \ {op.id} : op.new[j] = config[j]

\* The parts that have the new configuration at a step of the swap.
Reached(step) ==
    {p \in Parts :
        \/ step \in {"persist", "dropKeys", "insertKeys"}
        \/ step = "catalog" /\ p = "config"
        \/ step = "limits" /\ p \in {"config", "catalog"}
        \/ step = "auth" /\ p \in {"config", "catalog", "limits"}
        \/ step = "pools" /\ p # "pools"}
Progress == \A p \in Reached(op.step) : mem[p] = op.new

\* Before the swap no entry has to be excused for the handler at work.
Confined ==
    \A p \in Parts, i \in Ids :
        mem[p][i] # config[i] => i \in failed \/ (op.step \notin Before /\ op.id = i)

\* The row of an entry is the running one, unless a handler is at work on it; then
\* it is what the handler's statement expects to find, or has written.
Rows ==
    \A i \in Ids \ failed : Yaml[i] = None =>
        /\ (Idle \/ op.id # i \/ Untouched) => db[i] = config[i]
        /\ (~Idle /\ op.id = i) =>
              IF op.step \in {"dropKeys", "insertKeys"} THEN db[i] = op.new[i]
              ELSE /\ op.name = "create" => db[i] = None
                   /\ op.name = "update" => db[i] # None
                   /\ op.name = "delete" /\ i \notin Servers /\ op.step # "remove"
                         => db[i] = None

PoolOf(e) == IF e = None THEN {} ELSE e.kept
KeyRows ==
    \A r \in Resources \ failed : Yaml[r] = None =>
        \/ upstreamKeys[r] = PoolOf(db[r])
        \/ ~Idle /\ op.id = r /\ op.step = "dropKeys"
        \/ ~Idle /\ op.id = r /\ op.step = "insertKeys" /\ upstreamKeys[r] \subseteq PoolOf(db[r])

\* A swap carries the description it copied; of the writers one at most is between
\* its two writes, with the stored description, unless a change was overtaken.
Overlays ==
    /\ op.step \in {"config", "catalog"} => op.overlay = overlay
    /\ Tool \notin failed =>
          /\ \A v, w \in Writers :
                meta[v].step = "apply" /\ meta[w].step = "apply" => v = w
          /\ \A w \in Writers : meta[w].step = "apply" => meta[w].val = dbOverlay
          /\ (\A w \in Writers : meta[w].step = "idle") => overlay = dbOverlay

Configs == (\A p \in Parts : IsConfig(mem[p])) /\ IsConfig(db)
Swap == DraftFits /\ Progress /\ Confined
Stored == Rows /\ KeyRows

\* Wherever a key has a token, the token is its own.
Owned(c) ==
    \A k \in Keys : c[k] # None /\ c[k].kept.tok # None => owner[c[k].kept.tok] = k
\* Nothing that was retired is in a configuration.
Clean(c) == \A k \in Keys : c[k] # None => c[k].kept.tok \notin dead
TokensSettled ==
    /\ Owned(config) /\ Owned(mem["auth"]) /\ Owned(db) /\ Owned(op.new) /\ Owned(Yaml)
    /\ Clean(config) /\ Clean(mem["auth"]) /\ (~Idle => Clean(op.new))
    /\ \A t \in dead : owner[t] # None
    /\ \A k \in Keys \ failed : Yaml[k] = None /\ db[k] # None => db[k].kept.tok \notin dead

AInv == ATyped /\ Configs /\ Swap /\ Stored /\ Overlays /\ TokensSettled

----------------------------------------------------------------------------
(* Entries, handlers and steps.                                               *)

\* An entry of any kind is an entry of the table, and none of them is None.
LEMMA EntryTypes ==
    /\ \A i \in Ids : EntryOf(i) \subseteq [rev : Bad..MaxRev, kept : Kept(i)]
    /\ \A i \in Ids : [rev : Bad..MaxRev, kept : Kept(i)] \subseteq AnyEntry
    /\ \A i \in Ids : None \notin [rev : Bad..MaxRev, kept : Kept(i)]
    /\ None \in AnyEntry
  <1>1. \A i \in Ids : Kept(i) \subseteq Credential \cup SUBSET Refs
    BY DEF Kept
  <1>2. 1..MaxRev \subseteq Bad..MaxRev
    BY AdminStoreAssumption DEF Bad
  <1> QED BY <1>1, <1>2, AdminStoreAssumption DEF EntryOf, AnyEntry

\* A configuration is a table.
LEMMA ConfigIsTable == \A c : IsConfig(c) => c \in Table
  BY EntryTypes DEF IsConfig, Table

LEMMA YamlTyped == IsConfig(Yaml) /\ Yaml \in Table
  BY AdminStoreAssumption, ConfigIsTable

\* Fields of an entry that is there.
LEMMA EntryFields ==
    ASSUME NEW c, IsConfig(c), NEW i \in Ids, c[i] # None
    PROVE  c[i] \in EntryOf(i) /\ c[i].rev \in 1..MaxRev /\ c[i].kept \in Kept(i)
  BY DEF IsConfig, EntryOf

\* The configuration in force is a valid table.
LEMMA RunningConfig == ASSUME ATyped, Configs PROVE IsConfig(config) /\ config \in Table
  BY DEF ATyped, Configs, config, Parts

LEMMA NoHandlerFields ==
    /\ NoHandler \in Handler /\ NoHandler.step = "idle" /\ NoHandler.new = Yaml
    /\ NoHandler.id = None
  BY YamlTyped DEF NoHandler, Handler, Names, Shown, Steps

\* A handler that goes on.
LEMMA StepUpdate ==
    ASSUME NEW o \in Handler, NEW s \in Steps
    PROVE  LET q == [o EXCEPT !.step = s]
           IN  /\ q \in Handler /\ q.step = s /\ q.id = o.id /\ q.name = o.name
               /\ q.new = o.new /\ q.overlay = o.overlay
  BY DEF Handler

\* The order of a swap.
LEMMA AfterSteps ==
    /\ After["remove"] = "validate" /\ After["validate"] = "config"
    /\ \A p \in Parts : /\ After[p] \in {"catalog", "limits", "auth", "pools", "persist"}
                        /\ Reached(After[p]) = Reached(p) \cup {p}
                        /\ p \notin Reached(p)
    /\ Reached("validate") = {} /\ Reached("remove") = {} /\ Reached("config") = {}
    /\ Reached("idle") = {}
    /\ Reached("persist") = Parts /\ Reached("dropKeys") = Parts
    /\ Reached("insertKeys") = Parts
  <1>1. After["remove"] = "validate" /\ After["validate"] = "config"
    BY DEF After
  <1>2. /\ After["config"] = "catalog" /\ After["catalog"] = "limits"
        /\ After["limits"] = "auth" /\ After["auth"] = "pools" /\ After["pools"] = "persist"
    BY DEF After
  <1>3. /\ Reached("config") = {} /\ Reached("catalog") = {"config"}
        /\ Reached("limits") = {"config", "catalog"}
        /\ Reached("auth") = {"config", "catalog", "limits"}
        /\ Reached("pools") = Parts \ {"pools"} /\ Reached("persist") = Parts
    BY DEF Reached, Parts
  <1>4. /\ Reached("validate") = {} /\ Reached("remove") = {} /\ Reached("idle") = {}
        /\ Reached("dropKeys") = Parts /\ Reached("insertKeys") = Parts
    BY DEF Reached
  <1> QED BY <1>1, <1>2, <1>3, <1>4 DEF Parts

----------------------------------------------------------------------------
(* The checks under the lock.                                                 *)

LEMMA BeginKeeps ==
    ASSUME AInv, NEW n \in Names \ {"none"}, NEW i \in Ids, NEW e,
           NEW s \in {"remove", "validate"}, Begin(n, i, e, s),
           n = "delete" <=> e = None,
           e # None => e \in [rev : Bad..MaxRev, kept : Kept(i)],
           n = "create" => config[i] = None,
           n = "update" => config[i] # None,
           n = "token" => i \in Keys,
           (n = "delete" /\ i \notin Servers) <=> s = "remove",
           owner' \in [AllTokens -> Keys \cup {None}],
           \A t \in AllTokens : owner[t] # None => owner'[t] = owner[t],
           (i \in Keys /\ e # None) =>
              /\ e.kept.tok \notin dead
              /\ e.kept.tok # None => owner'[e.kept.tok] = i
    PROVE  AInv'
  <1> USE DEF AInv
  <1> DEFINE d == [config EXCEPT ![i] = e]
  <1>0. IsConfig(config) /\ config \in Table
    BY RunningConfig
  <1>1. /\ Idle /\ op' = [name |-> n, id |-> i, new |-> d, overlay |-> None, step |-> s]
        /\ UNCHANGED <<mem, db, upstreamKeys, overlay, dbOverlay, meta, now, boots,
                       dead, failed>>
    BY DEF Begin
  <1>2. d \in Table /\ d[i] = e /\ \A j \in Ids \ {i} : d[j] = config[j]
    <2>1. e \in AnyEntry
      BY EntryTypes
    <2> QED BY <1>0, <2>1 DEF Table
  <1> HIDE DEF d
  <1>3. /\ op' \in Handler /\ op'.name = n /\ op'.id = i /\ op'.new = d
        /\ op'.overlay = None /\ op'.step = s /\ ~Idle'
    BY <1>1, <1>2 DEF Handler, Names, Shown, Steps, Idle
  <1>4. ATyped'
    BY <1>1, <1>3 DEF ATyped
  <1>5. Configs' /\ config' = config
    BY <1>1 DEF Configs, config
  <1>6. Swap'
    <2>1. DraftFits'
      BY <1>2, <1>3, <1>5 DEF DraftFits, Before
    <2>2. Progress'
      BY <1>3, AfterSteps DEF Progress
    <2>3. Confined'
      BY <1>1, <1>3, <1>5 DEF Swap, Confined, Idle, Before
    <2> QED BY <2>1, <2>2, <2>3 DEF Swap
  <1>7. Stored'
    <2>1. Rows'
      BY <1>1, <1>3, <1>5 DEF Stored, Rows, Idle
    <2>2. KeyRows'
      BY <1>1, <1>3 DEF Stored, KeyRows, Idle
    <2> QED BY <2>1, <2>2 DEF Stored
  <1>8. Overlays'
    BY <1>1, <1>3 DEF Overlays
  <1>9. TokensSettled'
    <2>1. ASSUME NEW c, IsConfig(c), Owned(c)
          PROVE  \A k \in Keys : c[k] # None /\ c[k].kept.tok # None => owner'[c[k].kept.tok] = k
      <3> SUFFICES ASSUME NEW k \in Keys, c[k] # None, c[k].kept.tok # None
                   PROVE  owner'[c[k].kept.tok] = k
        OBVIOUS
      <3>1. c[k].kept.tok \in AllTokens
        BY <2>1, EntryFields DEF Ids, Kept, Credential, AllTokens
      <3>2. owner[c[k].kept.tok] = k /\ k # None
        BY <2>1, AdminStoreAssumption DEF Owned, Ids
      <3> QED BY <3>1, <3>2
    <2>2. \A k \in Keys : k \in Ids
      BY DEF Ids
    <2>3. Owned(config)' /\ Owned(mem["auth"])' /\ Owned(db)' /\ Owned(Yaml)'
      BY <1>0, <1>1, <1>5, <2>1, YamlTyped DEF TokensSettled, Configs, Parts, Owned
    <2>4. Owned(op.new)'
      BY <1>2, <1>3, <1>5, <2>2, <2>3 DEF Owned
    <2>5. Clean(config)' /\ Clean(mem["auth"])'
      BY <1>1, <1>5 DEF TokensSettled, Clean
    <2>6. Clean(op.new)'
      BY <1>1, <1>2, <1>3, <1>5, <2>2 DEF TokensSettled, Clean
    <2>7. \A t \in dead' : owner'[t] # None
      BY <1>1 DEF TokensSettled, ATyped
    <2> QED BY <1>1, <2>3, <2>4, <2>5, <2>6, <2>7 DEF TokensSettled
  <1> QED BY <1>4, <1>5, <1>6, <1>7, <1>8, <1>9

----------------------------------------------------------------------------
(* The end of a handler, and steps that are none of a handler.                *)

\* The lock is given back: the write is undone, or marked, or done.
LEMMA EndKeeps ==
    ASSUME AInv, ~Idle, EndHandler,
           UNCHANGED <<mem, db, upstreamKeys, overlay, dbOverlay, meta, now, boots,
                       owner, dead>>,
           failed \subseteq failed', failed' \subseteq failed \cup {op.id},
           \/ op.id \in failed' \/ Untouched
           \/ op.step = "insertKeys" /\ op.new[op.id].kept \subseteq upstreamKeys[op.id]
    PROVE  AInv'
  <1> USE DEF AInv
  <1>1. /\ op' \in Handler /\ op'.step = "idle" /\ op'.new = Yaml /\ op'.id = None
        /\ Idle'
    BY NoHandlerFields DEF EndHandler, Idle
  <1>2. op.id \in Ids /\ Tool # op.id
    BY AdminStoreAssumption DEF Swap, DraftFits
  <1>3. ATyped'
    BY <1>1, <1>2 DEF ATyped
  <1>4. Configs' /\ config' = config
    BY DEF Configs, config
  <1>5. op.step = "insertKeys" => \A p \in Parts : mem[p] = op.new
    BY AfterSteps DEF Swap, Progress
  <1>6. Swap'
    <2>1. DraftFits' /\ Progress'
      BY <1>1, AfterSteps DEF DraftFits, Progress
    <2>2. Confined'
      <3> SUFFICES ASSUME NEW p \in Parts, NEW i \in Ids, mem[p][i] # config[i],
                          i \notin failed'
                   PROVE  FALSE
        BY <1>4 DEF Confined
      <3>1. op.step \notin Before /\ op.id = i
        BY DEF Swap, Confined
      <3>2. op.step = "insertKeys"
        BY <3>1 DEF Untouched, Before
      <3> QED BY <1>5, <3>2 DEF config, Parts
    <2> QED BY <2>1, <2>2 DEF Swap
  <1>7. Stored'
    <2>1. Rows'
      <3> SUFFICES ASSUME NEW i \in Ids, i \notin failed', Yaml[i] = None
                   PROVE  db[i] = config[i]
        BY <1>1, <1>4 DEF Rows
      <3>1. CASE op.id # i \/ Untouched
        BY <3>1 DEF Stored, Rows
      <3>2. CASE op.id = i /\ op.step = "insertKeys"
        BY <1>5, <3>2 DEF Stored, Rows, config, Parts
      <3> QED BY <3>1, <3>2
    <2>2. KeyRows'
      <3> SUFFICES ASSUME NEW r \in Resources, r \notin failed', Yaml[r] = None
                   PROVE  upstreamKeys[r] = PoolOf(db[r])
        BY <1>1 DEF KeyRows
      <3>1. CASE op.id # r \/ Untouched
        BY <3>1 DEF Stored, KeyRows, Untouched
      <3>2. CASE op.id = r /\ op.step = "insertKeys" /\ op.new[r].kept \subseteq upstreamKeys[r]
        <4>1. r \in Ids /\ db[r] = op.new[r]
          BY <3>2 DEF Stored, Rows, Ids
        <4>2. op.new[r] # None
          BY <3>2 DEF Swap, DraftFits
        <4> QED BY <3>2, <4>1, <4>2 DEF Stored, KeyRows, PoolOf
      <3> QED BY <3>1, <3>2
    <2> QED BY <2>1, <2>2 DEF Stored
  <1>8. Overlays'
    BY <1>1, <1>2 DEF Overlays
  <1>9. TokensSettled'
    BY <1>1, <1>4 DEF TokensSettled, Owned, Clean
  <1> QED BY <1>3, <1>4, <1>6, <1>7, <1>8, <1>9

\* Steps that leave handler, parts and tables alone; a description may be marked.
LEMMA AsideKeeps ==
    ASSUME AInv, UNCHANGED <<mem, db, upstreamKeys, op, owner, dead>>,
           failed \subseteq failed', failed' \subseteq failed \cup {Tool}
    PROVE  Configs' /\ Swap' /\ Stored' /\ TokensSettled'
  <1> USE DEF AInv
  <1>1. Configs' /\ config' = config /\ (Idle' <=> Idle) /\ (Untouched' <=> Untouched)
    BY DEF Configs, config, Idle, Untouched
  <1>2. Swap'
    BY <1>1 DEF Swap, DraftFits, Progress, Confined
  <1>3. Stored'
    BY <1>1 DEF Stored, Rows, KeyRows
  <1>4. TokensSettled'
    BY <1>1 DEF TokensSettled, Owned, Clean
  <1> QED BY <1>1, <1>2, <1>3, <1>4

----------------------------------------------------------------------------
(* The steps of a handler.                                                    *)

LEMMA RemoveRowKeeps == ASSUME AInv, RemoveRow PROVE AInv'
  <1> USE DEF AInv
  <1>1. /\ op' \in Handler /\ op'.step = "validate" /\ op'.id = op.id /\ op'.name = op.name
        /\ op'.new = op.new /\ op'.overlay = op.overlay
    <2>1. op' = [op EXCEPT !.step = "validate"] /\ op \in Handler /\ "validate" \in Steps
      BY AfterSteps DEF RemoveRow, ATyped, Steps
    <2> QED BY <2>1, StepUpdate
  <1>2. /\ ~Idle /\ ~Idle' /\ op.step = "remove" /\ op.id \in Ids
        /\ op.name = "delete" /\ op.id \notin Servers /\ ~Untouched'
    BY <1>1 DEF RemoveRow, Idle, Swap, DraftFits, Untouched
  <1>3. UNCHANGED <<mem, overlay, dbOverlay, meta, now, boots, owner, dead>>
    BY DEF RemoveRow
  <1>4. \/ /\ db' = [db EXCEPT ![op.id] = None] /\ UNCHANGED failed
           /\ upstreamKeys' = [r \in Resources |-> IF r = op.id THEN {} ELSE upstreamKeys[r]]
        \/ failed' = failed \cup {op.id} /\ UNCHANGED <<db, upstreamKeys>>
    BY DEF RemoveRow, MarkFailed
  <1>5. ATyped'
    BY <1>1, <1>2, <1>3, <1>4, EntryTypes DEF ATyped, Table
  <1>6. Configs' /\ config' = config
    BY <1>2, <1>3, <1>4 DEF Configs, config, IsConfig
  <1>7. Swap'
    <2>1. DraftFits'
      BY <1>1, <1>2, <1>6 DEF Swap, DraftFits, Before
    <2>2. Progress'
      BY <1>1, AfterSteps DEF Progress
    <2>3. Confined'
      BY <1>1, <1>2, <1>3, <1>4, <1>6 DEF Swap, Confined, Before
    <2> QED BY <2>1, <2>2, <2>3 DEF Swap
  <1>8. Stored'
    <2>0. ASSUME NEW j \in Ids, j \notin failed'
          PROVE  /\ j \notin failed /\ (j = op.id => db'[j] = None)
                 /\ (j # op.id => db'[j] = db[j])
      BY <1>2, <1>4, <2>0 DEF ATyped, Table
    <2>1. Rows'
      BY <1>1, <1>2, <1>6, <2>0 DEF Stored, Rows
    <2>2. KeyRows'
      <3> SUFFICES ASSUME NEW r \in Resources, r \notin failed', Yaml[r] = None
                   PROVE  upstreamKeys'[r] = PoolOf(db'[r])
        BY DEF KeyRows
      <3>1. r \in Ids
        BY DEF Ids
      <3>2. CASE r = op.id
        BY <1>4, <2>0, <3>1, <3>2 DEF PoolOf
      <3>3. CASE r # op.id
        <4>1. upstreamKeys'[r] = upstreamKeys[r]
          BY <1>4, <3>3
        <4> QED BY <2>0, <3>1, <3>3, <4>1 DEF Stored, KeyRows, PoolOf
      <3> QED BY <3>2, <3>3
    <2> QED BY <2>1, <2>2 DEF Stored
  <1>9. Overlays'
    BY <1>1, <1>2, <1>3, <1>4, AdminStoreAssumption DEF Overlays
  <1>10. TokensSettled'
    <2>1. Owned(db)'
      BY <1>2, <1>3, <1>4 DEF TokensSettled, Owned, ATyped, Table, Ids
    <2>2. \A k \in Keys : k \notin failed' /\ Yaml[k] = None /\ db'[k] # None
                           => db'[k].kept.tok \notin dead
      BY <1>2, <1>3, <1>4 DEF TokensSettled, ATyped, Table, Ids
    <2>3. /\ Owned(config)' /\ Owned(mem["auth"])' /\ Owned(op.new)' /\ Owned(Yaml)'
          /\ Clean(config)' /\ Clean(mem["auth"])' /\ Clean(op.new)'
      BY <1>1, <1>2, <1>3, <1>6 DEF TokensSettled, Owned, Clean
    <2> QED BY <1>3, <2>1, <2>2, <2>3 DEF TokensSettled
  <1> QED BY <1>5, <1>6, <1>7, <1>8, <1>9, <1>10

LEMMA ValidateSwapKeeps == ASSUME AInv, ValidateSwap PROVE AInv'
  <1> USE DEF AInv
  <1>1. /\ op' \in Handler /\ op'.step = "config" /\ op'.id = op.id /\ op'.name = op.name
        /\ op'.new = op.new /\ op'.overlay = overlay
    <2> DEFINE c == "config"
               q == [op EXCEPT !.step = c, !.overlay = overlay]
    <2>1. op' = q /\ op \in Handler /\ c \in Steps /\ overlay \in Shown
      BY AfterSteps DEF ValidateSwap, ATyped, Steps, Parts
    <2> HIDE DEF c
    <2>2. /\ q \in Handler /\ q.step = c /\ q.id = op.id /\ q.name = op.name
          /\ q.new = op.new /\ q.overlay = overlay
      BY <2>1 DEF Handler
    <2> HIDE DEF q
    <2> QED BY <2>1, <2>2 DEF c
  <1>2. /\ ~Idle /\ ~Idle' /\ op.step = "validate" /\ op.id \in Ids
        /\ op.new[op.id] # None => op.new[op.id].rev # Bad
    BY <1>1 DEF ValidateSwap, Idle, Swap, DraftFits, InvalidInput
  <1>3. UNCHANGED <<mem, db, upstreamKeys, overlay, dbOverlay, meta, now, boots, owner,
                    dead, failed>>
    BY DEF ValidateSwap
  <1>4. ATyped'
    BY <1>1, <1>3 DEF ATyped
  <1>5. Configs' /\ config' = config
    BY <1>3 DEF Configs, config
  <1>6. Swap'
    <2>1. DraftFits'
      BY <1>1, <1>2, <1>5 DEF Swap, DraftFits
    <2>2. Progress'
      BY <1>1, AfterSteps DEF Progress
    <2>3. Confined'
      BY <1>1, <1>2, <1>3, <1>5 DEF Swap, Confined, Before
    <2> QED BY <2>1, <2>2, <2>3 DEF Swap
  <1>7. Stored'
    <2>1. Rows'
      BY <1>1, <1>2, <1>3, <1>5 DEF Stored, Rows, Untouched
    <2>2. KeyRows'
      BY <1>1, <1>2, <1>3 DEF Stored, KeyRows
    <2> QED BY <2>1, <2>2 DEF Stored
  <1>8. Overlays'
    BY <1>1, <1>3 DEF Overlays
  <1>9. TokensSettled'
    BY <1>1, <1>2, <1>3, <1>5 DEF TokensSettled, Owned, Clean
  <1> QED BY <1>4, <1>5, <1>6, <1>7, <1>8, <1>9

\* The new configuration is valid once it was built.
LEMMA DraftIsConfig ==
    ASSUME AInv, op.step \notin Before
    PROVE  IsConfig(op.new) /\ op.id \in Ids /\ ~Idle
  <1> USE DEF AInv
  <1>1. ~Idle
    BY DEF Idle, Before
  <1>2. op.new \in Table /\ op.id \in Ids
    BY <1>1 DEF ATyped, Handler, Swap, DraftFits
  <1>3. \A j \in Ids \ {op.id} : op.new[j] = None \/ op.new[j] \in EntryOf(j)
    BY <1>1, RunningConfig DEF Swap, DraftFits, IsConfig
  <1>4. ASSUME op.new[op.id] # None PROVE op.new[op.id] \in EntryOf(op.id)
    <2> DEFINE e == op.new[op.id]
    <2>1. e \in [rev : Bad..MaxRev, kept : Credential \cup SUBSET Refs]
      BY <1>2, <1>4 DEF Table, AnyEntry
    <2>2. e.kept \in Kept(op.id) /\ e.rev # Bad
      BY <1>1, <1>4 DEF Swap, DraftFits
    <2> HIDE DEF e
    <2>3. e \in [rev : 1..MaxRev, kept : Kept(op.id)]
      BY <2>1, <2>2, AdminStoreAssumption DEF Bad
    <2> QED BY <2>3 DEF e, EntryOf
  <1>5. op.new = [j \in Ids |-> op.new[j]]
    BY <1>2 DEF Table
  <1> QED BY <1>1, <1>2, <1>3, <1>4, <1>5 DEF IsConfig

LEMMA WritePartKeeps == ASSUME AInv, NEW p \in Parts, WritePart(p) PROVE AInv'
  <1> USE DEF AInv
  <1>0. op.step = p /\ op.step \notin Before
    BY DEF WritePart, Parts, Before
  <1>1. /\ op' \in Handler /\ op'.step = After[p] /\ op'.id = op.id /\ op'.name = op.name
        /\ op'.new = op.new /\ op'.overlay = op.overlay
    <2>1. op' = [op EXCEPT !.step = After[p]] /\ op \in Handler /\ After[p] \in Steps
      BY AfterSteps DEF WritePart, ATyped, Steps, Parts
    <2> QED BY <2>1, StepUpdate
  <1>2. IsConfig(op.new) /\ op.id \in Ids /\ ~Idle /\ op.new \in Table
    BY <1>0, DraftIsConfig, ConfigIsTable
  <1>3. /\ After[p] \in {"catalog", "limits", "auth", "pools", "persist"} /\ ~Idle'
        /\ ~Untouched /\ ~Untouched'
    BY <1>0, <1>1, AfterSteps DEF Idle, Untouched, Before
  <1>4. UNCHANGED <<db, upstreamKeys, dbOverlay, meta, now, boots, owner, dead, failed>>
    BY DEF WritePart
  <1>5. /\ mem' \in [Parts -> Table] /\ mem'[p] = op.new
        /\ \A q \in Parts \ {p} : mem'[q] = mem[q]
    BY <1>2 DEF WritePart, ATyped
  <1>6. overlay' = overlay
    BY <1>0 DEF WritePart, Overlays
  <1>7. ATyped'
    BY <1>1, <1>4, <1>5, <1>6 DEF ATyped
  <1>8. Configs'
    BY <1>2, <1>4, <1>5 DEF Configs
  <1>9. \A j \in Ids \ {op.id} : config'[j] = config[j] /\ op.new[j] = config[j]
    <2>1. \A j \in Ids \ {op.id} : op.new[j] = config[j]
      BY <1>2 DEF Swap, DraftFits
    <2> QED BY <1>5, <2>1 DEF config, Parts
  <1>10. Swap'
    <2>1. DraftFits'
      <3> SUFFICES /\ op'.id \in Ids /\ op'.name # "none"
                   /\ (op'.name = "delete" <=> op'.new[op'.id] = None)
                   /\ op'.new[op'.id] # None => /\ op'.new[op'.id].kept \in Kept(op'.id)
                                               /\ op'.new[op'.id].rev # Bad
                   /\ op'.name = "token" => op'.id \in Keys
                   /\ \A j \in Ids \ {op'.id} : op'.new[j] = config'[j]
        BY <1>1, <1>3 DEF DraftFits, Before
      <3> QED BY <1>0, <1>1, <1>2, <1>9 DEF Swap, DraftFits
    <2>2. Progress'
      <3>1. Reached(op'.step) = Reached(p) \cup {p}
        BY <1>1, AfterSteps
      <3>2. \A q \in Reached(p) : mem[q] = op.new
        BY <1>0 DEF Swap, Progress
      <3>3. \A q \in Reached(p) : q \in Parts \ {p}
        BY AfterSteps DEF Reached
      <3> QED BY <1>1, <1>5, <3>1, <3>2, <3>3 DEF Progress
    <2>3. Confined'
      <3> SUFFICES ASSUME NEW q \in Parts, NEW i \in Ids, mem'[q][i] # config'[i],
                          i \notin failed
                   PROVE  op.id = i
        BY <1>1, <1>3, <1>4 DEF Confined, Before
      <3>1. mem[q][i] = config[i] \/ op.id = i
        BY DEF Swap, Confined
      <3> QED BY <1>5, <1>9, <3>1
    <2> QED BY <2>1, <2>2, <2>3 DEF Swap
  <1>11. Stored'
    <2>1. Rows'
      <3> SUFFICES ASSUME NEW i \in Ids, i \notin failed, Yaml[i] = None
                   PROVE  /\ op.id # i => db[i] = config'[i]
                          /\ op.id = i =>
                               /\ op.name = "create" => db[i] = None
                               /\ op.name = "update" => db[i] # None
                               /\ op.name = "delete" /\ i \notin Servers => db[i] = None
        BY <1>1, <1>3, <1>4 DEF Rows
      <3> QED BY <1>0, <1>2, <1>9 DEF Stored, Rows, Parts
    <2>2. KeyRows'
      BY <1>0, <1>1, <1>3, <1>4 DEF Stored, KeyRows, Parts
    <2> QED BY <2>1, <2>2 DEF Stored
  <1>12. Overlays'
    <2>1. op'.step \in {"config", "catalog"} => op'.overlay = overlay
      <3>1. op'.step = "catalog" => p = "config"
        BY <1>1 DEF After, Parts
      <3> QED BY <1>0, <1>1, <1>3, <3>1 DEF Overlays
    <2> QED BY <1>4, <1>6, <2>1 DEF Overlays
  <1>13. TokensSettled'
    <2>1. config' \in {config, op.new} /\ mem'["auth"] \in {mem["auth"], op.new}
      BY <1>5 DEF config, Parts
    <2> QED BY <1>1, <1>2, <1>3, <1>4, <2>1 DEF TokensSettled, Owned, Clean
  <1> QED BY <1>7, <1>8, <1>10, <1>11, <1>12, <1>13

\* What the handler's statement leaves in its row.
LEMMA PersistRow ==
    ASSUME AInv, op.step = "persist",
           \/ db' = [db EXCEPT ![op.id] = StoredRow(db[op.id], op.new[op.id])]
              /\ UNCHANGED failed
           \/ failed' = failed \cup {op.id} /\ UNCHANGED db
    PROVE  /\ db' \in Table /\ IsConfig(db')
           /\ \A j \in Ids \ {op.id} : db'[j] = db[j]
           /\ db'[op.id] \in {None, db[op.id], op.new[op.id]}
           /\ (op.id \notin failed' /\ Yaml[op.id] = None) => db'[op.id] = op.new[op.id]
  <1> USE DEF AInv
  <1>1. IsConfig(op.new) /\ op.id \in Ids /\ ~Idle
    BY DraftIsConfig DEF Before
  <1>2. IsConfig(db) /\ db \in Table
    BY DEF Configs, ATyped
  <1> DEFINE row == StoredRow(db[op.id], op.new[op.id])
  <1>3. op.name \in {"create", "update", "delete", "token"}
    BY <1>1 DEF ATyped, Handler, Names, Swap, DraftFits
  <1>4. row \in {None, db[op.id], op.new[op.id]}
    BY <1>3 DEF StoredRow, insert_row, update_row
  <1>5. ASSUME op.id \notin failed, Yaml[op.id] = None PROVE row = op.new[op.id]
    <2>1. /\ op.name = "create" => db[op.id] = None
          /\ op.name = "update" => db[op.id] # None
          /\ op.name = "delete" /\ op.id \notin Servers => db[op.id] = None
      BY <1>1, <1>5 DEF Stored, Rows
    <2>2. op.name = "delete" => op.new[op.id] = None
      BY <1>1 DEF Swap, DraftFits
    <2> QED BY <1>3, <2>1, <2>2 DEF StoredRow, insert_row, update_row
  <1> HIDE DEF row
  <1>6. CASE db' = [db EXCEPT ![op.id] = row] /\ UNCHANGED failed
    <2>1. /\ DOMAIN db = Ids /\ \A j \in Ids \ {op.id} : db'[j] = db[j]
          /\ db'[op.id] = row /\ db' = [j \in Ids |-> db'[j]]
      BY <1>1, <1>2, <1>6 DEF Table
    <2>2. IsConfig(db')
      BY <1>1, <1>2, <1>4, <2>1 DEF IsConfig
    <2> QED BY <1>4, <1>5, <1>6, <2>1, <2>2, ConfigIsTable
  <1>7. CASE failed' = failed \cup {op.id} /\ UNCHANGED db
    BY <1>2, <1>7
  <1> QED BY <1>6, <1>7 DEF row

LEMMA PersistKeeps == ASSUME AInv, Persist PROVE AInv'
  <1> USE DEF AInv
  <1> DEFINE i == op.id
  <1>0. op.step = "persist" /\ IsConfig(op.new) /\ i \in Ids /\ ~Idle /\ Tool # i
    BY DraftIsConfig, AdminStoreAssumption DEF Persist, Before
  <1>1. /\ failed \subseteq failed' /\ failed' \subseteq failed \cup {i}
        /\ UNCHANGED <<mem, upstreamKeys, overlay, dbOverlay, meta, now, boots, owner>>
    BY DEF Persist, MarkFailed
  <1>2. /\ db' \in Table /\ IsConfig(db')
        /\ \A j \in Ids \ {i} : db'[j] = db[j]
        /\ db'[i] \in {None, db[i], op.new[i]}
        /\ (i \notin failed' /\ Yaml[i] = None) => db'[i] = op.new[i]
    <2>1. \/ /\ db' = [db EXCEPT ![i] = StoredRow(db[i], op.new[i])]
             /\ UNCHANGED failed
          \/ failed' = failed \cup {i} /\ UNCHANGED db
      BY DEF Persist, MarkFailed
    <2> QED BY <1>0, <2>1, PersistRow
  <1>3. (\A p \in Parts : mem[p] = op.new) /\ config = op.new
    BY <1>0, AfterSteps DEF Swap, Progress, config, Parts
  <1>4. Configs' /\ config' = config
    BY <1>1, <1>2 DEF Configs, config
  <1>5. \A k \in Keys : k \in Ids /\ k # None
    BY AdminStoreAssumption DEF Ids
  <1>6. CASE i \in Resources /\ op.name # "delete"
    <2>1. /\ op' \in Handler /\ op'.step = "dropKeys" /\ op'.id = i /\ op'.name = op.name
          /\ op'.new = op.new /\ op'.overlay = op.overlay /\ ~Idle' /\ UNCHANGED dead
      <3>1. /\ op' = [op EXCEPT !.step = "dropKeys"] /\ op \in Handler
            /\ "dropKeys" \in Steps /\ UNCHANGED dead
        BY <1>6 DEF Persist, ATyped, Steps
      <3> QED BY <3>1, StepUpdate DEF Idle
    <2>2. ATyped'
      BY <1>0, <1>1, <1>2, <2>1 DEF ATyped
    <2>3. Swap'
      <3>1. DraftFits'
        BY <1>0, <1>4, <1>6, <2>1 DEF Swap, DraftFits, Before
      <3>2. Progress' /\ Confined'
        BY <1>1, <1>3, <1>4, <2>1 DEF Progress, Confined, Reached, Parts
      <3> QED BY <3>1, <3>2 DEF Swap
    <2>4. Rows'
      BY <1>0, <1>1, <1>2, <1>4, <2>1 DEF Stored, Rows, Untouched
    <2>5. KeyRows'
      <3> SUFFICES ASSUME NEW r \in Resources, r \notin failed', Yaml[r] = None, r # i
                   PROVE  upstreamKeys[r] = PoolOf(db'[r])
        BY <1>1, <2>1 DEF KeyRows
      <3> QED BY <1>1, <1>2 DEF Stored, KeyRows, Ids
    <2>6. Overlays'
      BY <1>0, <1>1, <2>1 DEF Overlays
    <2>7. TokensSettled'
      <3>1. i \notin Keys
        BY <1>6, AdminStoreAssumption
      <3>2. Owned(db)'
        BY <1>1, <1>2, <1>5, <3>1 DEF TokensSettled, Owned
      <3>3. \A k \in Keys : k \notin failed' /\ Yaml[k] = None /\ db'[k] # None
                             => db'[k].kept.tok \notin dead
        BY <1>1, <1>2, <1>5, <3>1 DEF TokensSettled
      <3>4. /\ Owned(config)' /\ Owned(mem["auth"])' /\ Owned(op.new)' /\ Owned(Yaml)'
            /\ Clean(config)' /\ Clean(mem["auth"])' /\ Clean(op.new)'
        BY <1>0, <1>1, <1>4, <2>1 DEF TokensSettled, Owned, Clean
      <3> QED BY <1>1, <2>1, <3>2, <3>3, <3>4 DEF TokensSettled
    <2> QED BY <1>4, <2>2, <2>3, <2>4, <2>5, <2>6, <2>7 DEF Stored
  <1>7. CASE ~(i \in Resources /\ op.name # "delete")
    <2>1. /\ op' \in Handler /\ op'.step = "idle" /\ op'.new = Yaml /\ op'.id = None
          /\ Idle' /\ Answered
      BY <1>7, NoHandlerFields DEF Persist, EndHandler, Idle
    <2>2. dead' \subseteq AllTokens
      BY <2>1 DEF Answered, Retired, ATyped
    <2>3. ATyped'
      BY <1>0, <1>1, <1>2, <2>1, <2>2 DEF ATyped
    <2>4. Swap'
      BY <1>1, <1>3, <1>4, <2>1, AfterSteps DEF Swap, DraftFits, Progress, Confined
    <2>5. Rows'
      BY <1>0, <1>1, <1>2, <1>3, <1>4, <2>1 DEF Stored, Rows, Idle
    <2>6. KeyRows'
      <3> SUFFICES ASSUME NEW r \in Resources, r \notin failed', Yaml[r] = None
                   PROVE  upstreamKeys[r] = PoolOf(db'[r])
        BY <1>1, <2>1 DEF KeyRows
      <3>1. r \in Ids /\ upstreamKeys[r] = PoolOf(db[r])
        BY <1>0, <1>1 DEF Stored, KeyRows, Ids
      <3>2. CASE r = i
        <4>1. op.name = "delete" /\ r \notin Servers
          BY <1>7, <3>2, AdminStoreAssumption
        <4>2. db[r] = None /\ op.new[r] = None
          BY <1>0, <1>1, <3>1, <3>2, <4>1 DEF Stored, Rows, Swap, DraftFits
        <4> QED BY <1>2, <3>1, <3>2, <4>2
      <3> QED BY <1>2, <3>1, <3>2
    <2>7. Overlays'
      BY <1>0, <1>1, <2>1 DEF Overlays
    <2>8. TokensSettled'
      <3>1. ASSUME NEW t \in dead', t \notin dead
            PROVE  /\ i \in Keys /\ owner[t] = i /\ t # None
                   /\ op.new[i] # None => op.new[i].kept.tok # t
        BY <2>1, <2>2, <3>1, AdminStoreAssumption DEF Answered, Retired, AllTokens
      <3>2. Owned(db)'
        BY <1>1, <1>2, <1>5 DEF TokensSettled, Owned
      <3>3. /\ Owned(config)' /\ Owned(mem["auth"])' /\ Owned(op.new)' /\ Owned(Yaml)'
        BY <1>1, <1>4, <2>1 DEF TokensSettled, Owned
      <3>4. \A k \in Keys : op.new[k] # None => op.new[k].kept.tok \notin dead'
        <4> SUFFICES ASSUME NEW k \in Keys, op.new[k] # None, op.new[k].kept.tok \in dead'
                     PROVE  FALSE
          OBVIOUS
        <4>1. op.new[k].kept.tok \notin dead
          BY <1>0 DEF TokensSettled, Clean
        <4>2. owner[op.new[k].kept.tok] = i /\ op.new[k].kept.tok # None
          BY <3>1, <4>1
        <4>3. k = i
          BY <4>2 DEF TokensSettled, Owned
        <4> QED BY <3>1, <4>1, <4>3
      <3>5. Clean(config)' /\ Clean(mem["auth"])'
        BY <1>1, <1>3, <1>4, <3>4 DEF Clean, Parts
      <3>6. \A t \in dead' : owner'[t] # None
        BY <1>1, <1>5, <3>1 DEF TokensSettled
      <3>7. ASSUME NEW k \in Keys, k \notin failed', Yaml[k] = None, db'[k] # None
            PROVE  db'[k].kept.tok \notin dead'
        <4>1. CASE k = i
          BY <1>2, <3>4, <3>7, <4>1
        <4>2. CASE k # i
          <5>1. db[k] # None /\ db'[k] = db[k] /\ db[k].kept.tok \notin dead
            BY <1>1, <1>2, <1>5, <3>7, <4>2 DEF TokensSettled
          <5>2. db[k].kept.tok # None => owner[db[k].kept.tok] = k
            BY <5>1 DEF TokensSettled, Owned
          <5> QED BY <3>1, <4>2, <5>1, <5>2
        <4> QED BY <4>1, <4>2
      <3> QED BY <2>1, <3>2, <3>3, <3>5, <3>6, <3>7 DEF TokensSettled
    <2> QED BY <1>4, <2>3, <2>4, <2>5, <2>6, <2>7, <2>8 DEF Stored
  <1> QED BY <1>6, <1>7

\* The upstream_keys rows of the handler's resource change; nothing else does.
LEMMA KeyRowsStep ==
    ASSUME AInv, op.step \in {"dropKeys", "insertKeys"},
           op' \in Handler, op'.step = "insertKeys", op'.id = op.id, op'.name = op.name,
           op'.new = op.new, op'.overlay = op.overlay,
           upstreamKeys' \in [Resources -> SUBSET Refs],
           \A r \in Resources \ {op.id} : upstreamKeys'[r] = upstreamKeys[r],
           upstreamKeys'[op.id] \subseteq op.new[op.id].kept,
           UNCHANGED <<mem, db, overlay, dbOverlay, meta, now, boots, owner, dead, failed>>
    PROVE  AInv'
  <1> USE DEF AInv
  <1>1. ~Idle /\ ~Idle' /\ ~Untouched /\ ~Untouched'
    BY DEF Idle, Untouched
  <1>2. op.id \in Resources /\ op.id \in Ids /\ op.new[op.id] # None
    BY <1>1 DEF Swap, DraftFits
  <1>3. ATyped'
    BY DEF ATyped
  <1>4. Configs' /\ config' = config
    BY DEF Configs, config
  <1>5. Swap'
    <2>1. DraftFits'
      BY <1>1, <1>4 DEF Swap, DraftFits, Before
    <2>2. Progress' /\ Confined'
      BY <1>4, AfterSteps DEF Swap, Progress, Confined, Before
    <2> QED BY <2>1, <2>2 DEF Swap
  <1>6. Rows'
    BY <1>1, <1>4 DEF Stored, Rows
  <1>7. KeyRows'
    <2> SUFFICES ASSUME NEW r \in Resources, r \notin failed, Yaml[r] = None
                 PROVE  \/ upstreamKeys'[r] = PoolOf(db[r])
                        \/ r = op.id /\ upstreamKeys'[r] \subseteq PoolOf(db[r])
      BY <1>1 DEF KeyRows
    <2>1. CASE r = op.id
      <3>1. db[r] = op.new[r]
        BY <1>1, <1>2, <2>1 DEF Stored, Rows
      <3> QED BY <1>2, <2>1, <3>1 DEF PoolOf
    <2>2. CASE r # op.id
      BY <2>2 DEF Stored, KeyRows
    <2> QED BY <2>1, <2>2
  <1>8. Overlays'
    BY DEF Overlays
  <1>9. TokensSettled'
    BY <1>1, <1>4 DEF TokensSettled, Owned, Clean
  <1> QED BY <1>3, <1>4, <1>5, <1>6, <1>7, <1>8, <1>9 DEF Stored

LEMMA DropUpstreamKeysKeeps == ASSUME AInv, DropUpstreamKeys PROVE AInv'
  <1> USE DEF AInv
  <1>0. op.step = "dropKeys" /\ ~Idle /\ op.id \in Resources
    BY DEF DropUpstreamKeys, Idle, Swap, DraftFits
  <1>1. CASE /\ upstreamKeys' = [upstreamKeys EXCEPT ![op.id] = {}]
             /\ op' = [op EXCEPT !.step = "insertKeys"] /\ UNCHANGED failed
    <2>1. /\ op' \in Handler /\ op'.step = "insertKeys" /\ op'.id = op.id
          /\ op'.name = op.name /\ op'.new = op.new /\ op'.overlay = op.overlay
      <3>1. op \in Handler /\ "insertKeys" \in Steps
        BY DEF ATyped, Steps
      <3> QED BY <1>1, <3>1, StepUpdate
    <2>2. /\ upstreamKeys' \in [Resources -> SUBSET Refs] /\ upstreamKeys'[op.id] = {}
          /\ \A r \in Resources \ {op.id} : upstreamKeys'[r] = upstreamKeys[r]
      BY <1>0, <1>1 DEF ATyped
    <2>3. UNCHANGED <<mem, db, overlay, dbOverlay, meta, now, boots, owner, dead, failed>>
      BY <1>1 DEF DropUpstreamKeys
    <2> QED BY <1>0, <2>1, <2>2, <2>3, KeyRowsStep
  <1>2. CASE EndHandler /\ MarkFailed({op.id}) /\ UNCHANGED upstreamKeys
    BY <1>0, <1>2, EndKeeps DEF DropUpstreamKeys, MarkFailed
  <1> QED BY <1>1, <1>2 DEF DropUpstreamKeys

LEMMA InsertUpstreamKeyKeeps == ASSUME AInv, InsertUpstreamKey PROVE AInv'
  <1> USE DEF AInv
  <1>0. op.step = "insertKeys" /\ ~Idle /\ op.id \in Resources
    BY DEF InsertUpstreamKey, Idle, Swap, DraftFits
  <1> DEFINE missing == op.new[op.id].kept \ upstreamKeys[op.id]
  <1>1. CASE missing = {} /\ EndHandler /\ UNCHANGED <<upstreamKeys, failed>>
    <2>1. op.new[op.id].kept \subseteq upstreamKeys[op.id]
      BY <1>1
    <2> QED BY <1>0, <1>1, <2>1, EndKeeps DEF InsertUpstreamKey
  <1>2. CASE EndHandler /\ MarkFailed({op.id}) /\ UNCHANGED upstreamKeys
    BY <1>0, <1>2, EndKeeps DEF InsertUpstreamKey, MarkFailed
  <1>3. ASSUME NEW ref \in missing, UNCHANGED <<op, failed>>,
               upstreamKeys' = [upstreamKeys EXCEPT ![op.id] = @ \cup {ref}]
        PROVE  AInv'
    <2>1. op.id \in Ids /\ op.new[op.id] # None /\ op.new[op.id].kept \in SUBSET Refs
      BY <1>0, AdminStoreAssumption DEF Swap, DraftFits, Kept
    <2>2. /\ upstreamKeys' \in [Resources -> SUBSET Refs]
          /\ upstreamKeys'[op.id] = upstreamKeys[op.id] \cup {ref}
          /\ \A r \in Resources \ {op.id} : upstreamKeys'[r] = upstreamKeys[r]
      BY <1>0, <1>3, <2>1 DEF ATyped
    <2>3. UNCHANGED <<mem, db, overlay, dbOverlay, meta, now, boots, owner, dead>>
      BY DEF InsertUpstreamKey
    <2>4. CASE op.id \in failed \/ Yaml[op.id] # None
      <3>1. ATyped'
        BY <1>3, <2>2, <2>3 DEF ATyped
      <3>2. Configs' /\ config' = config /\ (Idle' <=> Idle) /\ (Untouched' <=> Untouched)
        BY <1>3, <2>3 DEF Configs, config, Idle, Untouched
      <3>3. Swap' /\ Overlays' /\ Rows' /\ TokensSettled'
        BY <1>3, <2>3, <3>2
        DEF Swap, DraftFits, Progress, Confined, Overlays, Stored, Rows, TokensSettled,
            Owned, Clean
      <3>4. KeyRows'
        BY <1>3, <2>2, <2>3, <2>4, <3>2 DEF Stored, KeyRows
      <3> QED BY <3>1, <3>2, <3>3, <3>4 DEF Stored
    <2>5. CASE op.id \notin failed /\ Yaml[op.id] = None
      <3>1. db[op.id] = op.new[op.id]
        BY <1>0, <2>1, <2>5 DEF Stored, Rows
      <3>2. upstreamKeys[op.id] \subseteq op.new[op.id].kept
        BY <1>0, <2>1, <2>5, <3>1 DEF Stored, KeyRows, PoolOf
      <3>3. upstreamKeys'[op.id] \subseteq op.new[op.id].kept
        BY <2>2, <3>2
      <3>4. op' \in Handler
        BY <1>3 DEF ATyped
      <3> QED BY <1>0, <1>3, <2>2, <2>3, <3>3, <3>4, KeyRowsStep
    <2> QED BY <2>4, <2>5
  <1> QED BY <1>1, <1>2, <1>3 DEF InsertUpstreamKey

----------------------------------------------------------------------------
(* Descriptions and restarts.                                                 *)

LEMMA PutMetadataKeeps ==
    ASSUME AInv, NEW w \in Writers, NEW d \in Shown, put_metadata(w, d) PROVE AInv'
  <1> USE DEF AInv
  <1>1. /\ UNCHANGED <<mem, db, upstreamKeys, op, overlay, now, boots, owner, dead>>
        /\ dbOverlay' = d /\ failed \subseteq failed' /\ failed' \subseteq failed \cup {Tool}
        /\ Tool \notin failed' => \A v \in Writers : meta[v].step # "apply"
    BY DEF put_metadata, MarkFailed
  <1>2. /\ meta' \in [Writers -> [step : {"idle", "apply"}, val : Shown]]
        /\ meta'[w].step = "apply" /\ meta'[w].val = d
        /\ \A v \in Writers \ {w} : meta'[v] = meta[v]
    <2> DEFINE m == [step |-> "apply", val |-> d]
    <2>1. /\ m \in [step : {"idle", "apply"}, val : Shown] /\ m.step = "apply" /\ m.val = d
          /\ meta' = [meta EXCEPT ![w] = m]
      BY DEF put_metadata
    <2> HIDE DEF m
    <2> QED BY <2>1 DEF ATyped
  <1>3. ATyped'
    BY <1>1, <1>2 DEF ATyped
  <1>4. Overlays'
    BY <1>1, <1>2 DEF Overlays
  <1> QED BY <1>1, <1>3, <1>4, AsideKeeps

\* The change of a writer is over.
LEMMA WriterEnds ==
    ASSUME AInv, NEW w \in Writers,
           meta' = [meta EXCEPT ![w] = [step |-> "idle", val |-> None]]
    PROVE  /\ meta' \in [Writers -> [step : {"idle", "apply"}, val : Shown]]
           /\ meta'[w].step = "idle" /\ \A v \in Writers \ {w} : meta'[v] = meta[v]
  <1> DEFINE m == [step |-> "idle", val |-> None]
  <1>1. m \in [step : {"idle", "apply"}, val : Shown] /\ m.step = "idle"
    BY DEF Shown
  <1> HIDE DEF m
  <1> QED BY <1>1 DEF AInv, ATyped, m

LEMMA ApplyMetadataKeeps ==
    ASSUME AInv, NEW w \in Writers, ApplyMetadata(w) PROVE AInv'
  <1> USE DEF AInv
  <1>1. /\ UNCHANGED <<mem, db, upstreamKeys, op, dbOverlay, now, boots, owner, dead, failed>>
        /\ meta[w].step = "apply" /\ overlay' = meta[w].val /\ op.step = "idle"
    BY DEF ApplyMetadata, CatalogWriteFree, Idle
  <1>2. /\ meta' \in [Writers -> [step : {"idle", "apply"}, val : Shown]]
        /\ meta'[w].step = "idle" /\ \A v \in Writers \ {w} : meta'[v] = meta[v]
    BY WriterEnds DEF ApplyMetadata
  <1>3. ATyped'
    BY <1>1, <1>2 DEF ATyped
  <1>4. Overlays'
    BY <1>1, <1>2 DEF Overlays
  <1> QED BY <1>1, <1>3, <1>4, AsideKeeps

LEMMA DropMetadataKeeps ==
    ASSUME AInv, NEW w \in Writers, DropMetadata(w) PROVE AInv'
  <1> USE DEF AInv
  <1>1. /\ UNCHANGED <<mem, db, upstreamKeys, op, overlay, dbOverlay, now, boots, owner, dead>>
        /\ failed' = failed \cup {Tool}
    BY DEF DropMetadata, MarkFailed
  <1>2. /\ meta' \in [Writers -> [step : {"idle", "apply"}, val : Shown]]
        /\ meta'[w].step = "idle" /\ \A v \in Writers \ {w} : meta'[v] = meta[v]
    BY WriterEnds DEF DropMetadata
  <1>3. ATyped'
    BY <1>1, <1>2 DEF ATyped
  <1>4. Overlays'
    BY <1>1 DEF Overlays
  <1> QED BY <1>1, <1>3, <1>4, AsideKeeps

LEMMA RestartKeeps == ASSUME AInv, Restart PROVE AInv'
  <1> USE DEF AInv
  <1> DEFINE c == merge_db_into_config(db)
  <1>1. /\ op' \in Handler /\ op'.step = "idle" /\ op'.new = Yaml /\ op'.id = None /\ Idle'
    BY NoHandlerFields DEF Restart, Idle
  <1>2. /\ IsConfig(c) /\ c \in Table
        /\ \A i \in Ids : c[i] = IF Yaml[i] # None THEN Yaml[i] ELSE db[i]
    <2>1. \A i \in Ids : c[i] = IF Yaml[i] # None THEN Yaml[i] ELSE db[i]
      BY DEF merge_db_into_config
    <2>2. c = [i \in Ids |-> c[i]]
      BY DEF merge_db_into_config
    <2>3. \A i \in Ids : c[i] = None \/ c[i] \in EntryOf(i)
      BY <2>1, YamlTyped DEF Configs, IsConfig
    <2> QED BY <2>1, <2>2, <2>3, ConfigIsTable DEF IsConfig
  <1> HIDE DEF c
  <1>3. /\ \A p \in Parts : mem'[p] = c
        /\ mem' \in [Parts -> Table] /\ config' = c
    BY <1>2 DEF Restart, c, config, Parts
  <1>4. /\ UNCHANGED <<db, upstreamKeys, dbOverlay, now, owner>> /\ overlay' = dbOverlay
        /\ boots' = boots + 1
        /\ dead' = {t \in dead : t # YamlToken /\ owner[t] \notin failed}
        /\ failed' = (failed \cup {op.id}) \cap Resources
    BY DEF Restart
  <1>5. /\ meta' \in [Writers -> [step : {"idle", "apply"}, val : Shown]]
        /\ \A w \in Writers : meta'[w].step = "idle"
    BY DEF Restart, Shown
  <1>6. ATyped'
    BY <1>1, <1>3, <1>4, <1>5 DEF ATyped, Ids
  <1>7. Configs'
    BY <1>2, <1>3, <1>4 DEF Configs
  <1>8. Swap'
    BY <1>1, <1>3, AfterSteps DEF Swap, DraftFits, Progress, Confined
  <1>9. Rows'
    BY <1>1, <1>2, <1>3, <1>4 DEF Rows
  <1>10. KeyRows'
    BY <1>1, <1>4 DEF Stored, KeyRows
  <1>11. Overlays'
    BY <1>1, <1>4, <1>5 DEF Overlays
  <1>12. TokensSettled'
    <2>1. \A k \in Keys : k \in Ids
      BY DEF Ids
    <2>2. Owned(config)' /\ Owned(mem["auth"])'
      BY <1>2, <1>3, <1>4, <2>1 DEF TokensSettled, Owned, Parts
    <2>3. Owned(db)' /\ Owned(op.new)' /\ Owned(Yaml)'
      BY <1>1, <1>4 DEF TokensSettled, Owned
    <2>4. \A t \in dead' : owner'[t] # None
      BY <1>4 DEF TokensSettled
    <2>5. \A k \in Keys : Yaml[k] = None /\ db[k] # None => db[k].kept.tok \notin dead'
      <3> SUFFICES ASSUME NEW k \in Keys, Yaml[k] = None, db[k] # None,
                          db[k].kept.tok \in dead'
                   PROVE  FALSE
        OBVIOUS
      <3>1. db[k].kept.tok \in dead /\ owner[db[k].kept.tok] \notin failed
        BY <1>4
      <3>2. owner[db[k].kept.tok] = k
        <4>1. db[k].kept.tok # None
          BY <3>1, AdminStoreAssumption DEF ATyped, AllTokens
        <4> QED BY <4>1 DEF TokensSettled, Owned
      <3> QED BY <3>1, <3>2 DEF TokensSettled
    <2>6. \A k \in Keys : Yaml[k] # None => Yaml[k].kept.tok \notin dead'
      BY <1>4, AdminStoreAssumption DEF ATyped, AllTokens
    <2>7. Clean(config)' /\ Clean(mem["auth"])'
      BY <1>2, <1>3, <2>1, <2>5, <2>6 DEF Clean, Parts
    <2> QED BY <1>1, <1>4, <2>2, <2>3, <2>4, <2>5, <2>7 DEF TokensSettled
  <1> QED BY <1>6, <1>7, <1>8, <1>9, <1>10, <1>11, <1>12 DEF Stored

----------------------------------------------------------------------------
(* The handlers.                                                              *)

\* A handler that leaves the credentials of keys alone.
LEMMA PlainBegin ==
    ASSUME AInv, NEW n \in {"create", "update", "delete"}, NEW i \in Ids, NEW e,
           NEW s \in {"remove", "validate"}, Begin(n, i, e, s), UNCHANGED owner,
           n = "delete" <=> e = None,
           e # None => e \in [rev : Bad..MaxRev, kept : Kept(i)],
           n = "create" => config[i] = None,
           n = "update" => config[i] # None,
           (n = "delete" /\ i \notin Servers) <=> s = "remove",
           (i \in Keys /\ e # None) =>
              e.kept = NoCredential \/ (n = "update" /\ e.kept = config[i].kept)
    PROVE  AInv'
  <1>1. n \in Names \ {"none"} /\ n # "token"
    BY DEF Names
  <1>2. owner' \in [AllTokens -> Keys \cup {None}]
    BY DEF AInv, ATyped
  <1>3. ASSUME i \in Keys, e # None
        PROVE  e.kept.tok \notin dead /\ (e.kept.tok # None => owner'[e.kept.tok] = i)
    <2>1. CASE e.kept = NoCredential
      BY <2>1, AdminStoreAssumption DEF NoCredential, AInv, ATyped, AllTokens
    <2>2. CASE n = "update" /\ e.kept = config[i].kept
      BY <1>3, <2>2 DEF AInv, TokensSettled, Owned, Clean
    <2> QED BY <1>3, <2>1, <2>2
  <1> QED BY <1>1, <1>2, <1>3, BeginKeeps

\* Entries as the handlers make them.
LEMMA NewEntry ==
    ASSUME NEW i \in Ids, NEW rev \in Bad..MaxRev, NEW kept \in Kept(i)
    PROVE  LET e == [rev |-> rev, kept |-> kept]
           IN  e \in [rev : Bad..MaxRev, kept : Kept(i)] /\ e # None /\ e.kept = kept
  BY EntryTypes
LEMMA UpdatedEntry ==
    ASSUME NEW i \in Ids, NEW c, IsConfig(c), c[i] # None,
           NEW rev \in Bad..MaxRev, NEW pool \in SUBSET Refs, i \notin Keys
    PROVE  LET e == apply_update(c[i], rev, pool)
           IN  e \in [rev : Bad..MaxRev, kept : Kept(i)] /\ e # None
  <1>1. c[i].kept \in Kept(i) /\ pool \in Kept(i)
    BY EntryFields DEF Kept
  <1> QED BY <1>1, NewEntry DEF apply_update
LEMMA RevisedEntry ==
    ASSUME NEW i \in Ids, NEW c, IsConfig(c), c[i] # None, NEW rev \in Bad..MaxRev
    PROVE  LET e == [c[i] EXCEPT !.rev = rev]
           IN  e \in [rev : Bad..MaxRev, kept : Kept(i)] /\ e # None /\ e.kept = c[i].kept
  <1> DEFINE o == c[i]
  <1>1. o \in [rev : Bad..MaxRev, kept : Kept(i)]
    BY EntryFields, EntryTypes
  <1> HIDE DEF o
  <1>2. [o EXCEPT !.rev = rev] \in [rev : Bad..MaxRev, kept : Kept(i)]
        /\ [o EXCEPT !.rev = rev].kept = o.kept
    BY <1>1
  <1> QED BY <1>2, EntryTypes DEF o
LEMMA CredentialEntry ==
    ASSUME NEW k \in Keys, NEW c, IsConfig(c), c[k] # None, NEW cred \in Credential
    PROVE  LET e == [c[k] EXCEPT !.kept = cred]
           IN  e \in [rev : Bad..MaxRev, kept : Kept(k)] /\ e # None /\ e.kept = cred
  <1> DEFINE o == c[k]
  <1>1. o \in [rev : Bad..MaxRev, kept : Kept(k)] /\ cred \in Kept(k) /\ k \in Ids
    BY EntryFields, EntryTypes DEF Ids, Kept
  <1> HIDE DEF o
  <1>2. [o EXCEPT !.kept = cred] \in [rev : Bad..MaxRev, kept : Kept(k)]
        /\ [o EXCEPT !.kept = cred].kept = cred
    BY <1>1
  <1> QED BY <1>1, <1>2, EntryTypes DEF o

LEMMA HandlersKeep ==
    ASSUME AInv
    PROVE  /\ \A r \in Resources :
                create_resource(r) \/ update_resource(r) \/ delete_resource(r) => AInv'
           /\ \A k \in Keys :
                create_proxy_key(k) \/ update_proxy_key(k) \/ delete_proxy_key(k) => AInv'
           /\ \A x \in Servers :
                create_server(x) \/ update_server(x) \/ delete_server(x) => AInv'
  <1>0. IsConfig(config)
    BY RunningConfig DEF AInv
  <1>1. 1..MaxRev \subseteq Bad..MaxRev
    BY AdminStoreAssumption DEF Bad
  <1>2. ASSUME NEW r \in Resources PROVE r \in Ids /\ r \notin Keys /\ r \notin Servers
    BY AdminStoreAssumption DEF Ids
  <1>3. ASSUME NEW x \in Servers PROVE x \in Ids /\ x \notin Keys
    BY AdminStoreAssumption DEF Ids
  <1>4. ASSUME NEW k \in Keys PROVE k \in Ids /\ k \notin Servers
    BY AdminStoreAssumption DEF Ids
  <1>5. ASSUME NEW i \in Resources \cup Servers, NEW rev \in Bad..MaxRev,
               NEW pool \in SUBSET Refs, config[i] = None, UNCHANGED owner,
               Begin("create", i, [rev |-> rev, kept |-> pool], "validate")
        PROVE  AInv'
    <2> DEFINE e == [rev |-> rev, kept |-> pool]
    <2>1. i \in Ids /\ i \notin Keys /\ pool \in Kept(i)
      BY <1>2, <1>3 DEF Kept
    <2>2. e \in [rev : Bad..MaxRev, kept : Kept(i)] /\ e # None
      BY <2>1, NewEntry
    <2>3. Begin("create", i, e, "validate")
      BY <1>5
    <2> HIDE DEF e
    <2> QED BY <1>5, <2>1, <2>2, <2>3, PlainBegin
  <1>6. ASSUME NEW i \in Resources \cup Servers, NEW rev \in Bad..MaxRev,
               NEW pool \in SUBSET Refs, config[i] # None, UNCHANGED owner,
               Begin("update", i, apply_update(config[i], rev, pool), "validate")
        PROVE  AInv'
    <2> DEFINE e == apply_update(config[i], rev, pool)
    <2>1. i \in Ids /\ i \notin Keys
      BY <1>2, <1>3
    <2>2. e \in [rev : Bad..MaxRev, kept : Kept(i)] /\ e # None
      BY <1>0, <1>6, <2>1, UpdatedEntry
    <2>3. Begin("update", i, e, "validate")
      BY <1>6
    <2> HIDE DEF e
    <2> QED BY <1>6, <2>1, <2>2, <2>3, PlainBegin
  <1>7. ASSUME NEW i \in Ids, UNCHANGED owner,
               Begin("delete", i, None, IF i \in Servers THEN "validate" ELSE "remove")
        PROVE  AInv'
    <2> DEFINE s == IF i \in Servers THEN "validate" ELSE "remove"
    <2>1. s \in {"remove", "validate"} /\ (i \notin Servers <=> s = "remove")
      OBVIOUS
    <2>2. Begin("delete", i, None, s)
      BY <1>7
    <2> HIDE DEF s
    <2> QED BY <1>7, <2>1, <2>2, PlainBegin
  <1>8. ASSUME NEW k \in Keys, create_proxy_key(k) PROVE AInv'
    <2>1. PICK rev \in Bad..MaxRev :
             Begin("create", k, [rev |-> rev, kept |-> NoCredential], "validate")
      BY <1>8 DEF create_proxy_key
    <2> DEFINE e == [rev |-> rev, kept |-> NoCredential]
    <2>2. NoCredential \in Kept(k) /\ k \in Ids
      BY <1>4, AdminStoreAssumption DEF Kept, NoCredential, Credential, Never
    <2>3. e \in [rev : Bad..MaxRev, kept : Kept(k)] /\ e # None /\ e.kept = NoCredential
      BY <2>2, NewEntry
    <2>4. config[k] = None /\ UNCHANGED owner /\ Begin("create", k, e, "validate")
      BY <1>8, <2>1 DEF create_proxy_key
    <2> HIDE DEF e
    <2> QED BY <1>4, <2>2, <2>3, <2>4, PlainBegin
  <1>9. ASSUME NEW k \in Keys, update_proxy_key(k) PROVE AInv'
    <2>1. PICK rev \in Bad..MaxRev :
             Begin("update", k, [config[k] EXCEPT !.rev = rev], "validate")
      BY <1>9 DEF update_proxy_key
    <2> DEFINE e == [config[k] EXCEPT !.rev = rev]
    <2>2. config[k] # None /\ UNCHANGED owner /\ Begin("update", k, e, "validate")
      BY <1>9, <2>1 DEF update_proxy_key
    <2>3. /\ e \in [rev : Bad..MaxRev, kept : Kept(k)] /\ e # None
          /\ e.kept = config[k].kept
      BY <1>0, <1>4, <2>2, RevisedEntry
    <2> HIDE DEF e
    <2> QED BY <1>4, <2>2, <2>3, PlainBegin
  <1>10. ASSUME NEW i \in Ids, i \notin Servers, Begin("delete", i, None, "remove"),
                UNCHANGED owner
         PROVE  AInv'
    BY <1>7, <1>10
  <1>11. ASSUME NEW x \in Servers, Begin("delete", x, None, "validate"), UNCHANGED owner
         PROVE  AInv'
    BY <1>3, <1>7, <1>11
  <1>12. ASSUME NEW r \in Resources,
                create_resource(r) \/ update_resource(r) \/ delete_resource(r)
         PROVE  AInv'
    BY <1>2, <1>5, <1>6, <1>10, <1>12 DEF create_resource, update_resource, delete_resource
  <1>13. ASSUME NEW x \in Servers,
                create_server(x) \/ update_server(x) \/ delete_server(x)
         PROVE  AInv'
    BY <1>1, <1>5, <1>6, <1>11, <1>13 DEF create_server, update_server, delete_server
  <1>14. ASSUME NEW k \in Keys, delete_proxy_key(k) PROVE AInv'
    BY <1>4, <1>10, <1>14 DEF delete_proxy_key
  <1> QED BY <1>8, <1>9, <1>12, <1>13, <1>14

LEMMA TokenHandlersKeep ==
    ASSUME AInv, NEW k \in Keys, issue_token(k) \/ revoke_token(k) PROVE AInv'
  <1>0. IsConfig(config) /\ k \in Ids /\ k # None /\ k \notin Servers
    BY RunningConfig, AdminStoreAssumption DEF AInv, Ids
  <1>n. "token" \in Names \ {"none"}
    BY DEF Names
  <1>1. CASE issue_token(k)
    <2>1. PICK t \in Tokens, exp \in {Never} \cup (now + 1)..MaxNow + 1 :
             /\ owner[t] = None /\ owner' = [owner EXCEPT ![t] = k]
             /\ Begin("token", k, [config[k] EXCEPT !.kept = [tok |-> t, exp |-> exp]],
                      "validate")
      BY <1>1 DEF issue_token
    <2> DEFINE cred == [tok |-> t, exp |-> exp]
               e == [config[k] EXCEPT !.kept = cred]
    <2>2. cred \in Credential /\ cred.tok = t
      <3>1. exp \in 0..MaxNow + 1
        BY AdminStoreAssumption DEF AInv, ATyped, Never
      <3> QED BY <3>1 DEF Credential
    <2>3. config[k] # None /\ Begin("token", k, e, "validate")
      BY <1>1, <2>1 DEF issue_token
    <2> HIDE DEF cred
    <2>4. e \in [rev : Bad..MaxRev, kept : Kept(k)] /\ e # None /\ e.kept = cred
      BY <1>0, <2>2, <2>3, CredentialEntry
    <2> HIDE DEF e
    <2>5. /\ owner' \in [AllTokens -> Keys \cup {None}] /\ owner'[t] = k
          /\ \A u \in AllTokens : owner[u] # None => owner'[u] = owner[u]
      BY <2>1 DEF AInv, ATyped, AllTokens
    <2>6. t \notin dead
      BY <2>1 DEF AInv, TokensSettled
    <2> QED BY <1>0, <1>n, <2>2, <2>3, <2>4, <2>5, <2>6, BeginKeeps
  <1>2. CASE revoke_token(k)
    <2> DEFINE e == [config[k] EXCEPT !.kept = NoCredential]
    <2>1. NoCredential \in Credential /\ NoCredential.tok = None
      BY AdminStoreAssumption DEF NoCredential, Credential, Never
    <2>2. config[k] # None /\ Begin("token", k, e, "validate") /\ UNCHANGED owner
      BY <1>2 DEF revoke_token
    <2>3. e \in [rev : Bad..MaxRev, kept : Kept(k)] /\ e # None /\ e.kept = NoCredential
      BY <1>0, <2>1, <2>2, CredentialEntry
    <2> HIDE DEF e
    <2>4. owner' \in [AllTokens -> Keys \cup {None}] /\ None \notin dead
      BY <2>2, AdminStoreAssumption DEF AInv, ATyped, AllTokens
    <2> QED BY <1>0, <1>n, <2>1, <2>2, <2>3, <2>4, BeginKeeps
  <1> QED BY <1>1, <1>2

----------------------------------------------------------------------------
(* The invariant.                                                             *)

LEMMA InitInv == Init => AInv
  <1> SUFFICES ASSUME Init PROVE AInv
    OBVIOUS
  <1>1. /\ op \in Handler /\ op.step = "idle" /\ op.new = Yaml /\ Idle
    BY NoHandlerFields DEF Init, Idle
  <1>2. config = Yaml /\ mem["auth"] = Yaml /\ \A p \in Parts : mem[p] = Yaml
    BY DEF Init, config, Parts
  <1>3. /\ owner \in [AllTokens -> Keys \cup {None}]
        /\ \A t \in AllTokens : Holder(Yaml, t) # {} => owner[t] \in Holder(Yaml, t)
    BY DEF Init, AllTokens, Holder
  <1>4. ATyped
    BY <1>1, <1>3, YamlTyped, EntryTypes, AdminStoreAssumption
    DEF Init, ATyped, Shown, Table
  <1>5. Configs
    BY <1>2, YamlTyped DEF Init, Configs, IsConfig
  <1>6. Swap
    BY <1>1, <1>2, AfterSteps DEF Swap, DraftFits, Progress, Confined
  <1>7. Stored
    BY <1>1, <1>2 DEF Init, Stored, Rows, KeyRows, PoolOf, Ids
  <1>8. Overlays
    BY <1>1 DEF Init, Overlays
  <1>9. TokensSettled
    <2>1. Owned(Yaml)
      <3> SUFFICES ASSUME NEW k \in Keys, Yaml[k] # None, Yaml[k].kept.tok # None
                   PROVE  owner[Yaml[k].kept.tok] = k
        BY DEF Owned
      <3>1. Yaml[k].kept.tok = YamlToken
        BY AdminStoreAssumption
      <3>2. owner[YamlToken] \in Holder(Yaml, YamlToken)
        BY <1>3, <3>1 DEF Holder, AllTokens
      <3> QED BY <3>1, <3>2, AdminStoreAssumption DEF Holder
    <2>2. dead = {} /\ Owned(db)
      BY DEF Init, Owned, Ids
    <2> QED BY <1>1, <1>2, <2>1, <2>2 DEF TokensSettled, Clean
  <1> QED BY <1>4, <1>5, <1>6, <1>7, <1>8, <1>9 DEF AInv

LEMMA StepInv == AInv /\ [Next]_vars => AInv'
  <1> SUFFICES ASSUME AInv, [Next]_vars PROVE AInv'
    OBVIOUS
  <1>1. ASSUME RefuseSwap PROVE AInv'
    <2>1. ~Idle /\ op.step = "validate" /\ op.id \in Ids
      BY <1>1 DEF RefuseSwap, Idle, AInv, Swap, DraftFits
    <2> QED BY <1>1, <2>1, EndKeeps DEF RefuseSwap, MarkFailed, Untouched
  <1>2. ASSUME Timeout PROVE AInv'
    BY <1>2, EndKeeps DEF Timeout, MarkFailed
  <1>3. ASSUME NEW w \in Writers, NEW d \in Descs, put_metadata(w, d) PROVE AInv'
    BY <1>3, PutMetadataKeeps DEF Shown
  <1>4. ASSUME NEW w \in Writers, delete_metadata(w) PROVE AInv'
    BY <1>4, PutMetadataKeeps DEF delete_metadata, Shown
  <1>5. ASSUME Tick PROVE AInv'
    <2>1. UNCHANGED <<mem, db, upstreamKeys, op, overlay, dbOverlay, meta, boots, owner,
                      dead, failed>> /\ now' \in 0..MaxNow
      BY <1>5, AdminStoreAssumption DEF Tick, AInv, ATyped
    <2>2. ATyped' /\ Overlays'
      BY <2>1 DEF AInv, ATyped, Overlays
    <2> QED BY <2>1, <2>2, AsideKeeps DEF AInv
  <1>6. ASSUME UNCHANGED vars PROVE AInv'
    <2>1. UNCHANGED <<mem, db, upstreamKeys, op, overlay, dbOverlay, meta, now, boots,
                      owner, dead, failed>>
      BY <1>6 DEF vars
    <2>2. ATyped' /\ Overlays'
      BY <2>1 DEF AInv, ATyped, Overlays
    <2> QED BY <2>1, <2>2, AsideKeeps DEF AInv
  <1> QED BY <1>1, <1>2, <1>3, <1>4, <1>5, <1>6, HandlersKeep, TokenHandlersKeep,
             RemoveRowKeeps, ValidateSwapKeeps, WritePartKeeps, PersistKeeps,
             DropUpstreamKeysKeeps, InsertUpstreamKeyKeeps, ApplyMetadataKeeps,
             DropMetadataKeeps, RestartKeeps DEF Next

LEMMA Invariant == Spec => []AInv
  BY InitInv, StepInv, PTL DEF Spec

----------------------------------------------------------------------------
(* What it is for.                                                            *)

\* A write is in force as a whole, in memory and in the tables, whatever was cut
\* off, refused or failed before it: for every number of entries, writers, writes
\* and restarts (swap_config_and_catalog).
THEOREM WritesAlwaysWhole == Spec => []WritesWhole
  <1>1. AInv => WritesWhole
    <2> SUFFICES ASSUME AInv PROVE WritesWhole
      OBVIOUS
    <2>1. TypeOK
      BY DEF AInv, ATyped, Configs, Handler, Steps, Shown, TypeOK
    <2>2. MismatchConfined
      BY DEF AInv, Swap, Confined, MismatchConfined, Before, Idle
    <2>3. SwapComplete
      BY AfterSteps DEF AInv, Swap, Progress, SwapComplete
    <2>4. UpstreamRowsMatch
      BY DEF AInv, Stored, KeyRows, PoolOf, UpstreamRowsMatch
    <2>5. OverlayKept
      BY DEF AInv, Overlays, OverlayKept
    <2> QED BY <2>1, <2>2, <2>3, <2>4, <2>5 DEF WritesWhole
  <1> QED BY <1>1, Invariant, PTL

\* A restart brings every entry back that was written completely, and what the
\* startup file lists as it lists it (merge_db_into_config).
THEOREM RestartAlwaysRestores == Spec => RestartRestores
  <1>1. AInv /\ [Next]_vars =>
           [(boots' # boots /\ Idle) =>
               \A i \in Ids :
                  mem'["config"][i] =
                     IF Yaml[i] # None THEN Yaml[i]
                     ELSE IF i \in failed THEN mem'["config"][i] ELSE config[i]]_vars
    <2> SUFFICES ASSUME AInv, Next, boots' # boots, Idle, NEW i \in Ids
                 PROVE  mem'["config"][i] =
                          IF Yaml[i] # None THEN Yaml[i]
                          ELSE IF i \in failed THEN mem'["config"][i] ELSE config[i]
      BY DEF vars
    <2>1. Restart
      BY DEF Next, create_resource, update_resource, delete_resource, create_proxy_key,
             update_proxy_key, delete_proxy_key, issue_token, revoke_token, create_server,
             update_server, delete_server, Begin, RemoveRow, ValidateSwap, RefuseSwap,
             WritePart, Persist, DropUpstreamKeys, InsertUpstreamKey, Timeout,
             put_metadata, delete_metadata, ApplyMetadata, DropMetadata, Tick
    <2>2. mem'["config"][i] = IF Yaml[i] # None THEN Yaml[i] ELSE db[i]
      BY <2>1 DEF Restart, Parts, merge_db_into_config
    <2>3. Yaml[i] = None /\ i \notin failed => db[i] = config[i]
      BY DEF AInv, Stored, Rows
    <2> QED BY <2>2, <2>3
  <1> QED BY <1>1, Invariant, PTL DEF Spec, RestartRestores

----------------------------------------------------------------------------
(* The token service.                                                         *)

Credentials == Keys \cup Tokens \cup {YamlToken}
Accepts == [c \in Keys \cup Tokens \cup {YamlToken} |->
              IF c \in Keys THEN authenticate(mem["auth"], None, c)
                            ELSE authenticate(mem["auth"], c, None)]
Shaky == {t \in DOMAIN owner : owner[t] \in failed}

\* What the auth part accepts is a key, and nothing that was retired.
AcceptsSound ==
    /\ Accepts \in [Credentials -> Keys \cup {None}]
    /\ \A c \in dead : Accepts[c] = None
    /\ dead \subseteq Credentials

LEMMA RetiredRefused == AInv => AcceptsSound
  <1> SUFFICES ASSUME AInv PROVE AcceptsSound
    OBVIOUS
  <1>1. ASSUME NEW b, NEW q
        PROVE  authenticate(mem["auth"], b, q) \in Keys \cup {None}
    BY DEF authenticate, Holder, legacy
  <1>2. ASSUME NEW t \in dead PROVE authenticate(mem["auth"], t, None) = None
    <2>1. t # None
      BY AdminStoreAssumption DEF AInv, ATyped, AllTokens
    <2>2. Holder(mem["auth"], t) = {}
      BY DEF AInv, TokensSettled, Clean, Holder
    <2> QED BY <2>1, <2>2 DEF authenticate
  <1>3. \A t \in dead : t \in Credentials /\ t \notin Keys
    BY AdminStoreAssumption DEF AInv, ATyped, AllTokens, Credentials
  <1> QED BY <1>1, <1>2, <1>3 DEF AcceptsSound, Accepts, Credentials

LEMMA RetiredRefusedNext == AInv' => AcceptsSound'
  BY RetiredRefused, PTL

\* Outside a restart marks stay and tokens keep their owners; only an answer
\* retires tokens.
LEMMA MarksStay ==
    ASSUME AInv, AInv', [Next]_vars, ~Restart
    PROVE  /\ Shaky \subseteq Shaky' /\ UNCHANGED boots
           /\ dead' = dead \/ Persist
  <1>1. ASSUME NEW k \in Keys, issue_token(k)
        PROVE  /\ failed' = failed /\ UNCHANGED <<boots, dead>>
               /\ \A t \in AllTokens : owner[t] # None => owner'[t] = owner[t]
    BY <1>1 DEF issue_token, Begin, AInv, ATyped, AllTokens
  <1>2. /\ failed \subseteq failed' /\ UNCHANGED boots
        /\ dead' = dead \/ Persist
        /\ UNCHANGED owner \/ \E k \in Keys : issue_token(k)
    BY <1>1
    DEF Next, vars, create_resource, update_resource, delete_resource, create_proxy_key,
        update_proxy_key, delete_proxy_key, revoke_token, create_server, update_server,
        delete_server, Begin, RemoveRow, ValidateSwap, RefuseSwap, WritePart, Persist,
        DropUpstreamKeys, InsertUpstreamKey, Timeout, put_metadata, delete_metadata,
        ApplyMetadata, DropMetadata, Tick, MarkFailed
  <1>3. \A t \in AllTokens : owner[t] # None => owner'[t] = owner[t]
    BY <1>1, <1>2
  <1>4. None \notin failed /\ DOMAIN owner = AllTokens /\ DOMAIN owner' = AllTokens
    BY AdminStoreAssumption DEF AInv, ATyped
  <1> QED BY <1>2, <1>3, <1>4 DEF Shaky

\* The gateway implements the token service: a token whose rotation, revocation
\* or removal was answered is never accepted again by this process, nor after a
\* restart unless its retirement was not stored or the file lists it.
THEOREM ImplementsTokenService == Spec => ServiceSpec
  <1>1. Init /\ AInv => Service!Init
    BY RetiredRefused DEF Init, Service!Init, AcceptsSound, Accepts, Credentials
  <1>2. AInv /\ AInv' /\ [Next]_vars =>
           [Service!Next]_<<Accepts, dead, Shaky, boots>>
    <2> SUFFICES ASSUME AInv, AInv', [Next]_vars
                 PROVE  [Service!Next]_<<Accepts, dead, Shaky, boots>>
      OBVIOUS
    <2>1. AcceptsSound /\ AcceptsSound'
      BY RetiredRefused, RetiredRefusedNext
    <2>2. CASE ~Restart /\ dead' = dead
      <3>1. Service!Replace
        BY <2>1, <2>2, MarksStay
        DEF Service!Replace, Service!Accepted, AcceptsSound, Accepts, Credentials, Shaky
      <3> QED BY <3>1 DEF Service!Next
    <2>3. CASE Persist /\ ~Restart
      <3>1. Accepts' = Accepts
        BY <2>3 DEF Persist, Accepts, authenticate, Holder, legacy, check_expiry
      <3>2. dead \subseteq dead'
        BY <2>3 DEF Persist, Answered
      <3>3. Service!Retire
        BY <2>1, <2>3, <3>1, <3>2, MarksStay
        DEF Service!Retire, Service!Accepted, AcceptsSound, Accepts, Credentials, Shaky
      <3> QED BY <3>3 DEF Service!Next
    <2>4. CASE Restart
      <3>1. /\ boots' = boots + 1 /\ dead' \subseteq dead
            /\ dead \ dead' \subseteq {YamlToken} \cup Shaky
        BY <2>4 DEF Restart, Shaky, AInv, ATyped
      <3>2. Shaky' = {}
        BY <2>4, AdminStoreAssumption DEF Restart, Shaky, AInv, ATyped, Ids
      <3>3. Service!Restart
        BY <2>1, <3>1, <3>2
        DEF Service!Restart, Service!Accepted, AcceptsSound, Accepts, Credentials, Shaky
      <3> QED BY <3>3 DEF Service!Next
    <2> QED BY <2>2, <2>3, <2>4, MarksStay
  <1>3. Spec => Service!Init /\ [][Service!Next]_<<Accepts, dead, Shaky, boots>>
    BY <1>1, <1>2, InitInv, Invariant, PTL DEF Spec
  <1> QED BY <1>3, PTL DEF ServiceSpec, Service!Spec, Accepts, Shaky
=============================================================================
