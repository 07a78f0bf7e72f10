----------------------------- MODULE ResultCache ----------------------------
(* Results that are too large for one answer (shaping.rs, the end of           *)
(* proxy/post.rs, asl__fetch and the batch tools): the text is scanned,        *)
(* rendered in the caller's format, cut at a character boundary, and the whole *)
(* of it is kept for its key under a cursor that the caller pages through.     *)
(*                                                                             *)
(* A text is the sequence of the byte widths of its characters.  Its content   *)
(* is only told apart by the character at which a suspicious phrase ends       *)
(* (hit, 0 for none) and by being JSON or not.  `ok' is a 2xx status, which    *)
(* every answer of an MCP upstream has; `is_error' is the mark of a tool       *)
(* result that reports an error.                                               *)
EXTENDS Integers, Sequences, FiniteSetsExt, Functions

CONSTANTS
    RcKeys,           \* gateway keys
    Texts,            \* upstream answers [chars, hit, json, ok, is_error]
    Budgets,          \* security.result_budget_bytes of the resources
    Batches,          \* batch answers: sequences of items [size, error]
    CallReaders,      \* clients that call one tool and page through its result
    DEFAULT_BUDGET_BYTES,
    CACHE_TTL_SECS,
    MAX_CACHE_ENTRIES,
    MAX_CACHE_BYTES,
    CursorBytes,      \* what a cursor adds to a batch item
    StubBytes,        \* "error details available via cursor"
    MaxStores, MaxRcClock

\* The code has 48 KiB, 64 entries and 64 MiB; a character has at most 4 bytes.
ASSUME ShapingAssumption ==
    /\ DEFAULT_BUDGET_BYTES \in Nat \ {0} /\ Budgets \subseteq Nat
    /\ MAX_CACHE_BYTES \in Nat \ {0} /\ MAX_CACHE_ENTRIES \in Nat \ {0} /\ CACHE_TTL_SECS \in Nat
    /\ \A t \in Texts : t.chars \in Seq(1 .. DEFAULT_BUDGET_BYTES)
    /\ \A t \in Texts : t.hit \in 0 .. Len(t.chars)
    /\ \A b \in Batches : b \in Seq([size : Nat, error : BOOLEAN])

VARIABLES
    rcCache,          \* ResultCache.entries: cursor -> [text, created, key]
    rcCounter,        \* ResultCache.counter
    rcNow,            \* seconds
    reader,           \* what each client holds of a call's answer
    batch,            \* and of a batch answer
    rcStored          \* every entry that was ever stored (history)
rcVars == <<rcCache, rcCounter, rcNow, reader, batch, rcStored>>

Formats == {"json", "yaml", "markdown"}
Unset == "unset"
IdleReader == [pc |-> "idle", key |-> Unset, cursor |-> -1, offset |-> 0,
               text |-> <<>>, pages |-> <<>>, due |-> FALSE, flag |-> FALSE]
NoBatch == [pc |-> "idle", key |-> Unset, items |-> <<>>, moved |-> <<>>]

Bytes(text) == SumFunction(text)
-----------------------------------------------------------------------------
(* Cutting at character boundaries.                                            *)
Boundaries(text) == {SumFunctionOnSet(text, 1 .. n) : n \in 0 .. Len(text)}
floor_char_boundary(text, index) == Max({b \in Boundaries(text) : b <= index})
truncate_utf8(text, max) == floor_char_boundary(text, max)

(* Which format an answer is in: the request's own wish (an unknown one is     *)
(* refused), else the key's, else the configuration's, else JSON.              *)
format_from_accept(accept) ==
    CASE "yaml" \in accept -> "yaml"
      [] "yaml" \notin accept /\ "markdown" \in accept -> "markdown"
      [] accept = {"json"} -> "json"
      [] OTHER -> Unset
resolve_format(override, key, global) ==
    IF override # Unset THEN IF override \in Formats THEN override ELSE "refused"
    ELSE IF key # Unset THEN key ELSE IF global # Unset THEN global ELSE "json"

(* Rendering changes the text: a mark of layout comes before it.  The text of  *)
(* a tool result that reports an error stays as it came.                       *)
render(t, format) ==
    IF format = "json" \/ ~t.json \/ t.is_error THEN t.chars ELSE <<1>> \o t.chars
-----------------------------------------------------------------------------
(* The cache.  created_at has the clock's full resolution, so that the oldest  *)
(* entry is the one with the smallest cursor; ages are whole seconds.          *)
sweep(map) == [c \in {d \in DOMAIN map : rcNow - map[d].created < CACHE_TTL_SECS} |-> map[c]]
total_bytes_inner(map) == SumFunction([c \in DOMAIN map |-> Bytes(map[c].text)])

full(map) ==
    \/ Cardinality(DOMAIN map) >= MAX_CACHE_ENTRIES
    \/ total_bytes_inner(map) >= MAX_CACHE_BYTES

(* The oldest go, one by one, until it is no longer full or nothing is left.   *)
Newer(map, n) == [c \in {d \in DOMAIN map : d >= n} |-> map[c]]
first_kept(map) == Min({n \in 0 .. rcCounter : n = rcCounter \/ ~full(Newer(map, n))})
evict(map) == Newer(map, first_kept(map))

Put(map, cursor, entry) ==
    [c \in DOMAIN map \cup {cursor} |-> IF c = cursor THEN entry ELSE map[c]]
\* One step: the id and the instant are taken before the lock (shaping.rs:77-83),
\* but nothing is awaited between; two threads that draw them in opposite
\* orders would only exchange two neighbours in age.
store(text, key) ==
    LET entry == [text |-> text, created |-> rcNow, key |-> key]
    IN  /\ rcCache' = Put(evict(sweep(rcCache)), rcCounter, entry)
        /\ rcStored' = Put(rcStored, rcCounter, entry)
        /\ rcCounter' = rcCounter + 1

owned(entry, key) == entry.key = key

Gone == [found |-> FALSE, owner |-> Unset, text |-> <<>>, from |-> 0, to |-> 0, has_more |-> FALSE]
fetch(cursor, key, offset, limit) ==
    LET map == sweep(rcCache)
    IN  IF cursor \notin DOMAIN map THEN Gone
        ELSE IF ~owned(map[cursor], key) THEN Gone
        ELSE LET text == map[cursor].text
                 len == Bytes(text)
                 safe_end == floor_char_boundary(text, Min({len, offset + limit}))
             IN  [found |-> TRUE, owner |-> map[cursor].key, text |-> text,
                  from |-> IF offset >= len THEN offset ELSE floor_char_boundary(text, offset),
                  to |-> IF offset >= len THEN offset ELSE safe_end,
                  has_more |-> offset < len /\ safe_end < len]
-----------------------------------------------------------------------------
(* A call's answer: scan, render, shape.                                       *)

(* security.defense.enabled is a resource's own switch, off by default; the    *)
(* scan sees the text as the upstream sent it, before it is rendered and cut.  *)
scan_content(chars, hit) == hit \in 1 .. Len(chars)
scan_defense(chars, hit, enabled) == enabled /\ scan_content(chars, hit)

\* `due' remembers, for the property, that a flag is owed.
shape_result(r, t, key, format, budget, enabled) ==
    LET text == render(t, format)
        head == [IdleReader EXCEPT !.key = key, !.text = text, !.due = enabled /\ t.hit > 0,
                                   !.flag = scan_defense(t.chars, t.hit, enabled)]
    IN  IF Bytes(text) <= budget
        THEN /\ reader' = [reader EXCEPT ![r] = [head EXCEPT !.pc = "inline"]]
             /\ UNCHANGED <<rcCache, rcCounter, rcStored>>
        ELSE /\ reader' = [reader EXCEPT ![r] =
                              [head EXCEPT !.pc = "paging", !.cursor = rcCounter]]
             /\ store(text, key)

(* apply_defense_and_shaping, and shape_remote_mcp_result for an MCP upstream: *)
(* an HTTP answer whose status is not 2xx goes through as it came, a tool      *)
(* result that reports an error is scanned and cut like any other.             *)
apply_defense_and_shaping(r) ==
    /\ reader[r].pc = "idle" /\ batch[r].pc = "idle" /\ rcCounter < MaxStores
    /\ UNCHANGED <<rcNow, batch>>
    /\ \E t \in Texts, key \in RcKeys, budget \in Budgets, enabled \in BOOLEAN,
          format \in {resolve_format(format_from_accept(accept), wish, Unset) :
                        accept \in SUBSET Formats, wish \in {Unset, "yaml"}} :
         IF t.ok THEN shape_result(r, t, key, format, budget, enabled)
         ELSE /\ reader' = [reader EXCEPT ![r] = [IdleReader EXCEPT !.pc = "inline"]]
              /\ UNCHANGED <<rcCache, rcCounter, rcStored>>

(* Mutant: the next offset counts characters where the cache counts bytes.     *)
next_offset_in_chars(chunk, offset) ==
    offset + Cardinality({b \in Boundaries(chunk.text) : chunk.from < b /\ b <= chunk.to})
next_offset(chunk, offset) == chunk.from + (chunk.to - chunk.from)

(* asl__fetch with the cursor and the offset of the last answer.               *)
fetch_result_meta_tool(r) ==
    /\ reader[r].pc = "paging"
    /\ LET me == reader[r]
           chunk == fetch(me.cursor, me.key, me.offset, DEFAULT_BUDGET_BYTES)
       IN  reader' = [reader EXCEPT ![r] =
             IF chunk.found
             THEN [me EXCEPT !.pages = Append(@, [text |-> chunk.text, owner |-> chunk.owner,
                                                  from |-> chunk.from, to |-> chunk.to]),
                             !.offset = next_offset(chunk, @),
                             !.pc = IF chunk.has_more THEN @ ELSE "read"]
             ELSE [me EXCEPT !.pc = "expired"]]
    /\ rcCache' = sweep(rcCache) /\ UNCHANGED <<rcCounter, rcNow, batch, rcStored>>

(* asl__fetch with a cursor the caller was never given: they are r0, r1, ...   *)
fetch_guessed(r) ==
    /\ reader[r].pc = "idle" /\ batch[r].pc = "idle"
    /\ \E key \in RcKeys, cursor \in 0 .. rcCounter - 1 :
         LET chunk == fetch(cursor, key, 0, DEFAULT_BUDGET_BYTES)
         IN  reader' = [reader EXCEPT ![r] =
               [IdleReader EXCEPT !.pc = "guessed", !.key = key, !.text = chunk.text,
                   !.pages = IF chunk.found THEN <<[text |-> chunk.text, owner |-> chunk.owner,
                                                    from |-> chunk.from, to |-> chunk.to]>> ELSE <<>>]]
    /\ rcCache' = sweep(rcCache) /\ UNCHANGED <<rcCounter, rcNow, batch, rcStored>>
-----------------------------------------------------------------------------
(* A batch answer over the budget loses its largest item to the cache, again   *)
(* and again, while others store and fetch; an error leaves a stub behind.     *)
item_bytes(item, moved) ==
    IF ~moved THEN item.size ELSE CursorBytes + (IF item.error THEN StubBytes ELSE 0)
batch_bytes(items, out) == SumFunction([i \in DOMAIN items |-> item_bytes(items[i], i \in out)])
over_budget(items, out) == batch_bytes(items, out) > DEFAULT_BUDGET_BYTES

largest(items, in) ==
    Max({i \in in : \A j \in in : items[j].size <= items[i].size})

\* An item's JSON, as characters of one byte.
json(item) == [i \in 1 .. item.size |-> 1]

(* asl__batch, once its items are answered.                                    *)
call_tools(r) ==
    /\ reader[r].pc = "idle" /\ batch[r].pc = "idle"
    /\ \E items \in Batches, key \in RcKeys :
         batch' = [batch EXCEPT ![r] = [pc |-> "fitting", key |-> key, items |-> items, moved |-> <<>>]]
    /\ UNCHANGED <<rcCache, rcCounter, rcNow, reader, rcStored>>

MoveItem(r) ==
    LET me == batch[r]
        left == DOMAIN me.items \ DOMAIN me.moved
        i == largest(me.items, left)
    IN  /\ me.pc = "fitting" /\ over_budget(me.items, DOMAIN me.moved)
        /\ left # {} /\ rcCounter < MaxStores
        /\ store(json(me.items[i]), me.key)
        /\ batch' = [batch EXCEPT ![r].moved = Put(@, i, rcCounter)]
        /\ UNCHANGED <<rcNow, reader>>

(* The answer that fits is given, any other is an error after all; either way  *)
(* the moved items stay in the cache.                                          *)
EndBatch(r) ==
    LET me == batch[r]
        over == over_budget(me.items, DOMAIN me.moved)
    IN  /\ me.pc = "fitting"
        /\ over => DOMAIN me.moved = DOMAIN me.items
        /\ batch' = [batch EXCEPT ![r].pc = IF over THEN "refused" ELSE "given"]
        /\ UNCHANGED <<rcCache, rcCounter, rcNow, reader, rcStored>>

fit_batch_budget(r) == MoveItem(r) \/ EndBatch(r)

RcTick ==
    /\ rcNow < MaxRcClock /\ rcNow' = rcNow + 1
    /\ UNCHANGED <<rcCache, rcCounter, reader, batch, rcStored>>

RcInit ==
    /\ rcCache = <<>> /\ rcStored = <<>> /\ rcCounter = 0 /\ rcNow = 0
    /\ reader = [r \in CallReaders |-> IdleReader] /\ batch = [r \in CallReaders |-> NoBatch]
RcNext ==
    \/ \E r \in CallReaders : \/ apply_defense_and_shaping(r) \/ fetch_result_meta_tool(r)
                              \/ fetch_guessed(r) \/ call_tools(r) \/ fit_batch_budget(r)
    \/ RcTick
RcSpec == RcInit /\ [][RcNext]_rcVars
-----------------------------------------------------------------------------
Paged(r) == reader[r].pc \in {"paging", "read", "expired"}

(* A client that follows next_offset gets every byte of the rendered text of   *)
(* its own call once and in order: the pages join, each one advances and ends  *)
(* on a character boundary, and the last one reaches the end, whatever else is *)
(* stored or evicted meanwhile (fetch, fetch_result_meta_tool, meta_fetch).    *)
ReadsWhole ==
    \A r \in CallReaders : Paged(r) =>
        LET me == reader[r]  p == me.pages
        IN  /\ \A i \in DOMAIN p :
                 /\ p[i].text = me.text
                 /\ p[i].from = IF i = 1 THEN 0 ELSE p[i - 1].to
                 /\ p[i].from < p[i].to
                 /\ p[i].to \in Boundaries(me.text)
            /\ me.pc = "read" => p[Len(p)].to = Bytes(me.text)

(* No page of a result goes to a key other than the one whose call produced    *)
(* it, although cursors can be guessed (ResultCache::fetch).                   *)
OwnResults ==
    \A r \in CallReaders : \A i \in DOMAIN reader[r].pages :
        reader[r].pages[i].owner = reader[r].key

(* However results arrive, the cache holds at most MAX_CACHE_ENTRIES of them,  *)
(* and all but the newest are below MAX_CACHE_BYTES together (store checks     *)
(* before it inserts).                                                         *)
CacheBounded ==
    /\ Cardinality(DOMAIN rcCache) <= MAX_CACHE_ENTRIES
    /\ DOMAIN rcCache # {} =>
         LET newest == Max(DOMAIN rcCache)
         IN  total_bytes_inner(rcCache) - Bytes(rcCache[newest].text) < MAX_CACHE_BYTES

(* Of a resource that has content defense switched on, an answer is flagged    *)
(* exactly when it holds a suspicious phrase, also in the part that is only    *)
(* ever fetched later or in an error an MCP server reports; of any other       *)
(* resource none is (scan_defense, shape_remote_mcp_result).                   *)
FlagCoversTail == \A r \in CallReaders : reader[r].flag = reader[r].due

(* Whatever others store meanwhile, a batch that is made to fit moves the      *)
(* largest items first and none without need, the cursor that is left in place *)
(* of an item leads to that item for that key, and the answer is refused only  *)
(* if it would not fit with all of them moved (fit_batch_budget).              *)
BatchFits ==
    \A r \in CallReaders :
        LET me == batch[r]  out == DOMAIN me.moved
        IN  /\ \A i \in out : /\ rcStored[me.moved[i]].text = json(me.items[i])
                             /\ rcStored[me.moved[i]].key = me.key
            /\ \A i \in out, j \in DOMAIN me.items \ out : me.items[j].size <= me.items[i].size
            /\ out # {} => \E i \in out : /\ \A j \in out : me.moved[j] <= me.moved[i]
                                          /\ over_budget(me.items, out \ {i})
            /\ me.pc = "given" => ~over_budget(me.items, out)
            /\ me.pc = "refused" => over_budget(me.items, DOMAIN me.items)

(* A cursor that was handed out leads to what was stored under it until its    *)
(* time is over, or until it and the results stored after it, all but the      *)
(* newest, fill the cache by number or by size (store, sweep, oldest_key).     *)
CursorsLast ==
    \A c \in DOMAIN rcStored :
        LET older == c .. rcCounter - 2
        IN  \/ c \in DOMAIN rcCache /\ rcCache[c] = rcStored[c]
            \/ rcNow - rcStored[c].created >= CACHE_TTL_SECS
            \/ Cardinality(older) >= MAX_CACHE_ENTRIES
            \/ SumFunctionOnSet([d \in DOMAIN rcStored |-> Bytes(rcStored[d].text)], older)
                   >= MAX_CACHE_BYTES

(* What an upstream answered reaches the caller whole, in pages or in a batch, *)
(* scanned, as long as it is promised to, and nobody else (shaping.rs,         *)
(* mcp/call.rs, proxy/post.rs).                                                *)
AnswersWhole ==
    ReadsWhole /\ OwnResults /\ CacheBounded /\ FlagCoversTail /\ BatchFits /\ CursorsLast
=============================================================================
