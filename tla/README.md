# Verification of Asterlane

Asterlane is a gateway in front of tools. A client (an LLM agent, the command line, a web
console) holds a *proxy key*; the gateway resolves a tool name, checks scopes, rates and
quotas, calls an HTTP upstream or a remote MCP server with a secret the client never sees,
and records the call. Administrators change configuration, keys and servers while calls are
running.

This directory holds TLA+ modules that model the parts of it in which *order* decides what
happens, the TLC configurations that check them on small instances, and proofs, checked by
TLAPS, of what holds for every instance. `PROJECT.json` maps every definition to the lines it
translates. Paths below are relative to `src/src/` unless they start with `docs/`.

## 1. Inventory

| Component | State | Operations | Interaction | What is hard | Module |
|---|---|---|---|---|---|
| Key pools (`keys/`, `admin/resource_keys.rs`) | per key `KeyState`, EWMA; per pool a cursor; `AppState.key_pools` | `acquire`, `mark_cooling`, `record_latency`, guard drop, `snapshot`, `carry_runtime_from`, install | retry loop acquires and cools; admin writes replace the registry | guards outlive a cooldown and a registry; carry and install are two steps | `KeyPool` |
| Quotas and concurrency (`limits/`, `proxy/invoke/admission.rs`) | per key `total_calls`, `daily`; per upstream a semaphore; GCRA buckets | `admit_at`, `record_call`, commit, refund on drop, `seed_from_store`, `carry_counts_from` | every invocation; admin writes replace the registry; the store seeds it | check and count on two sides of an await; midnight; reload; restart; retention | `LimitRegistry` |
| HTTP retry loop (`proxy/retry.rs`) | attempt, retry count, guard | acquire, resolve secret, send, read, cool, back off | key pool, secret backend, upstream | nine ways out, cancellation at each await, side effects | `RetryLoop` |
| Invocation pipeline (`proxy/invoke/`, `proxy/executor.rs`, `proxy/post.rs`, `mcp/call.rs`, `mcp/downstream.rs`, `http/tools.rs`) | a request's snapshots of config, catalog, registry; quotas; events | authenticate, resolve, quarantine check, branch, admit, call, commit, record, shape, batch, prompt, list | everything else | snapshots of different ages; the handler is dropped anywhere | `Invocation` |
| Configuration swap and tokens (`admin/crud.rs`, `admin/tokens.rs`, `admin/metadata.rs`, `gateway_auth.rs`) | config, catalog, limits, auth, pools behind five locks; the tables | create, update, delete, issue, rotate, revoke, describe, restart | every request | five locks taken in turn; memory before or after the database; retired tokens | `AdminStore`, `TokenService` |
| Remote MCP registry, refresh and drift (`mcp/registry.rs`, `health.rs`, `dedup.rs`, `http/lifecycle.rs`, `integrity.rs`) | entries, catalog part, baseline, quarantine, a channel of 32 | connect, refresh, probe, reconnect, add, update, remove, check, rebase | admin writes, notifications | snapshot, await, write back; unique wire names; dropped signals | `McpRegistry` |
| OAuth for upstreams (`mcp/oauth/`, `admin/oauth.rs`, `http/oauth_callback.rs`) | pending links, sealed rows, memory, token cache | start, callback, connect, refresh, revoke, exchange | MCP peers, store | a callback late or twice; rotating refresh tokens; a revocation in between | `UpstreamOAuth`, `TokenSource` |
| Secrets (`secrets/`) | cache with lifetime | resolve, retry | retry loop, MCP peers, admin writes | answers out of order | `SecretStore` |
| Catalog, naming, policy, search (`catalog/`, `naming.rs`, `policy.rs`, `discovery.rs`, `semantic.rs`) | tool list, overrides and originals, vectors | replace, override, list, search, resolve, rank | registry, admin, requests | names that shadow one another; pages and rankings over a list that changes | `ToolCatalog` |
| OpenAPI import (`openapi/`) and schema view (`schema_view.rs`) | the discovered endpoints | discover, build a request, project, abbreviate | configuration, catalog | references, name clashes, credential headers | `ApiDiscovery`, `SchemaRefs`, `SchemaView` |
| Results (`shaping.rs`, `render.rs`, end of `proxy/post.rs`) | cache entries, cursors | shape, fetch, evict, fit a batch, render | invocation | cutting bytes of characters; eviction of a cursor in use | `ResultCache`, `Rendering` |
| Tool defaults (`admin/defaults.rs`) | one row per tool | put, delete, debug call, capture | invocation, store | the order in which calls end | `ToolDefaults` |
| MCP surface (`mcp/surface.rs`, `mcp/server.rs`, `mcp/notify.rs`) | prompts, resources, templates per connection; listeners | list, get, read, register, notify | registry, policy | a read that no listing allows; URIs within URIs | `McpSurface` |
| Egress guard (`egress.rs`) | the hop of a request | check, resolve, redirect | retry loop, MCP peers | addresses in addresses; an answer that changes | `Egress` |
| Configuration loading (`config/`, `config_path.rs`, `store/config_merge.rs`, `main.rs`) | the file, the rows, the live configuration | start, stop, admin writes | admin writes | what is accepted while running and refused at a start | `Startup` |
| Records (`store/`, `observability/`) | events, buckets | record, query, aggregate, purge | limits, admin | text timestamps; two statements per call | `UsageStore`, `Records` |
| Errors, HTTP layers, client (`error.rs`, `http/`, `cli/`) | a command and its answer | raise, convert, answer, read | everything | layers in the wrong order; tables kept twice | `ClientBoundary` |
| Web console | none the gateway depends on | | admin API | | none |

What makes them correct, beyond types:

* **Key pools.** A lease is given back exactly as often as it was taken, in the pool it was
  taken from. A cooling key is not given out, and only time ends a cooldown, also when an
  administrator reorders the keys in that moment.
* **Quotas.** A call that was admitted is counted once; one that failed, was cancelled or
  could not get its secret is given back once; nothing else changes the counter. The quota can
  be overshot by calls in flight, never without bound. Permits come back. A restart restores
  what the store knows.
* **Retry loop.** A request with side effects is sent at most once. What it reports about
  retries is true. It ends, and on every path out the pool is as if the call had not been.
* **Invocation.** Whatever a request does was allowed by some configuration between its arrival
  and that moment. A tool quarantined before it arrived is not called. Events, quotas and
  answers agree.
* **Swap and tokens.** After a write the five parts are one configuration; only entries whose
  write was cut off can differ. A token whose end was acknowledged stays refused. A restart
  brings back what was stored.
* **MCP registry.** An entry never mixes one configuration with another's connection; a deleted
  server stays deleted, an added one is not lost. The catalog shows tools of configured servers
  only, with unique names, and comes to show what the upstreams that answer offer. A changed tool does not
  enter the baseline unnoticed.
* **Credentials.** A link starts one exchange. What is shown as authorized works. A token is
  exchanged once, in time, and not too often. A replaced secret is used for a bounded time.
* **Publication and results.** The name a client is shown is the tool it calls. Pages, rankings,
  projections and renderings leave nothing out and add nothing. A result is readable as a whole,
  by its own key, and, where the content defense is switched on, was scanned as a whole.
* **Boundary.** No request reaches a forbidden address. What was accepted while running starts
  again, but for one case. Every error can be traced. A command that reports success did what it was
  asked to; only the call of a tool may have failed, and then the answer it prints says so.

The hazards this code is exposed to are listed at their lines in `PROJECT.json`.

## 2. Modules

```
KeyPool <--INSTANCE-- RetryLoop      LimitRegistry      McpRegistry      Invocation
                                     TokenService <--INSTANCE-- AdminStore
Credentials:    UpstreamOAuth + TokenSource + SecretStore
MCLibrary:      ToolCatalog + SchemaRefs (ApiDiscovery) + SchemaView + ResultCache + Rendering
                + McpSurface + Egress + Startup (MCStartup) + Records (ToolDefaults + UsageStore)
                + ClientBoundary
```

`MC*` modules give the constants values for TLC; `*Proofs` modules hold theorems:
`KeyPoolProofs`, `LimitRegistryProofs`, `HttpToolProofs`, `McpRegistryProofs`, `AdminStoreProofs`,
`InvocationProofs`, `CredentialsProofs`, and `PartsProofs` for the other parts of `MCLibrary` (`HttpToolProofs` has the retry loop, the
catalog and the discovery). Modules that declare
recursive operators (`SchemaRefs`, `SchemaView`, `Rendering`) are kept apart from those with theorems. `RetryLoop`
composes the loop with the pool: it declares the pool's variables, changes them only through
the pool's actions, and refines `KeyPool!Spec`. `AdminStore` refines `TokenService`. The parts of
`Credentials` and `MCLibrary` share no state; a behaviour of those runs follows one part, chosen
in the initial state, while the variables of the others keep their initial values.

### KeyPool

`pools[g]` is one `ResourceKeyPool`: strategy, secret references, `KeyState` and EWMA per key,
the round-robin cursor. A registry is an `Arc`; `handle[c]` is the pool a call has cloned,
`guard[c]` the `KeyId` of its `KeyGuard`, `current` what `AppState.key_pools` points to, and
`incoming` the registry an administrator's write has built. Installing is three actions
(`BuildPools`, `CarryRuntime`, `InstallPools`) because calls run between them. Names of pools
that nobody holds are used again, so the number of reloads in a behaviour is not bounded.

Instants are durations that `Tick` lowers: `CoolingUntil(0)` is a cooldown that is over and
has not been noticed, since the code expires lazily. `Acquire`, `AcquireFails`, `CarryRuntime`
and `Snapshot` begin with `expire_cooling`, as the code does. The strategies return the set of keys
they may return: one for the deterministic ones, all candidates for the random ones (a weight
is at least 1 where it is used). `Ewma` has two outcomes where the `f64` sum may fall just
below an integer.

### LimitRegistry

One proxy key and one upstream. `regs[r]` are the limits and `KeyCounters` in one registry;
`pc[c]` is where an invocation stands:

| `pc` | in the code |
|---|---|
| `resolving` | the executor has its snapshots; the tool is looked up |
| `queued` | quotas are checked; waiting in `RequestQueue::admit`; nothing is counted |
| `running` | permit held, `record_call` done, the upstream is called |
| `recording` | `commit` done; the event row is being written |
| `failing` | the guard is about to be dropped uncommitted |
| `leaving` | the quota guard is gone, the permit not yet |

`stamp[c]` is the day of the `now` that `admit_at` captures before it waits and uses after.
`BuildRegistry` copies the counters, `InstallRegistry` installs; between them an error can end
the write (`AbortReload`). `Restart` loses all but `events` and seeds from them, each query
possibly failing. `base`, `commits`, `succeeded` and `recorded` are history variables.
`Reject` is every refusal, the GCRA buckets of the `governor` crate included: those never
influence a counter.

### RetryLoop

One action per stretch between two awaits of `execute_with_retry`. `Start` decides whether
the resource has a pool. `Headers` ends `send`, `Success`, `StatusFinal` and `StatusRetried`
end the body. `Return` marks the result; `Leave` runs the destructors. `Cancel` is the drop of
the future, at the four awaits and nowhere else. A call keeps the pool it began with, so the
reload actions of `KeyPool` are not part of this module's `Next`. `PoolAssumption` repeats the
pool's assumptions, so that the theorems of `KeyPoolProofs` can be used here through the instance.

### McpRegistry

`entries` is the registry's `Vec<McpServerEntry>`, `config` the `mcp_servers` of the
configuration snapshot, `catalog` the MCP part of the tool catalog, `baseline` and
`quarantined` the integrity state. Three tasks run beside each other, each a record with a
`pc`, the copies it has made and what it will write back:

| variable | in the code |
|---|---|
| `ref` | the background task of `main.rs`: `fetch` (server by server, from a copy of the registry), `sync` (catalog, under the admin lock), `read`, `check`, `rebase` (`check_drift`, outside the lock) |
| `adm` | one admin create, update or delete: `fetch`, `write` (registry), `swap` and `install` (the two locks of `swap_config_and_catalog`: the configuration, then the catalog), `sync`, `rebase` |
| `op` | one probe or reconnect: `fetch`, `write`, `sync`, and `rebase` for a reconnect |

The admin write lock is held from the first to the last step of an admin write, so it is free
exactly when `adm` is idle. A step ends at each await on an upstream or on a contended lock.
`AdminAbort` and `OpAbort` are the drop of the handler's future by the request timeout or the
client, and, at `swap`, the refusal of the whole swap. `approved` (definitions pinned at
start-up or by an administrator), `stranded` (servers whose last write ended between the
registry and the catalog: a delete cut off between the two locks leaves tools of a server that is not
configured in the catalog) and `heard` (every change so far was announced over an open connection; one
may as well go unannounced, since upstreams need not send `list_changed` and a listener whose stream ended
does not subscribe again) are history variables.

A tool is namespace, name and fingerprint: what deduplication, drift and the catalog tell
apart. A url stands for url and auth together, since either change reconnects; "unavailable"
for `unreachable` and `auth_required`; `strict` for the policies `quarantine` and `block`. `up`
is the set of upstreams that answer with a list that can be wrapped: a list with an invalid
name fails like an upstream that is down. Prompts, resources and templates are fetched and
deduplicated in the same steps and are left out, as are the counters of `ServerHealth`.
`remove_server` takes out the entry with the id; there is one (`IdsMatch`), so the first is the only one.

### AdminStore and TokenService

`mem[p]` is the configuration from which part `p` (`config`, `catalog`, `limits`, `auth`, `pools`)
was last built, `db` the rows, `upstreamKeys` the rows of `upstream_keys`. One handler at a time
holds the admin write lock; `op` is its step, and every lock it takes and every statement it
sends is a step of its own, at which the request can be cut off (`failed` remembers the entry).
Metadata writers do not take that lock and are separate processes (`meta`): each writes its row and
then the catalog, and when two of them overlap the row of one can stay with the description of the
other. The tool then counts as `failed` like an entry whose write was cut off. `owner` and `dead` record
who a token was issued for and which tokens an answer declared retired. `AdminStoreAssumption` says of the
startup file what the code does not check: it lists no token that the gateway will generate, and
its own token for one key only.

`TokenService` says what holders of credentials are promised: a table from credentials to callers that
is replaced as a whole, never accepts again what was retired, and loses a retirement
only by a restart when it was not stored or the file lists the token. The mapping evaluates
`authenticate` on the auth part for every credential.

### Invocation

`call[c]` is a request with everything it has read so far: the version of the configuration its key
came from, the catalog snapshot, the canonical name, the branch. `Doors` are the ways in
(`/v1` invoke and its meta tools, MCP tool calls, `asl__call`, batches, prompts, listings). Every await at which
another request, an admin write, a refresh or the drift check can come between ends a step.
`Versions` is a sequence of configurations an administrator puts in force one after the other;
the registry changes by itself. `Cut` is the timeout that drops a `/v1` handler at any await, where there is one
(`RequestTimeout`: `request_timeout_secs` of 0 switches it off). `used` and `events` are the quota
and the records; LimitRegistry has the arithmetic behind `used`. The end of a call is two steps: `finish` commits
the quota and counts the event, and `persist_request_event` then awaits the row. `saved` says what became of that row:
written, failed (the code only warns), still open, or cut off with the handler.

### UpstreamOAuth, TokenSource, SecretStore

`UpstreamOAuth`: links (`pending`, `exchange`), the sealed row and the in-memory copy of a server's credentials, the
refresh tokens the authorization server still accepts (`valid`, rotated at each use), workers that
connect or use a live peer, a revocation in two steps, restarts with the same or another
encryption key. `TokenSource`: requests, the mutex, tokens, refusals by the upstream. The authorization server issues a token
in one step (`issue_token`) and its answer arrives in another (`exchange_token`): the upstream counts the lifetime from the
issue, the gateway from the arrival.
`SecretStore`: local and remote backends, configured or not, versions of a secret and when they began,
answers that are under way.

### ToolCatalog, ApiDiscovery, SchemaRefs, SchemaView

A name is a sequence of words, so that a segment can contain the separator and shadow another tool. The
catalog is rebuilt from configuration and offers, overrides come and go, one client reads pages and two
search by meaning meanwhile. The code keeps the list of tools sorted by wire name; the model keeps the set and
sorts it where the order is seen (`sort_by_wire_name`). `CatalogAssumption` leaves to the author of a configuration
that the ids of resources and MCP servers differ. Nothing in the code keeps the wire names of configured endpoints, imports and MCP
tools apart: `DistinctNames` says that they are, and is a premise of what is proved about descriptions, pages and
rankings. `ExposedNameResolves` speaks of the tools whose name no other has, and needs no premise.

`ApiDiscovery` reads a document of up to three operations and builds requests for it; an endpoint is filed
under the place of its operation in the document. A URL is a sequence of literals and placeholders, and
`build_url` puts the text of a value into it as it is, placeholder by placeholder in the order of the argument map, so that
a value can contain another placeholder or a separator; a header is sent when its name is one and its value is a string that
can be one. `PlacedOnce` reads that URL as the upstream would. It is about values without a character a URL reserves,
since nothing is encoded, and leaves out operations that use one name for two parameters or whose path
placeholders are not their path parameters, which OpenAPI forbids and the import does not check. `SegmentsDistinct` allows one
clash, which the code has: of `a`, `a` and `a_2` the second is numbered to the third. `SchemaRefs` resolves the references of its
schemas and compares the inlined schema with the document's own, over values that can be judged within `MAX_REF_DEPTH`
references; deeper, the code publishes a plain object.

`SchemaView` takes a schema and shows its projection and signature, with every keyword `project_entry` descends into and
every label of `type_stub`, compared with what the schema accepts over a set of instances. Outside are
`unevaluatedProperties` beside a removed `additionalProperties: true`, references relative to a removed `$id`, and, for the signature,
properties without a type (called an object) and `prefixItems` beside `items`.

### ResultCache, Rendering, ToolDefaults

A text is the sequence of the byte widths of its characters. `ResultCache` has two clients that call, page,
guess cursors and send batches while time passes; a batch is made smaller one item at a time, as the loop of
`fit_batch_budget` does (`MoveItem`, `EndBatch`). The content defense is a switch that is off by default, chosen per call
here; `FlagCoversTail` is about results scanned while it is on. Results a tool marks as errors are scanned and shaped like others.
`Rendering` gives the set of leaves a Markdown text
shows and compares it with the leaves of the value. `ToolDefaults` has debug calls that end in any order
and manual writes in between. What an upstream makes of a call is an outcome; what is captured depends on its status alone,
and an error result of an MCP tool has status 200.

### McpSurface, Egress, Startup, UsageStore, Records

`McpSurface`: two servers in one namespace with connections, their prompts, resources and templates, a
client that lists and reads by URI, and listeners that register, go away and are notified. Probes, reconnections, additions
and the periodic refresh copy what they start from, wait for the upstreams outside any lock and write back, in steps of
their own. A refresh during which a server is added does not know its prompts, so that two servers can then list one name
until the next undisturbed refresh (`sfMixed`). `Egress`: one request with its
redirects, each hop resolved anew, over addresses on both sides of every border of the
code's ranges; `Forbidden` states the ranges as numbers, apart from the comparisons and masks of the
code. The constants are any addresses of 4 octets or 8 segments (`EgressAssumption`). `Startup`: where the file is, what it says, the rows, admin writes and starts; refusals that depend on
what is around the gateway (database, secret stores, OAuth key, port) are left out. `UsageStore`:
writers that insert event and bucket by two statements, queries with limits and times as text, the purge. `LIMIT` keeps the
newest events, the largest groups of a breakdown and the first hours of a series, and a series whose `from` lies within an hour
leaves that hour out: the properties say what is true of such answers.
`Records` puts `ToolDefaults` and `UsageStore` together, the rows kept of calls; neither changes the other's.

### ClientBoundary

The error codes as `<<category, detail>>` with the tables of `error.rs`, the errors every module can
raise, the layers around the handlers by position, and one command of the client from its
arguments to its exit code, usage errors of the parser included, with other clients calling the tool and retention
at work meanwhile. A tool's call may fail in the tool (`ToolFailed`): an error result has status 200, an HTTP upstream's refusal is
handed on to `tools call` with its status and body and wrapped in a 200 by `admin invoke`. A `tools/call` that fails is
refused for its key (`-32600`), for its name (`mcp_error`), or gets the tool result `call_regular_tool` makes of
everything later; `AsResult` lists the codes for which that is not what the table of `mcp_error` says.

## 3. Runs

| Run | Instance | Shows |
|---|---|---|
| `KeyPoolSwap` | 2 calls, 2 pool allocations, 3 configurations (reordered keys, one secret twice, three strategies) | `LeaseBound`, `CooldownHolds`, `CoolingKeySkipped`, `CarryKeepsCooldowns` under reloads at any moment |
| `LimitReload` | 3 invocations, 4 admissions, 2 registries | `CountsExact`, `OvershootBounded` |
| `LimitDays` | 2 invocations, 4 admissions, 3 days, retention of 1 day, 1 restart | `NeverOvercharged` while registries are not replaced |
| `LimitLive` | 2 invocations, 2 registries, 2 days, 1 restart, no retention | `CallsFinish`, `RestartKeepsCount` |
| `RetryPool` | 2 calls on one key, 2 attempts, GET and POST, with and without a pool | `NonIdempotentSentOnce`, `ExhaustedIsHonest`, `LeasesReturned` (types, `PoolDrains`), `LoopEnds`, refinement of `KeyPool` (`KeyPoolSpec`) |
| `McpAdmin` | 1 server that is created, moved, disabled, deleted; 2 urls, each up or down; refresh and reconnect | `EntryConsistent`, `ServersMatch` (types, `IdsMatch`, `CatalogOwned`), although each write may end between any two of its locks |
| `McpDrift` | 2 servers with the same wire name, 2 definitions, 2 changes, a channel of 1; refresh and probe, with and without timer | `NameMeansOneTool` (`NamesUnique`, `NoSilentDrift`), `EventuallyFresh` |
| `AdminWrites` | two keys, of which the file lists one, a resource, a server, two issued tokens, two metadata writers, 3 writes that may be refused, fail or be cut off, 1 restart | `WritesWhole` (types, `MismatchConfined`, `SwapComplete`, `UpstreamRowsMatch`, `OverlayKept`), `RestartRestores`, refinement of `TokenService` (`ServiceSpec`) |
| `Invoke` | one request through any of 13 doors, batches of 2, an HTTP and an MCP tool that share a short name, 3 versions of the configuration, 2 changes of registry and quarantine, a handler that is dropped | `ChangesBind`, `QuarantineHolds`, `AccountsAgree` (types, `Accounted`, `QuotaMatchesEvents`, `RowsFollow`), `RequestsAnswered` |
| `Credentials` | one part at a time: OAuth of a server with 2 links, 2 workers, a revocation and a restart; 2 requests on one token source with lifetimes around the margin; 2 resolvers of a remote and a local secret that are rotated | `LinkUsedOnce`, `StoredUsable`, `MarginSound`, `ExchangedOnce`, `StaleBounded`, `TriesBounded` (types of the three) |
| `Library` | one part at a time, see below | nine properties of the parts |
| `StartAgain` | the `Startup` part alone | violated: `StartsAgain`, see section 5 |

Where a property is a conjunction, its parts are definitions of their own, named in brackets. The
type invariants of `KeyPool` and `LimitRegistry` are not in a run: they are proved. In `Library` searchers, readers, debug calls and writers are interchangeable model values
(symmetry), and each property speaks of the behaviours of its parts:

| Property | Parts | Modules |
|---|---|---|
| `CatalogExact` | `ExposedNameResolves`, `OverlayExact`, `PagesComplete`, `RankComplete` | `ToolCatalog` |
| `PublishedFaithful` | `SegmentsDistinct`, `CredentialHeadersHidden`, `PlacedOnce`; `RefsInlined`; `ProjectionSame`, `SignatureSound`; `RenderComplete` | `ApiDiscovery`; `SchemaRefs`; `SchemaView`; `Rendering` |
| `AnswersWhole` | `ReadsWhole`, `OwnResults`, `CacheBounded`, `FlagCoversTail`, `BatchFits`, `CursorsLast` | `ResultCache` |
| `SurfaceSound` | `ListedReadable`, `ListedPromptResolves`, `ReadAuthorized`, `ContentReadable`, `NotifiedOnce` | `McpSurface` |
| `EgressGuarded` | `NeverForbidden`, `HopsBounded` | `Egress` |
| `RefusedOnlyForUrl` | | `Startup` |
| `RowsTrue` | `CapturedTaken`; `QueryInOrder`, `SeriesExact`, `EachCountedOnce`, `RecordsAgree`, `RetentionExact` | `Records` (`ToolDefaults`; `UsageStore`) |
| `ErrorsReported` | `ErrorsTraceable`, `ExitNamesCause`, `ProtocolErrorsRight` | `ClientBoundary` |
| `SuccessTrue` | `SuccessMeansDone`, `DefaultsWhole` | `ClientBoundary` |

Every property of a passing run has a mutant of the code's definitions that violates it.
Deadlock is checked where the system always has something to do; a run in which every request
is served and every bound used up may stop, and its configuration says so.

**Why the bounds are enough.** A lease count involves the guards on one key and the drop of
one more: two calls share a key, which gives counts of 1 and 2, and the theorems cover the rest.
Reload interferes between one old and one new pool; a third can exist only when a call holds
the oldest, and it has no shared state with the newest. A cooldown of 1 tick can be running,
over and unnoticed, or overwritten by one of 0 ticks. The cursor's modulus is a
constant so that the wrap-around at 2^64 occurs. For quotas, two invocations suffice for check
and count to interleave and a third to wait; limits 1 and 2 are at, below and above that. Days
0 to 2 are what an admission, its commit and its refund can span with one purge. In the MCP
registry each write-back concerns one entry: one server, two configurations that differ in
namespace, url and `enabled`, and the three tasks give every order of copies and writes. Names
need two servers that collide, drift two definitions; two changes let one happen before and one
during a refresh, and a channel of one is full as soon as one signal waits.
`AdminWrites` needs two entries, one being written while the other is checked, and two tokens of one key. A
request of `Invoke` can read each of the three versions of the configuration at another step; requests share only
quotas and permits, which `LimitRegistry` has with several. An OAuth server needs two users of its credentials and
one revocation. The pages of a result are 4 bytes with characters of 1 to 3: a page ends
before, at and after a boundary; the cache of 3 entries overflows by entries and by
bytes. Its clock moves once and a cursor lasts one tick, so that an entry is seen before and at its end. A listener
can be counted twice, so that a registration that is not recognised would show. Three operations give every clash of names that two can have and one more that
numbering makes. Two writers make groups of one row or one group of two, so that a limit cuts equal groups only; of
unequal ones the theorem speaks. Addresses stand on both sides of each border in `egress.rs`.

**Fairness.** `LimitRegistry!Fairness`: a queued call gets a permit or the `timeout` around the
semaphore fires; writing an event ends, in a row or a warning; destructors run. Of the
upstream nothing is assumed. `RetryLoop!FairSpec`: the synchronous steps, the timeout around
`send` (`TransportError`) and the backoff timer happen. The secret backend and the body have
no timeout in this loop, and `LoopEnds` says so: a call returns or stays at one of these.
`McpRegistry!FairSpec`: the refresh is taken when the timer ticks (interval above 0) or a signal waits, and goes on
but for its calls to the upstreams. No timeout covers these, so an upstream that accepts and never answers stops the refresh of
all servers: that it comes back from them is a premise of `EventuallyFresh`. Without the timer the property also needs that
every change was announced over an open connection (`heard`). `Invocation!Fairness`: the gateway's own steps, the end of the
queue by its timeout, and the timeout of the `/v1` routes where there is one. Nothing is assumed of what a request waits for:
the body of an answer, Vault and Infisical, MCP servers and the database have no timeout on this path, and `/mcp` has none at all.
`RequestsAnswered` says what is left: a request ends, or waits for one of these for ever and is none that the
timeout covers. The other modules have safety properties only.

## 4. Proofs

The theorems hold for every set of calls, keys, pools, registries, servers, requests or addresses and
every value of the bounds, under the named assumptions of the modules: finitely many calls, allocation
and null names that differ, durations, latencies and limits that are naturals, non-empty key lists with
a known strategy, at least one attempt, kinds of names that do not overlap. The assumptions of the parts are as
narrow: ids and URIs are sequences of characters, with a "/" or not (`SurfaceAssumption`); a character fits in the default budget, limits of the cache are not zero (`ShapingAssumption`);
hours are whole seconds and days whole hours (`TicksAssumption`), events go to the tables there are (`RecordsAssumption`);
captured arguments that begin with a brace are JSON objects (`CaptureAssumption`); parameters are in the path, the query, a header or
a cookie (`DocumentAssumption`); and `CatalogAssumption` of section 2. Each safety theorem rests on an
inductive invariant, which TLC also finds true on the run's instance (conjuncts that only give a type by an infinite
set apart); a proof that a step preserves it has
one step per action. Some theorems have a hypothesis on a constant. It selects the part of the behaviour
the property is true of, the same that the run's configuration selects; section 5 says what happens otherwise.

**KeyPoolProofs.**

* `TypeCorrect` (`TypeOK`). Inductive: it includes that a guard's `KeyId` exists in the pool its call holds and
  that no key is `Leased(0)`. The delicate action is `BuildPools`, which overwrites an allocation: `~Held(g)`
  says that no guard is on it.
* `NoLeaseLeaks` (`LeaseBound`). `Acquire` adds a holder with the lease, `Release` removes one with it; for
  every other action the holders are the same and `StateOpCounts` says that the count does not grow. It is an
  inequality since `mark_cooling` forgets counts.
* `CooldownsEndByTime` (`CooldownHolds`), `CoolingKeysSkipped` (`CoolingKeySkipped`). From `TypeOK`, action by action; every strategy
  selects among the keys that are not cooling after expiry.
* `CooldownsCarried` (`CarryKeepsCooldowns`). Needs `FreshIncoming`: until its runtime is carried over, a pool being
  installed has no state of its own, since nobody has it.

**LimitRegistryProofs.**

* `TypeCorrect`, with it, that only finitely many rows exist, which the seeding counts.
* `QuotaCountsExact` (`CountsExact`). Each registry's total is what it began with, plus commits, plus calls in flight.
  Refunds never meet a zero, so `saturating_sub` loses nothing.
* `OvershootInductive` and `QuotaOvershootBounded`. `OvershootBounded` is not inductive: calls that wait have passed
  the check and will be counted. `OvershootInv` adds them, and separates registries created above their limit (an administrator
  lowered it), which admit nobody.
* `HistoryHolds`. `HistoryInv` ties rows to calls: no two admissions share a number, a call commits once and is written once,
  after it committed; without retention rows are not lost.
* `RestartsKeepCount` (`RestartKeepsCount`), with `RetentionDays = 0`, and `KeysNeverOvercharged` (`NeverOvercharged`),
  with one registry allocation (a reload needs a second), are consequences of `HistoryInv` and `CountsExact`.
* `PermitsBounded`: in every registry the holders of a permit are at most `max_concurrent`, reloads or not. Across a
  reload the sum over registries can be larger (section 5).

**HttpToolProofs.** The tools that are HTTP calls: retry loop, catalog and OpenAPI discovery.

* `LoopCounts`. `LoopInv` relates phase, attempt, retry count and requests sent; `SentOnce` and `ExhaustedHonest` are
  consequences.
* `ImplementsKeyPool`. Initial states are initial states of the pool, and every step is one of its actions or leaves its
  variables alone.
* `LeasesAlwaysReturned` (`LeasesReturned`). `GuardsFollowAttempts` says in which phases a call has a guard; the pool's
  `TypeCorrect` and `NoLeaseLeaks` come through the refinement, so that a pool whose calls are all over has no lease left.
* `NamesAlwaysResolve` (`ExposedNameResolves`), for any names, shared ones too; and `CatalogAlwaysExact` (`CatalogExact`), for
  behaviours in which no two tools share a wire name (`[]DistinctNames`): the comparison of names is a strict total order (`BeforeTotal`, `BeforeStrict`, `BeforeTransitive`), so the
  rank of a tool, the number of tools before it, is its place, and sorting lists every tool of a set (`SortLists`).
  The catalog is the upstreams' tools with the overrides laid over them, and originals are on record for exactly the
  overridden tools that are there (`CatalogInv`). A name that is free for one visible tool is resolved to it in
  whichever form it is (`FreeNameResolves`). Pages of an unchanged catalog are a prefix of the listing (`PagerInv`); a
  search that has its vectors keeps them, since the cache only grows, and the answers of the endpoint are put back
  in the order of the texts (`InputOrder`, `RankInv`).
* `DiscoveryAlwaysFaithful` (`SegmentsDistinct`, `CredentialHeadersHidden`): the numbers appended to one stem grow
  along the document (`SegmentsDiffer`), so that only a number in the document's own ids can meet one; and a credential header
  is neither a parameter of an endpoint nor among the arguments a request is built from.

**McpRegistryProofs.** Every task works on copies, so `RegistryInv` speaks of the entries in the hands of `ref`, `adm`
and `op` as well as of the registry. Registry, configuration and catalog differ only between the writes of
an admin write, only in the server being written, and afterwards only in one whose write was cut off there (`IdsInv`). `ServersAlwaysMatch` (`ServersMatch`) and
`EntriesAlwaysConsistent` (`EntryConsistent`) follow without hypothesis. `NamesStayUnique` (`NamesUnique`) needs
that no server is created: the refresh then knows of every server there is, and what it merges was deduplicated as a
whole. `NamesMeanOneTool` (`NameMeansOneTool`) needs that no admin write runs: `DriftInv` says that between check and rebase
what drifted in the refresh's hands was noticed.

**AdminStoreProofs.** `AInv` follows one write from the check under the lock to its last statement: which parts the new
configuration has reached, how rows relate to the running configuration, whose a token is.
`WritesAlwaysWhole` (`WritesWhole`), `RestartAlwaysRestores` (`RestartRestores`) and `ImplementsTokenService`
(`ServiceSpec`) rest on it. For the refinement, every step either leaves what `authenticate` accepts alone, or
replaces it as a whole by a configuration without a retired token, or is a restart.

**InvocationProofs.** `IInv` is one predicate per request over what it has read so far: versions lie between its arrival and now,
what it may call is covered by the version it read (`Bound`); what has been quarantined all along is past no check
(`Quarantined`); events follow answers (`Books`); and every event but the last of a request has had its row written or
refused (`Stored`, `Settled`), which is not inductive without the step at which a row may be open. A sum over all requests
makes the quota of a key (`Charged`). `ChangesAlwaysBind`, `QuarantineAlwaysHolds` and `AccountsAlwaysAgree` follow.

**CredentialsProofs.** `TokenSource`: whoever exchanges holds the mutex and has seen that the cached token is of no use
(`TInv`), which gives `TokenExchangedOnce`; the cached token came no earlier than it was issued and is due by the time of its
arrival, which gives `MarginAlwaysSound`, for an answer that took any time. `SecretStore`: every copy of a secret, in
the cache, under way or handed out, is no older than its place allows (`SInv`), which gives `StalenessBounded`.
`UpstreamOAuth`: a link that can be used was never used; the stored refresh token is accepted, or lost, or
about to be replaced by a worker (`OInv`), which gives `LinksUsedOnce` and `StoredAlwaysUsable`. `TriesAlwaysBounded` is about
their composition.

**PartsProofs.** One part after the other, each from its own specification.

* `AllowedNotForbidden`: the octet comparisons, masks and embedded addresses of `egress.rs` cover the
  forbidden ranges, for every IPv4 and IPv6 address. `AlwaysGuarded` (`EgressGuarded`): a request under way was checked
  by a client that pins the DNS (`EgressInv`), whatever the answers and redirects.
* `StartRefusedOnlyForUrl` (`RefusedOnlyForUrl`): every row the admin API stored passes each check of a start on its own,
  but for the URL (`StartupInv`), and so does the file once it was accepted; merging adds no other way to fail.
* `ErrorsAlwaysReported` (`ErrorsReported`) and `SuccessAlwaysTrue` (`SuccessTrue`): the tables of `error.rs` and of the client are compared code by code; `BdInv` follows
  one command from its arguments through the layers to its exit code, with what the event of the call had room for.
* `SurfaceAlwaysSound` (`SurfaceSound`): `gateway_uri` and `parse_gateway_uri` are inverse (`RoundTrip`) for ids that
  are not empty and have no "/"; entries are cleared with their connection; and every write-back keeps the prompts of
  one namespace apart, whatever was written since its copies were made, but for the refresh during which a server was
  added (`SfInv`).
* `RowsAlwaysTrue` (`RowsTrue`): the order of RFC 3339 texts is the order of times where SQLite compares them; a bucket
  holds what was posted to it (`UsInv`), and the sum over buckets is the number of calls. Sums over finite sets
  are the fold of the community module `Functions`; its laws (`SumSteps`, `SumSame`, `CountByGroup`) are proved from minimal
  counterexamples (`LeastSet`), since induction schemes are out of the provers' reach. Answers
  under a `LIMIT` are any that the `ORDER BY` allows, for every limit. A captured row is one of a call that the upstream took, an
  MCP tool's error result included (`DefInv`).
* `AnswersAlwaysWhole` (`AnswersWhole`): `RcInv` says of the cache that its newest entry came on top of one that was not full, and
  that an entry is missing only if it expired or newer ones filled the cache; of a reader, that what it has
  read is the beginning of its own text up to its offset; of a batch, that the items taken out are the largest, no
  more than needed, and in the cache; of a flag, that it covers what was scanned while the defense was on. Its proof found the guard of `EndBatch` swallowed by an implication,
  which is now a conjunct of its own.

Only model-checked: liveness under fairness (`CallsFinish`, `LoopEnds`, `EventuallyFresh`, `RequestsAnswered`), which is out of the
prover's reach; `PlacedOnce`, which takes a URL apart that was built by a recursion over the arguments; and the other parts of
`PublishedFaithful` (`RefsInlined`, `ProjectionSame`, `SignatureSound`, `RenderComplete`): what they
say of a document is computed by recursive operators over trees, in modules the SMT backend cannot be used with, and for
every tree it would need an induction over data.

## 5. What the code does otherwise than the repository says

`StartAgain` checks what the header of `store/config_merge.rs` says of a start. A `PUT` of an
OAuth server that leaves out `auth` keeps the stored section but is checked without it, so that the
URL can become plain `http`; the row is stored, and the next start refuses the configuration.
`RefusedOnlyForUrl`, in `Library`, says that this is the only way.

Formulas that the models violate, kept beside them for a reader but in no run:

| Formula | What happens |
|---|---|
| `LimitRegistry!NeverOvercharged`, with reloads | A call fails after an admin write has copied the counters: the refund goes to the replaced registry and the key stays charged until the next restart (`docs/architecture/architecture.md:94`). |
| `LimitRegistry!DailyQuotaEnforced` | A call that waits over midnight is counted on the day before, which rolls the counter back and forgets today's calls (`limits/registry.rs:210`). |
| `RetryLoop!AttemptEnds` | The attempt timeout ends with the headers; a body that never ends keeps call, lease and permit (`proxy/retry.rs:201`). |
| `McpRegistry!UpdateSticks` | A refresh that began before an admin update writes its copy of the entry back after it (`http/lifecycle.rs:103`). |
| `UpstreamOAuth!RevokeFinal` | A callback that has taken its link, or a refresh under way, stores credentials after the revocation (comments of `clear_credentials` and `discard_server`). |
| `Invocation!ToolErrorKept` | A server connected between two looks at the registry: its error result goes out as a success (`proxy/post.rs:118`). |

Others, with their lines, are notes in the hazard list: a key that cools while leased forgets its
lease count; a cooldown marked in the old pool between carry and install is lost with that pool; retention purges the rows `max_calls` is restored from; a 429 or 5xx that is not retried
does not cool the key; the drift check can quarantine the tools an administrator is just introducing;
an upstream's limit holds per registry, and a reload creates a new semaphore while the old one's permits are out
(`docs/architecture/architecture.md:102`). Where a property had to be weaker than a document, its comment or the hazard says so:

* `docs/architecture/error-model.md:129-131` and `mcp/error.rs:9` give `-32602`, `-32603` and a code for an exhausted daily
  quota; a `tools/call` answers all of them as tool results (`AsResult`).
* `tools call` and `admin invoke` exit with 0 when the tool's own result is an error (`cli/tools.rs:139-152`,
  `cli/admin/run.rs:65-84`).
* Error results and redirects are captured as defaults (`docs/admin/admin-console.md:90`: "on success").
* Of operations `a`, `a` and `a_2` two get one segment (`docs/runtime/api-discovery.md:185`); references in a circle are cut
  without a mark (`:186`).
* Values are put into paths and queries unencoded (`proxy/retry.rs:372-394`).
* A server id may contain a "/", and its resources then cannot be read under the URIs that are listed.

## 6. Not modelled

Transport libraries (`rmcp`, `reqwest`, `axum`), SQL and migrations, YAML parsing, message texts,
logging and metrics export, the patterns of the content scan, the web console. Several upstreams of
one kind in `LimitRegistry` and `KeyPool`: their counters and semaphores are separate entries of the
same maps. The width of counters (`u64`) and of `Instant`. Weights of the weighted strategy, beyond
the set of keys a draw may return. The failure counters of an MCP server's health.

## 7. What is left

Every safety property of the runs is proved but for the parts of `PublishedFaithful` that recurse over documents or
arguments. To prove these, `resolve_schema`, `project_node`, `Accepts`, `md_value` and `Leaves` would have to be recursive functions over documents by
height, with their existence shown as that of sums is in `PartsProofs`. Liveness stays with TLC.
