--------------------------- MODULE ClientBoundary ---------------------------
(* The way of an answer from the gateway's error types to a client: the error *)
(* codes and what each boundary makes of them (error.rs and the error.rs of   *)
(* every module), the layers around the handlers (http/mod.rs, boundary.rs,   *)
(* request_id.rs, error.rs, admin/auth.rs), the capture of call arguments     *)
(* (observability/capture.rs), and the command line client (cli/).            *)
EXTENDS Integers, Sequences, FiniteSets

CONSTANTS
    BdRequestIds,     \* X-Request-Id values: <<>> without, else "c", " " and "tab"
    MAX_CLIENT_REQUEST_ID_LEN,
    BdArgs,           \* JSON arguments as sequences of tokens
    CaptureMax,       \* observability.capture_max_bytes, in tokens
    MaxBdCalls        \* bound: calls of the tool by other clients

VARIABLES
    bdCmd,            \* the running command
    bdReply,          \* the gateway's answer to its request
    bdRow,            \* tool_defaults row of the tool the command names
    bdEvent,          \* newest request event under the tool's name
    bdCalls,
    bdDone,           \* history: the handler did what the request asks
    bdError,          \* history: the AsterlaneError the gateway raised
    bdForm            \* the last failed tools/call of an MCP client
bdVars == <<bdCmd, bdReply, bdRow, bdEvent, bdCalls, bdDone, bdError, bdForm>>

----------------------------------------------------------------------------
(* Error codes are <<category, detail>>, the two halves of as_str.             *)
Details ==
    [config |-> {"invalid_yaml", "unknown_resource", "invalid_regex", "invalid_tool_name"},
     auth |-> {"missing_gateway_key", "invalid_gateway_key", "expired_gateway_key",
               "forbidden_tool", "missing_upstream_secret"},
     catalog |-> {"unknown_tool", "invalid_pagination", "ambiguous_tool_name"},
     store |-> {"migration_failed", "unavailable"},
     proxy |-> {"upstream_timeout", "retry_exhausted", "upstream_error", "connection_failed",
                "egress_blocked"},
     limit |-> {"quota_exceeded", "queue_full", "queue_timeout", "calls_exhausted",
                "daily_calls_exhausted"},
     mcp |-> {"invalid_tool_call", "upstream_mcp_failure", "upstream_unavailable",
              "upstream_auth_required"},
     admin |-> {"unauthorized", "invalid_query", "not_found", "conflict"},
     http |-> {"timeout", "body_too_large"}]
ErrorCode == UNION {{<<c, d>> : d \in Details[c]} : c \in DOMAIN Details}
Codes(c, ds) == {<<c, d>> : d \in ds}
as_str(code) == code
category(code) == code[1]

exit_code(code) ==
    LET c == category(code) IN
    CASE c = "config" -> 2 [] c \in {"auth", "admin"} -> 3 [] c \in {"catalog", "mcp"} -> 4
      [] c = "store" -> 5 [] c = "proxy" -> 6 [] c = "limit" -> 7 [] OTHER -> 1

http_status_for(code) ==
    LET In(c, ds) == code \in Codes(c, ds)
        But(c, ds) == category(code) = c /\ ~In(c, ds)
    IN  CASE category(code) = "config" -> 500
          [] In("auth", {"forbidden_tool"}) \/ In("proxy", {"egress_blocked"}) -> 403
          [] In("auth", {"missing_upstream_secret"}) -> 503
          [] But("auth", {"forbidden_tool", "missing_upstream_secret"}) \/ In("admin", {"unauthorized"}) -> 401
          [] In("catalog", {"unknown_tool"}) \/ In("admin", {"not_found"}) -> 404
          [] In("mcp", {"upstream_mcp_failure", "upstream_auth_required"}) -> 502
          [] In("mcp", {"upstream_unavailable"}) \/ category(code) = "store" -> 503
          [] In("proxy", {"upstream_timeout", "connection_failed"}) -> 504
          [] But("proxy", {"egress_blocked", "upstream_timeout", "connection_failed"}) -> 502
          [] In("limit", {"queue_full", "queue_timeout"}) -> 503
          [] But("limit", {"queue_full", "queue_timeout"}) -> 429
          [] In("admin", {"conflict"}) -> 409
          [] In("http", {"timeout"}) -> 408
          [] In("http", {"body_too_large"}) -> 413
          [] OTHER -> 400

(* AsterlaneError::mcp_error: the form each code is to have at the MCP         *)
(* boundary.  It differs from docs/architecture/error-model.md:131 for a key   *)
(* whose calls of the day are used up, and nothing but tests calls it.         *)
ToolError == [rpc |-> 0]
mcp_error(code) ==
    CASE code = <<"catalog", "unknown_tool">> -> [rpc |-> -32601]
      [] code \in Codes("catalog", {"invalid_pagination", "ambiguous_tool_name"})
                  \cup Codes("mcp", {"invalid_tool_call"}) -> [rpc |-> -32602]
      [] code \in Codes("proxy", Details.proxy) \cup Codes("limit", Details.limit \ {"daily_calls_exhausted"})
                  \cup Codes("mcp", {"upstream_mcp_failure", "upstream_auth_required"}) -> ToolError
      [] OTHER -> [rpc |-> -32603]

(* From<ModuleError> for AsterlaneError: [code, retry], where retry is the     *)
(* Retry-After in seconds, -1 when there is none.                              *)
internal(c, d) == [code |-> <<c, d>>, retry |-> -1]
internal_with_retry_after(c, d, r) == [code |-> <<c, d>>, retry |-> r]
SecretErrors == {internal("auth", "missing_upstream_secret")}
KeyPoolErrors == {internal("proxy", "retry_exhausted"), internal("config", "invalid_yaml")}
LimitErrors ==
    {internal("limit", d) : d \in {"queue_full", "queue_timeout", "calls_exhausted"}}
    \cup {internal_with_retry_after("limit", "quota_exceeded", r) : r \in {-1, 0, 5}}
    \cup {internal_with_retry_after("limit", "daily_calls_exhausted", r) : r \in {0, 5}}
StoreErrors == {internal("store", "migration_failed"), internal("store", "unavailable")}
PolicyErrors == {internal("config", "invalid_regex")}
CatalogErrors ==
    {internal("config", d) : d \in {"invalid_tool_name", "invalid_regex", "invalid_yaml"}}
    \cup {internal("catalog", "ambiguous_tool_name")}
McpErrors ==
    {internal("catalog", "unknown_tool"), internal("mcp", "invalid_tool_call"),
     internal("mcp", "upstream_mcp_failure"), internal("mcp", "upstream_auth_required"),
     internal("proxy", "egress_blocked"), internal("admin", "not_found")} \cup SecretErrors
ProxyErrors ==
    {internal("proxy", d) : d \in Details.proxy}
    \cup {internal("catalog", "unknown_tool"), internal("config", "unknown_resource"),
          internal("auth", "forbidden_tool"), internal("mcp", "invalid_tool_call")}
    \cup SecretErrors \cup KeyPoolErrors \cup LimitErrors \cup PolicyErrors \cup McpErrors
(* Errors the handlers raise themselves.                                       *)
HandlerErrors ==
    {internal("auth", d) : d \in {"missing_gateway_key", "invalid_gateway_key", "expired_gateway_key"}}
    \cup {internal("admin", d) : d \in {"invalid_query", "not_found", "conflict"}}
    \cup {internal("catalog", "invalid_pagination"), internal("mcp", "upstream_unavailable")}
AsterlaneErrors == ProxyErrors \cup CatalogErrors \cup StoreErrors \cup HandlerErrors

(* AsterlaneToolServer::call_tool for a tool of the catalog: the session's key *)
(* is looked up, then the name is resolved, then the tool is called; whatever  *)
(* the call itself says is a tool result.                                      *)
KeyErrors == {internal("auth", "invalid_gateway_key"), internal("auth", "missing_gateway_key")}
ResolveErrors == CatalogErrors \cup {internal("catalog", "unknown_tool")}
StageErrors == [key |-> KeyErrors, resolve |-> ResolveErrors, call |-> ProxyErrors]
\* Mutant: a name that resolves to nothing is an internal error like any other.
call_tool_form_flat(stage, e) ==
    IF stage = "key" THEN [rpc |-> -32600] ELSE IF stage = "call" THEN ToolError ELSE [rpc |-> -32603]
call_tool_form(stage, e) ==
    CASE stage = "key" -> [rpc |-> -32600]
      [] stage = "call" \/ (stage = "resolve" /\ e.code = <<"catalog", "ambiguous_tool_name">>) -> ToolError
      [] stage = "resolve" /\ e.code = <<"catalog", "unknown_tool">> -> [rpc |-> -32601]
      [] OTHER -> [rpc |-> -32603]

----------------------------------------------------------------------------
(* The layers of build_app_with_ct, from the outside in; admin/auth.rs is a    *)
(* layer of the admin router alone.                                            *)
(* Mutant: the guards are put around the layer that knows the request's id.    *)
Layers_guards_outside ==
    <<"headers", "too_large", "body_limit", "trace", "request_id", "timeout", "admin_auth", "handler">>
Layers == <<"request_id", "trace", "headers", "too_large", "body_limit", "timeout", "admin_auth", "handler">>
Position(l) == CHOOSE i \in 1 .. Len(Layers) : Layers[i] = l
Within(inner, outer) == Position(outer) < Position(inner)

(* Blanks and tabs around it go, then tabs within, then what is too long; a    *)
(* header value holds no other control character.                              *)
trim(s) ==
    LET solid == {i \in 1 .. Len(s) : s[i] = "c"}
    IN  IF solid = {} THEN <<>>
        ELSE SubSeq(s, CHOOSE i \in solid : \A j \in solid : i <= j,
                       CHOOSE i \in solid : \A j \in solid : j <= i)
sanitize_client_request_id(raw) ==
    LET kept == SelectSeq(trim(raw), LAMBDA c : c # "tab")
    IN  SubSeq(kept, 1, IF Len(kept) < MAX_CLIENT_REQUEST_ID_LEN THEN Len(kept) ELSE MAX_CLIENT_REQUEST_ID_LEN)
Generated == <<"generated">>
attach_request_id(raw) ==
    LET own == sanitize_client_request_id(raw) IN IF own = <<>> THEN Generated ELSE own

(* IntoResponse for AsterlaneError: the id comes from the task that the        *)
(* request_id layer set up, if the error is made inside it.                    *)
error_request_id(layer, raw) == IF Within(layer, "request_id") THEN attach_request_id(raw) ELSE <<"fresh">>
Header(l, layer) == Within(layer, l)
max1(n) == IF n < 1 THEN 1 ELSE n
into_response(e, layer, raw) ==
    [status |-> http_status_for(e.code), body |-> "error", code |-> as_str(e.code),
     id |-> error_request_id(layer, raw), headers |-> Header("headers", layer),
     retry_after |-> IF e.retry = -1 THEN 0 ELSE max1(e.retry), data |-> "none"]
(* Answers that no AsterlaneError made: a handler's own, or axum's to a path,  *)
(* method or body it cannot match.                                             *)
plain_response(status, body, data) ==
    [status |-> status, body |-> body, code |-> <<>>, id |-> <<>>, headers |-> Header("headers", "handler"),
     retry_after |-> 0, data |-> data]
NoReply == [status |-> 0, body |-> "none", code |-> <<>>, id |-> <<>>, headers |-> FALSE,
            retry_after |-> 0, data |-> "none"]

----------------------------------------------------------------------------
(* Argument texts are sequences of tokens: braces, words "w", credentials "k"  *)
(* that redaction shortens to "m", and header-like members "h" that it         *)
(* replaces by "x", name, quotes and all.                                      *)
truncate_capture(s) == SubSeq(s, 1, IF Len(s) < CaptureMax THEN Len(s) ELSE CaptureMax)
redact_text(s) == [i \in 1 .. Len(s) |-> CASE s[i] = "k" -> "m" [] s[i] = "h" -> "x" [] OTHER -> s[i]]
capture_text(s) == redact_text(truncate_capture(s))

Count(s, n, t) == Cardinality({i \in 1 .. n : s[i] = t})
Depth(s, n) == Count(s, n, "{") - Count(s, n, "}")
is_object(s) ==
    /\ Len(s) > 0 /\ s[1] = "{" /\ \A i \in 1 .. Len(s) : s[i] # "x"
    /\ \A n \in 1 .. Len(s) : (Depth(s, n) = 0) <=> (n = Len(s))

(* What is captured is the text of a JSON value (capture_args): one that begins *)
(* with a brace is an object.                                                   *)
ASSUME CaptureAssumption ==
    /\ CaptureMax \in Nat
    /\ \A args \in BdArgs : args \in Seq(STRING) \ {<<>>} /\ (args[1] = "{" => is_object(args))

NoEvent == [there |-> FALSE, whole |-> <<>>, captured |-> FALSE, text |-> <<>>]
(* parse_last_event_args: an event, with captured arguments, that are JSON,    *)
(* and an object.                                                              *)
parse_last_event_args(e) == e.there /\ e.captured /\ is_object(e.text)

----------------------------------------------------------------------------
(* Subcommands by the body they send: "none" or one the command makes itself,  *)
(* a "document" or "args" it asks for, args the parser asks for ("must"), and  *)
(* args the user "may" give.                                                   *)
ResourcesCommand == [list |-> "none", create |-> "document", update |-> "document", rm |-> "none"]
ProxyKeysCommand ==
    [list |-> "none", issue |-> "none", revoke_token |-> "none", create |-> "document",
     update |-> "document", rm |-> "none"]
McpServersCommand ==
    [list |-> "none", get |-> "none", probe |-> "none", authorize |-> "none", deauthorize |-> "none",
     create |-> "document", update |-> "document", rm |-> "none"]
MetadataCommand == [list |-> "none", get |-> "none", set |-> "none", rm |-> "none"]
DefaultsCommand ==
    [list |-> "none", get |-> "none", rm |-> "none", set |-> "args", from_last_event |-> "none"]
AdminCommand ==
    [stats |-> "none", key_pools |-> "none", presets |-> "none", validate |-> "none", tools |-> "none",
     events |-> "none", security_events |-> "none", usage |-> "none", invoke |-> "may"]
ToolsCommand ==
    [list |-> "none", search |-> "none", get |-> "none", call |-> "may", call_batch |-> "must"]
Groups == <<ResourcesCommand, ProxyKeysCommand, McpServersCommand, MetadataCommand, DefaultsCommand,
            AdminCommand, ToolsCommand>>
ToolsGroup == Len(Groups)
(* Search, get and call-batch read their answer once more, and so does the     *)
(* admin's list of tools, with a filter.  Call and invoke print what they get. *)
OpOf(g, sub) ==
    CASE sub = "from_last_event" -> "from_last"
      [] sub = "tools" -> "filter"
      [] sub \in {"call", "invoke"} -> sub
      [] g = ToolsGroup /\ sub \in {"search", "get", "call_batch"} -> "meta"
      [] OTHER -> "request"
NoCommand == [pc |-> "idle", op |-> "request", id |-> <<>>, admin |-> FALSE, exit |-> 0,
              local |-> FALSE, args |-> NoEvent]

(* clap: the two sources exclude each other, and call-batch needs one.         *)
Parsed(body, json, file) == body # "none" => ~(json /\ file) /\ (body = "must" => json \/ file)
(* load_object_document and load_json_object: one source, that holds an object. *)
load_object_document(json, file, content) == (json # file) /\ content = "object"
load_json_object(json, file, content) == (json \/ file) /\ content = "object"
Loads(body, json, file, content) ==
    CASE body = "document" -> load_object_document(json, file, content)
      [] body \in {"args", "must"} -> load_json_object(json, file, content)
      [] body = "may" -> (~json /\ ~file) \/ load_json_object(json, file, content)
      [] OTHER -> TRUE
EndsHere(cmd, exit) == [cmd EXCEPT !.pc = "exited", !.exit = exit, !.local = TRUE]
LocalError(cmd) == EndsHere(cmd, 1)
UsageError(cmd) == EndsHere(cmd, 2)
(* The flag wins over the environment; an unknown name is refused.             *)
resolve_cli_format(flag, env) == (IF flag = "absent" THEN env ELSE flag) # "xml"
(* ApiClient::new: the credential comes from the environment and is not blank. *)
ApiClient(token) == token = "set"

(* The parser, then run_admin or run_tools: format, credential, body; nothing  *)
(* is sent when one is wrong.                                                  *)
RunCommand ==
    /\ bdCmd.pc = "idle"
    /\ \E g \in 1 .. ToolsGroup : \E sub \in DOMAIN Groups[g] :
       \E raw \in BdRequestIds, flag, env \in {"absent", "json", "xml"}, token \in {"absent", "blank", "set"},
          json, file \in BOOLEAN, content \in {"object", "array", "invalid"} :
         LET cmd == [NoCommand EXCEPT !.op = OpOf(g, sub), !.id = raw, !.admin = (g # ToolsGroup)] IN
         bdCmd' = IF ~Parsed(Groups[g][sub], json, file) THEN UsageError(cmd)
                  ELSE IF resolve_cli_format(flag, env) /\ ApiClient(token) /\ Loads(Groups[g][sub], json, file, content)
                  THEN [cmd EXCEPT !.pc = IF cmd.op = "from_last" THEN "events" ELSE "sent"]
                  ELSE LocalError(cmd)
    /\ UNCHANGED <<bdReply, bdRow, bdEvent, bdCalls, bdDone, bdError, bdForm>>

(* What the layers and the handler make of a request; done tells whether the   *)
(* handler did what it asks, raised the error behind the answer.               *)
ReplyWith(reply, done, raised) == bdReply' = reply /\ bdDone' = done /\ bdError' = raised
NoError == <<>>
Refused(layer, c, d) ==
    ReplyWith(into_response(internal(c, d), layer, bdCmd.id), FALSE, <<c, d>>)
(* A request that times out is dropped before or after its effect.             *)
TimedOut == \E done \in BOOLEAN :
    ReplyWith(into_response(internal("http", "timeout"), "timeout", bdCmd.id), done, <<"http", "timeout">>)
Failed == \E e \in AsterlaneErrors :
    ReplyWith(into_response(e, "handler", bdCmd.id), FALSE, e.code)
(* axum's answers carry no error object.                                       *)
Unmatched == \E s \in {404, 405, 415, 422}, b \in {"empty", "text"} :
    ReplyWith(plain_response(s, b, "none"), FALSE, NoError)
Succeeded ==
    \E b \in {"empty", "json", "text"},
       data \in IF bdCmd.op = "meta" THEN {"results", "is_error", "cut"} ELSE {"none"} :
        ReplyWith(plain_response(200, b, data), data # "is_error", NoError)
(* A tool was called and it, or its upstream, failed.  An error result of an   *)
(* MCP tool has status 200; an HTTP tool's answer is handed on with its status *)
(* and body, which may hold an error code of the upstream's own; admin invoke  *)
(* wraps either in a 200.                                                      *)
UpstreamCodes == {<<"limit", "of_upstream">>, <<"upstream", "of_upstream">>}
ToolFailed ==
    \/ /\ bdCmd.op \in {"call", "invoke"}
       /\ ReplyWith(plain_response(200, "json", "is_error"), FALSE, NoError)
    \/ /\ bdCmd.op = "invoke" /\ ReplyWith(plain_response(200, "json", "refused"), FALSE, NoError)
    \/ /\ bdCmd.op = "call"
       /\ \E s \in {302, 422, 503} :
            \/ \E b \in {"empty", "json", "text"} : ReplyWith(plain_response(s, b, "refused"), FALSE, NoError)
            \/ \E c \in UpstreamCodes :
                 ReplyWith([plain_response(s, "coded", "refused") EXCEPT !.code = c], FALSE, NoError)
Serve ==
    \/ Refused("too_large", "http", "body_too_large")
    \/ bdCmd.admin /\ Refused("admin_auth", "admin", "unauthorized")
    \/ TimedOut \/ Failed \/ Unmatched \/ Succeeded \/ ToolFailed

HandleRequest ==
    /\ bdCmd.pc \in {"sent", "put"}
    /\ Serve
    /\ bdRow' = IF bdCmd.pc = "put" /\ bdDone' THEN bdCmd.args ELSE bdRow
    /\ bdCmd' = [bdCmd EXCEPT !.pc = "answered"]
    /\ UNCHANGED <<bdEvent, bdCalls, bdForm>>

(* The 120 s of the client, or the connection, end first; the gateway goes on. *)
GiveUp ==
    /\ bdCmd.pc \in {"sent", "events", "put", "answered"}
    /\ bdCmd' = LocalError(bdCmd)
    /\ UNCHANGED <<bdReply, bdRow, bdEvent, bdCalls, bdDone, bdError, bdForm>>

(* last_event_args: GET /admin/events?tool_name=&limit=1.                      *)
ReadEvents ==
    /\ bdCmd.pc = "events"
    /\ \/ /\ Serve /\ bdReply'.status # 200
          /\ bdCmd' = [bdCmd EXCEPT !.pc = "answered"]
       \/ /\ bdCmd' = IF parse_last_event_args(bdEvent) THEN [bdCmd EXCEPT !.pc = "put", !.args = bdEvent]
                      ELSE LocalError(bdCmd)
          /\ UNCHANGED <<bdReply, bdDone, bdError>>
    /\ UNCHANGED <<bdRow, bdEvent, bdCalls, bdForm>>

(* Another client calls the tool; its event becomes the newest one.  Only a    *)
(* from-last command looks at events, so what came before it may come now.     *)
OtherCall ==
    /\ bdCmd.pc \in {"events", "put"}
    /\ bdCalls < MaxBdCalls /\ bdCalls' = bdCalls + 1
    /\ \E args \in BdArgs, capture_payloads \in BOOLEAN :
         bdEvent' = [there |-> TRUE, whole |-> args, captured |-> capture_payloads,
                     text |-> IF capture_payloads THEN capture_text(args) ELSE <<>>]
    /\ UNCHANGED <<bdCmd, bdReply, bdRow, bdDone, bdError, bdForm>>
(* Retention deletes it.                                                       *)
PurgeEvent ==
    /\ bdCmd.pc \in {"events", "put"}
    /\ bdEvent.there /\ bdEvent' = NoEvent
    /\ UNCHANGED <<bdCmd, bdReply, bdRow, bdCalls, bdDone, bdError, bdForm>>

----------------------------------------------------------------------------
(* parse_body: what the client takes for the answer's error code; a body that  *)
(* is no JSON becomes internal.unexpected, an empty one has no code.           *)
parse_body(r) ==
    CASE r.body \in {"error", "coded"} -> r.code
      [] r.body = "text" /\ r.status >= 400 -> <<"internal", "unexpected">>
      [] OTHER -> <<>>
exit_code_for_code(code) ==
    IF code = <<>> THEN 1
    ELSE CASE code[1] = "config" -> 2 [] code[1] \in {"auth", "admin"} -> 3
           [] code[1] \in {"catalog", "mcp"} -> 4 [] code[1] = "store" -> 5
           [] code[1] = "proxy" -> 6 [] code[1] = "limit" -> 7 [] OTHER -> 1
CliExit(r) == exit_code_for_code(parse_body(r))

(* Mutant: the array is looked for, whatever the result says of itself.        *)
normalize_any_result(r) == r.body = "json" /\ r.data # "cut"
(* normalize_meta_result: the text of the first content, no error, an array.   *)
normalize_meta_result(r) == r.body = "json" /\ r.data = "results"

ReadAnswer ==
    /\ bdCmd.pc = "answered"
    /\ bdCmd' = [bdCmd EXCEPT !.pc = "exited", !.exit =
         IF bdReply.status \notin 200 .. 299 THEN CliExit(bdReply)
         ELSE IF bdCmd.op = "meta" /\ ~normalize_meta_result(bdReply) THEN 1 ELSE 0]
    /\ UNCHANGED <<bdReply, bdRow, bdEvent, bdCalls, bdDone, bdError, bdForm>>

(* filter_tools: whether the pattern is one is found out after the request.    *)
FilterFails ==
    /\ bdCmd.pc = "answered" /\ bdCmd.op = "filter" /\ bdReply.status \in 200 .. 299
    /\ bdCmd' = LocalError(bdCmd)
    /\ UNCHANGED <<bdReply, bdRow, bdEvent, bdCalls, bdDone, bdError, bdForm>>

(* An MCP client's tools/call of a tool of the catalog fails, in any stage.    *)
McpCallFails ==
    /\ bdCmd.pc = "idle"
    /\ \E stage \in {"key", "resolve", "call"} : \E e \in StageErrors[stage] :
         bdForm' = [stage |-> stage, code |-> e.code, form |-> call_tool_form(stage, e)]
    /\ UNCHANGED <<bdCmd, bdReply, bdRow, bdEvent, bdCalls, bdDone, bdError>>

BdInit ==
    /\ bdCmd = NoCommand /\ bdReply = NoReply /\ bdRow = NoEvent /\ bdEvent = NoEvent
    /\ bdCalls = 0 /\ bdDone = FALSE /\ bdError = NoError
    /\ bdForm = [stage |-> "none", code |-> NoError, form |-> ToolError]
(* A command and an MCP client share nothing, so a behaviour follows one.      *)
BdNext ==
    \/ /\ bdForm.stage = "none"
       /\ \/ RunCommand \/ HandleRequest \/ GiveUp \/ ReadEvents \/ OtherCall \/ PurgeEvent
          \/ ReadAnswer \/ FilterFails
    \/ bdCmd = NoCommand /\ bdCalls = 0 /\ McpCallFails
BdSpec == BdInit /\ [][BdNext]_bdVars

----------------------------------------------------------------------------
(* Every error the gateway answers with carries the id of its request, as the  *)
(* client sent it or as the outermost layer made it, and the security headers, *)
(* whichever layer refused it (attach_request_id, with_global_guards).         *)
ErrorsTraceable ==
    bdReply.body = "error" =>
        /\ bdReply.id = attach_request_id(bdCmd.id) /\ bdReply.headers
        /\ bdReply.status >= 400 /\ (bdReply.retry_after > 0 => bdReply.status = 429)

(* The exit code of a command that the gateway refused is the exit code of the *)
(* error it raised, after status, JSON body and the client's own table         *)
(* (http_response, parse_body, exit_code_for_code).                            *)
ExitNamesCause ==
    (bdCmd.pc = "exited" /\ ~bdCmd.local /\ bdError # NoError) => bdCmd.exit = exit_code(bdError)

(* A command that exits with 0 did what it was asked to, and a meta tool's     *)
(* result holds no error (normalize_meta_result).  Only a tool's call may have *)
(* failed, and then the printed answer says so: an error result under either   *)
(* command, an HTTP upstream's refusal under admin invoke, which shows its     *)
(* status.  A refusal that tools call gets is never taken for success          *)
(* (cli/tools.rs, cli/admin/run.rs, ApiClient::send).                          *)
ToldInAnswer(op, data) == (op \in {"call", "invoke"} /\ data = "is_error") \/ (op = "invoke" /\ data = "refused")
SuccessMeansDone ==
    (bdCmd.pc = "exited" /\ bdCmd.exit = 0) => bdDone \/ ToldInAnswer(bdCmd.op, bdReply.data)

(* Defaults taken from an event are the arguments of one whole call, at most   *)
(* with its credentials masked: never what the capture limit left of them      *)
(* (capture_text, parse_last_event_args).                                      *)
DefaultsWhole == bdRow.there => bdRow.text = redact_text(bdRow.whole)

(* What the tables of mcp_error and of error-model.md:129-130 make a protocol  *)
(* error and a tools/call answers as a tool result.                            *)
AsResult ==
    Codes("catalog", {"ambiguous_tool_name", "unknown_tool"}) \cup Codes("mcp", {"invalid_tool_call"})
    \cup Codes("config", {"unknown_resource", "invalid_yaml", "invalid_regex"})
    \cup Codes("auth", {"forbidden_tool", "missing_upstream_secret"})
    \cup Codes("limit", {"daily_calls_exhausted"}) \cup Codes("admin", {"not_found"})
(* A tools/call that ends in a protocol error never reached the tool: its key  *)
(* was refused, or its name with the code mcp_error gives.  Every upstream and *)
(* limit error is a tool result, as that table says; so are the errors of      *)
(* AsResult and no others, against it (call_tool, call_regular_tool).          *)
ProtocolErrorsRight ==
    LET f == bdForm IN
    f.stage # "none" =>
      /\ f.form # ToolError =>
           \/ f.stage = "key" /\ f.form = [rpc |-> -32600]
           \/ f.stage = "resolve" /\ f.form = mcp_error(f.code)
      /\ f.form = ToolError => mcp_error(f.code) = ToolError \/ f.code \in AsResult

(* An error is reported for what it is, whichever layer, handler or table it   *)
(* passes on its way to the client (http/mod.rs, error.rs, mcp/server.rs and   *)
(* the command line client).                                                   *)
ErrorsReported == ErrorsTraceable /\ ExitNamesCause /\ ProtocolErrorsRight
(* What the client reports or saves as done was done (cli/).                   *)
SuccessTrue == SuccessMeansDone /\ DefaultsWhole
=============================================================================
