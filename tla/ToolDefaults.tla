---------------------------- MODULE ToolDefaults ----------------------------
(* Default arguments of tools and the administrator's debug calls              *)
(* (admin/defaults.rs, store/tool_defaults.rs).  A debug call reads the stored *)
(* arguments, waits for the tool and may then save what it used.               *)
EXTENDS Integers

CONSTANTS
    DefTools,         \* wire names
    DefMcp,           \* those of MCP tools; the others are HTTP tools
    DefArgs,          \* argument objects; Empty is {}
    Empty,
    Debuggers,        \* debug calls in flight
    MaxDebug          \* bound: debug calls

ASSUME EmptyAssumption == Empty \in DefArgs

VARIABLES
    defRow,           \* tool_defaults: tool -> [set, args, source]
    debug,            \* what each debug call is doing
    debugCount,
    answers           \* history: <<tool, args, what the upstream made of the call>>
defVars == <<defRow, debug, debugCount, answers>>

NoRow == [set |-> FALSE, args |-> Empty, source |-> "none"]
NoDebug == [pc |-> "idle", tool |-> "none", args |-> Empty, save |-> FALSE]
Bodies == {"none", "null", "invalid"} \cup {"object"}

(* An empty or null body is no body; anything else must be an object.          *)
parse_object_body(body) ==
    CASE body \in {"none", "null"} -> "absent" [] body = "object" -> "object" [] OTHER -> "refused"

set_tool_default(t, args, source) ==
    defRow' = [defRow EXCEPT ![t] = [set |-> TRUE, args |-> args, source |-> source]]
get_tool_default(t) == IF defRow[t].set THEN defRow[t].args ELSE Empty
delete_tool_default(t) == defRow[t].set /\ defRow' = [defRow EXCEPT ![t] = NoRow]

put_default(t) ==
    /\ \E body \in Bodies, args \in DefArgs :
         parse_object_body(body) = "object" /\ set_tool_default(t, args, "manual")
    /\ UNCHANGED <<debug, debugCount, answers>>
delete_default(t) == delete_tool_default(t) /\ UNCHANGED <<debug, debugCount, answers>>

(* invoke_tool_debug, up to the call: a body with members wins, then the       *)
(* stored default when the caller asks for it, then {}.                        *)
chosen_args(body, args, use_defaults, t) ==
    IF parse_object_body(body) = "object" /\ args # Empty THEN args
    ELSE IF use_defaults THEN get_tool_default(t) ELSE Empty
invoke_tool_debug(d, t) ==
    /\ debug[d].pc = "idle" /\ debugCount < MaxDebug /\ debugCount' = debugCount + 1
    /\ \E body \in Bodies, args \in DefArgs, use_defaults, save \in BOOLEAN :
         /\ parse_object_body(body) # "refused"
         /\ debug' = [debug EXCEPT ![d] =
               [pc |-> "called", tool |-> t, save |-> save,
                args |-> chosen_args(body, args, use_defaults, t)]]
    /\ UNCHANGED <<defRow, answers>>

(* Mutant: the arguments are saved whatever the tool said of them.             *)
capture_any(d, status) == debug[d].save
capture(d, status) == debug[d].save /\ status < 400

(* What an upstream makes of a call, and the status of the invoke that reports *)
(* it: an HTTP tool's own, and 200 for any result of an MCP tool, is_error too.*)
DebugOutcomes(t) == IF t \in DefMcp THEN {"done", "is_error"} ELSE {"done", "redirected", "refused"}
invoke_status(outcome) ==
    CASE outcome \in {"done", "is_error"} -> 200 [] outcome = "redirected" -> 302 [] outcome = "refused" -> 422

(* The tool's answer; what counts as captured is decided by the status alone.  *)
DebugAnswered(d) ==
    /\ debug[d].pc = "called"
    /\ \E outcome \in DebugOutcomes(debug[d].tool) :
         LET me == debug[d]
         IN  /\ answers' = answers \cup {<<me.tool, me.args, outcome>>}
             /\ IF capture(d, invoke_status(outcome)) THEN set_tool_default(me.tool, me.args, "captured")
                ELSE UNCHANGED defRow
    /\ debug' = [debug EXCEPT ![d] = NoDebug] /\ UNCHANGED debugCount
(* No answer: the invoke ends in an error and the handler returns with it.     *)
DebugFailed(d) ==
    /\ debug[d].pc = "called"
    /\ debug' = [debug EXCEPT ![d] = NoDebug] /\ UNCHANGED <<defRow, debugCount, answers>>

DefInit ==
    /\ defRow = [t \in DefTools |-> NoRow] /\ debug = [d \in Debuggers |-> NoDebug]
    /\ debugCount = 0 /\ answers = {}
DefNext ==
    \/ \E t \in DefTools : \/ put_default(t) \/ delete_default(t)
                           \/ \E d \in Debuggers : invoke_tool_debug(d, t)
    \/ \E d \in Debuggers : DebugAnswered(d) \/ DebugFailed(d)

(* A default that is marked as captured is the arguments of a call of the same *)
(* tool which its upstream took: an HTTP tool answered without refusing them,  *)
(* an MCP tool gave a result.  That holds however debug calls, manual writes   *)
(* and deletions interleave while the tool is called (invoke_tool_debug).      *)
(* It is less than docs/admin/admin-console.md:90 says, "on success": an MCP   *)
(* tool's error result has status 200 as well, and a redirect is below 400.    *)
CapturedTaken ==
    \A t \in DefTools : defRow[t].source = "captured" =>
      \E outcome \in DebugOutcomes(t) \ {"refused"} : <<t, defRow[t].args, outcome>> \in answers
=============================================================================
