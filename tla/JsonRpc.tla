------------------------------- MODULE JsonRpc -------------------------------
(***************************************************************************)
(* What handle_json_rpc_value and handle_json_rpc_request                  *)
(* (src/src/mcp/server.rs) decide about one JSON-RPC message before any    *)
(* provider is called.                                                     *)
(*                                                                         *)
(* A message is a record                                                   *)
(*   object   whether the JSON value is an object                          *)
(*   id       None, Bad (present, but no string or 64-bit integer), or the *)
(*            id's value                                                   *)
(*   form     how it decodes: "call", "response" or "garbage"              *)
(*   method   its method, "" when blank after trimming                     *)
(*   shape    whether the params fit the method's schema                   *)
(*   ok       whether the dispatched method succeeds, providers permitting *)
(*   calls    how many provider calls the handler makes one after another  *)
(***************************************************************************)
EXTENDS Integers, Sequences

CONSTANTS None, Bad

ASSUME IdsAssumption == None # Bad

\* Mutant of HasValidId: the id is not looked at before decoding, and the
\* untagged decoder takes a call with an unusable id for a notification.
AnyId(m) == TRUE

\* is_valid_request_id, which an absent id passes.
HasValidId(m) == m.id # Bad

\* The id is usable as the id of a response.
ReplyId(m) == IF ~ m.object \/ m.id = Bad THEN None ELSE m.id

\* A notification is a call without an id; one decoded past a bad id is too.
IsNotification(m) == m.form = "call" /\ m.id \in {None, Bad}

\* What becomes of a message:
\*   "reject"    answered with -32600 or -32602 and not executed
\*   "ignore"    a notification without a method, dropped in silence
\*   "dispatch"  handed to handle_json_rpc_request
Disposition(m) ==
    IF ~ m.object \/ ~ HasValidId(m) \/ m.form # "call" THEN "reject"
    ELSE IF IsNotification(m)
         THEN IF m.method = "" THEN "ignore" ELSE "dispatch"
         ELSE IF ~ m.shape \/ m.method = "" THEN "reject" ELSE "dispatch"

\* Whether the message is answered.
RepliesTo(m) ==
    \/ Disposition(m) = "reject"
    \/ Disposition(m) = "dispatch" /\ ~ IsNotification(m)

\* initialize without an acceptable protocolVersion returns before the audit.
SkipsAudit(m) == m.method = "initialize" /\ ~ m.ok

\* A notification's params are not checked against the schema before dispatch;
\* these two handlers decode them again and reject them themselves.
ReadsParams(m) == m.method \in {"tools/call", "resources/read"}

\* Whether the dispatched method gets past its own checks.
Succeeds(m) == m.ok /\ (ReadsParams(m) => m.shape)

ProviderCalls(m) == IF ReadsParams(m) /\ Succeeds(m) THEN m.calls ELSE 0

=============================================================================
