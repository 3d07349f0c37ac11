------------------------------ MODULE Gateway ------------------------------
(***************************************************************************)
(* How a call on a client handle reaches an actor and how its answer comes *)
(* back: the handles of client.ts and actor-handle.ts, the three client    *)
(* drivers (HTTP, in-process, and the test driver that calls the           *)
(* in-process one over HTTP), the endpoints and the authentication of the  *)
(* manager, and the router of the actor.                                   *)
(*                                                                         *)
(* Every stage that awaits is an action of its own, so other calls create  *)
(* actors and resolve handles between two stages of a call.  An actor is   *)
(* identified by its name (one key per name, and the identifier is a       *)
(* function of both).  Payloads, headers and encodings are abstracted to   *)
(* what a stage accepts or refuses.  The endpoints of the inspector are    *)
(* not modelled.                                                           *)
(***************************************************************************)
EXTENDS Naturals, FiniteSets, TLC

CONSTANTS
  Requests,     \* calls a run makes
  Handles,      \* handles of the clients
  Names,        \* actor names used in queries
  Registered,   \* names the registry knows
  WithOnAuth,   \* registered actors that define onAuth
  Via           \* the client driver of each handle

ASSUME GatewayAssumption ==
  /\ WithOnAuth \subseteq Registered /\ Registered \subseteq Names
  /\ Via \in [Handles -> {"http", "inline", "test"}]

VARIABLES
  creator,   \* creator[n]: "nobody", or the request that created actor n
  handle,    \* handle[h]: query and parameters of the handle
  call       \* call[r]: the request's progress

vars == <<creator, handle, call>>

(* The methods of a client driver; "create" is Client.create, which        *)
(* resolves a create query.                                                *)
Ops == {"action", "resolve", "create", "ws", "sse", "message", "rawHttp", "rawWs"}
Kinds == {"getForId", "getForKey", "getOrCreate"}
Roles == {"admin", "user"}
(* What can be wrong in the headers of a request to the manager.           *)
Faults == {"none", "badQuery", "badEncoding", "badParams"}

(***************************************************************************)
(* Errors: the code, whether it is an ActorError, whether it is public.    *)
(***************************************************************************)
Public(code) == [code |-> code, actor |-> TRUE, public |-> TRUE]
Private == [code |-> "private", actor |-> TRUE, public |-> FALSE]
Plain == [code |-> "internal_error", actor |-> FALSE, public |-> FALSE]
NoError == [code |-> "none", actor |-> FALSE, public |-> FALSE]

deconstructError(e, exposeInternalError) ==
  IF e.public \/ (exposeInternalError /\ e.actor) THEN e.code ELSE "internal_error"

(* Faulty variant: every error is wrapped.                                 *)
WrapProxyErrorAlways(e) == Public("proxy_error")

(* Errors of the three proxying handlers that are no ActorError.           *)
WrapProxyError(e) == IF e.actor THEN e ELSE Public("proxy_error")

Exists(n) == creator[n] # "nobody"
Idle == [pc |-> "idle", op |-> "none", h |-> "none", kind |-> "none",
         name |-> "none", role |-> "none", fault |-> "none", intents |-> {},
         err |-> NoError, stage |-> "none", answer |-> "none"]

Init ==
  /\ creator = [n \in Names |-> "nobody"]
  /\ handle = [h \in Handles |-> [kind |-> "none", name |-> "none", role |-> "none"]]
  /\ call = [r \in Requests |-> Idle]

(***************************************************************************)
(* Client side.                                                            *)
(***************************************************************************)
(* get, getOrCreate and getForId only build the query.                     *)
createHandle(h, kind, n, role) ==
  handle' = [handle EXCEPT ![h] = [kind |-> kind, name |-> n, role |-> role]]

(* Only HTTP callers meet onAuth: for the others the role and the presence *)
(* of onAuth make no difference, and one choice stands for all.            *)
Caller(h, n, role) ==
  Via[h] # "http" => role = "admin" /\ n \notin Registered \ WithOnAuth

(* A call is sent with the query the handle has now.                       *)
Send(r, h, op, kind, n, role, fault) ==
  call' = [call EXCEPT ![r] =
    [pc |-> IF Via[h] = "http" THEN "received" ELSE "decoding",
     op |-> op, h |-> h, kind |-> kind, name |-> n, role |-> role, fault |-> fault,
     intents |-> {}, err |-> NoError, stage |-> "none", answer |-> "none"]]

FirstCall(r, h, op, kind, n, role) ==
  /\ call[r].pc = "idle" /\ handle[h].kind = "none" /\ Caller(h, n, role)
  /\ op \notin {"message", "create"}
  /\ op = "resolve" => kind # "getForId"   \* answers at once, nothing is sent
  /\ createHandle(h, kind, n, role)
  /\ Send(r, h, op, kind, n, role, "none")
  /\ UNCHANGED creator

LaterCall(r, h, op) ==
  /\ call[r].pc = "idle" /\ handle[h].kind # "none" /\ op # "create"
  /\ op = "message" => \E q \in Requests : /\ call[q].h = h /\ call[q].op = "sse"
                                           /\ call[q].answer = "ok"
  /\ op = "resolve" => handle[h].kind # "getForId"
  /\ Send(r, h, op, handle[h].kind, handle[h].name, handle[h].role, "none")
  /\ UNCHANGED <<creator, handle>>

(* Client.create: the handle exists once the answer is there.              *)
CreateCall(r, h, n, role) ==
  /\ call[r].pc = "idle" /\ handle[h].kind = "none" /\ Caller(h, n, role)
  /\ \A q \in Requests : call[q].h # h
  /\ Send(r, h, "create", "create", n, role, "none")
  /\ UNCHANGED <<creator, handle>>

(* A request to the manager that this library's clients would not send.    *)
DirectRequest(r, h, op, n, fault) ==
  /\ call[r].pc = "idle" /\ Via[h] = "http" /\ fault # "none"
  /\ op = "message" => fault = "badEncoding"
  /\ Send(r, h, op, IF op = "create" THEN "create" ELSE "getOrCreate", n, "user", fault)
  /\ UNCHANGED <<creator, handle>>

Fail(r, e, stage) ==
  call' = [call EXCEPT ![r].pc = "answering", ![r].err = e, ![r].stage = stage]
Goto(r, pc) == call' = [call EXCEPT ![r].pc = pc]

(***************************************************************************)
(* Manager: one handler per endpoint, then authenticate, query and proxy.  *)
(***************************************************************************)
(* Faulty variant: getOrCreate asks for "get" only.                       *)
getIntentsFromQueryGetOnly(kind) ==
  IF kind = "create" THEN {"create"} ELSE {"get"}

getIntentsFromQuery(kind) ==
  CASE kind \in {"getForId", "getForKey"} -> {"get"}
    [] kind = "getOrCreate" -> {"get", "create"}
    [] kind = "create" -> {"create"}

(* A handler parses the headers, refusing a fault with the given error,    *)
(* and asks for authentication with the intents of the endpoint.           *)
Handler(r, ops, refusal, additionalIntents) ==
  LET c == call[r] IN
  /\ c.pc = "received" /\ c.op \in ops
  /\ IF c.fault # "none" /\ refusal[c.fault] # NoError
     THEN Fail(r, refusal[c.fault], "manager")
     ELSE call' = [call EXCEPT ![r].pc = "authenticating",
                     ![r].intents = getIntentsFromQuery(c.kind) \cup additionalIntents]
  /\ UNCHANGED <<creator, handle>>

(* getRequestQuery and getRequestEncoding throw ActorErrors; the schemas   *)
(* are checked with safeParse; JSON.parse of the parameters just throws.   *)
handleSseConnectRequest(r) ==
  Handler(r, {"sse"}, [badQuery |-> Public("invalid_query_json"),
    badEncoding |-> Public("invalid_encoding"), badParams |-> Plain], {"connect"})

handleWebSocketConnectRequest(r) ==
  Handler(r, {"ws"}, [badQuery |-> Public("invalid_query_json"),
    badEncoding |-> Public("invalid_request"),
    badParams |-> Public("invalid_params")], {"connect"})

handleActionRequest(r) ==
  Handler(r, {"action"}, [badQuery |-> Public("invalid_query_json"),
    badEncoding |-> Public("invalid_request"), badParams |-> Plain], {"action"})

handleResolveRequest(r) ==
  Handler(r, {"resolve", "create"}, [badQuery |-> Public("invalid_query_json"),
    badEncoding |-> Public("invalid_encoding"), badParams |-> Plain], {})

handleRawHttpRequest(r) ==
  Handler(r, {"rawHttp"}, [badQuery |-> Plain, badEncoding |-> NoError,
    badParams |-> Plain], {"action"})

handleRawWebSocketRequest(r) ==
  Handler(r, {"rawWs"}, [badQuery |-> Plain, badEncoding |-> NoError,
    badParams |-> Plain], {"action"})

(* No onAuth: the connection token is checked by the actor.                *)
handleMessageRequest(r) ==
  LET c == call[r] IN
  /\ c.pc = "received" /\ c.op = "message"
  /\ IF c.fault = "badEncoding" THEN Fail(r, Public("invalid_request"), "manager")
     ELSE Goto(r, "proxying")
  /\ UNCHANGED <<creator, handle>>

(* The routes of createManagerRouter, first those with a schema.           *)
ActorRoutes(r) ==
  \/ handleResolveRequest(r) \/ handleWebSocketConnectRequest(r)
  \/ handleSseConnectRequest(r) \/ handleActionRequest(r)
  \/ handleMessageRequest(r)
RawRoutes(r) == handleRawHttpRequest(r) \/ handleRawWebSocketRequest(r)

authenticateEndpoint(r) ==
  LET c == call[r] IN
  /\ c.pc = "authenticating"
  /\ IF (c.kind = "getForId" /\ ~Exists(c.name)) \/ c.name \notin Registered
     THEN Fail(r, Public("actor_not_found"), "manager")
     ELSE IF c.name \notin WithOnAuth THEN Fail(r, Public("forbidden"), "manager")
     ELSE Goto(r, "onAuth")
  /\ UNCHANGED <<creator, handle>>

(* The role onAuth reads from its parameters: the websocket endpoint hands *)
(* over the JSON text, in which there is no role to read.                  *)
RoleSeen(r) == IF call[r].op = "ws" THEN "undefined" ELSE call[r].role

(* The handler of the fixture intentAuthActor.                             *)
OnAuthAccepts(role, intents) ==
  /\ "create" \in intents => role = "admin"
  /\ "action" \in intents => role \in {"admin", "user"}

OnAuth(r) ==
  /\ call[r].pc = "onAuth"
  /\ IF OnAuthAccepts(RoleSeen(r), call[r].intents)
     THEN Goto(r, "querying")
     ELSE Fail(r, Public("insufficient_permissions"), "auth")
  /\ UNCHANGED <<creator, handle>>

(* getForId, getWithKey, getOrCreateWithKey and createActor of the manager *)
(* driver.                                                                 *)
Query(r, stage) ==
  LET c == call[r] IN
  /\ c.pc = "querying"
  /\ IF c.kind \in {"getForId", "getForKey"} /\ ~Exists(c.name)
     THEN Fail(r, Public("actor_not_found"), stage) /\ UNCHANGED creator
     ELSE IF c.kind = "create" /\ Exists(c.name)
     THEN Fail(r, Public("actor_already_exists"), stage) /\ UNCHANGED creator
     ELSE /\ creator' = IF Exists(c.name) THEN creator
                        ELSE [creator EXCEPT ![c.name] = r]
          /\ Goto(r, IF c.op \in {"resolve", "create"} THEN "answering" ELSE "proxying")
  /\ UNCHANGED handle

queryActor(r) == Query(r, "manager") /\ Via[call[r].h] = "http"
InlineQueryActor(r) == Query(r, "driver") /\ Via[call[r].h] # "http"

(***************************************************************************)
(* In-process driver and test driver.                                      *)
(***************************************************************************)
(* The in-process driver goes straight to queryActor, without onAuth; the  *)
(* test driver has a route of the manager call it.                         *)
InlineCall(r) ==
  LET c == call[r] IN
  /\ c.pc = "decoding" /\ Via[c.h] = "inline"
  /\ Goto(r, IF c.op = "message" THEN "proxying" ELSE "querying")
  /\ UNCHANGED <<creator, handle>>

(* The event source fetches the host "actor" from the network instead of   *)
(* asking the manager driver: no in-process SSE connection is made.        *)
InlineConnectSse(r) ==
  /\ call[r].pc = "proxying" /\ call[r].op = "sse" /\ Via[call[r].h] = "inline"
  /\ Fail(r, Plain, "driver")
  /\ UNCHANGED <<creator, handle>>

(* Two of the test driver's calls never arrive: SSE connections go to a    *)
(* route that does not exist, messages are JSON where the route decodes    *)
(* CBOR.                                                                   *)
TestCall(r) ==
  LET c == call[r] IN
  /\ c.pc = "decoding" /\ Via[c.h] = "test"
  /\ IF c.op \in {"sse", "message"} THEN Fail(r, Plain, "test") ELSE Goto(r, "querying")
  /\ UNCHANGED <<creator, handle>>

(***************************************************************************)
(* Actor: its router loads the actor and runs the endpoint.                *)
(***************************************************************************)
ActorOutcomes(op) ==
  {NoError, Public("user_error"), Private, Plain}
    \cup (IF op = "message" THEN {Public("conn_not_found")} ELSE {})

(* The endpoint throws, on the way to the hook or in it.  A raw websocket  *)
(* is open by the time onWebSocket runs, and its endpoint neither awaits   *)
(* nor catches what that hook throws ("unhandled").                        *)
ActorThrows(r, op, e) ==
  \/ Fail(r, e, "actor")
  \/ op = "rawWs" /\ Fail(r, e, "unhandled")

ActorHandles(r, e) ==
  LET c == call[r] IN
  /\ c.pc = "proxying"
  /\ e \in ActorOutcomes(c.op)
  /\ ~(Via[c.h] = "inline" /\ c.op = "sse")
  /\ IF c.name \notin Registered THEN Fail(r, Plain, "actor")
     ELSE IF e # NoError THEN ActorThrows(r, c.op, e)
     ELSE Goto(r, "answering")
  /\ UNCHANGED <<creator, handle>>

(***************************************************************************)
(* The answer: which code the caller sees ("none": an error without one).  *)
(***************************************************************************)
(* What the routers turn an error into: a response with a code.            *)
handleRouteError(e, expose) == deconstructError(e, expose)

(* HTTP driver.  The actor's own responses are passed on as they are.      *)
HttpAction(e, stage) ==
  handleRouteError(IF stage = "actor" THEN e ELSE WrapProxyError(e), FALSE)
HttpRaw(e, stage) == HttpAction(e, stage)
HttpResolve(e) == handleRouteError(e, FALSE)
HttpSse(e, stage) == IF stage = "actor" THEN "none" ELSE deconstructError(e, FALSE)
HttpWebSocket(e) == deconstructError(e, FALSE)
HttpMessage(e) == "none"
HttpCode(op, e, stage) ==
  CASE op = "action" -> HttpAction(e, stage)
    [] op = "rawHttp" -> HttpRaw(e, stage)
    [] op \in {"resolve", "create"} -> HttpResolve(e)
    [] op = "sse" -> HttpSse(e, stage)
    [] op \in {"ws", "rawWs"} -> HttpWebSocket(e)
    [] op = "message" -> HttpMessage(e)

(* In-process driver: errors of queryActor are thrown to the caller, those *)
(* of the actor come as responses or as a closed socket.                   *)
Thrown(e) == IF e.actor THEN e.code ELSE "none"
InlineAction(e, stage) ==
  IF stage = "actor" THEN handleRouteError(e, TRUE) ELSE deconstructError(e, TRUE)
InlineRawHttp(e, stage) ==
  IF stage = "actor" THEN handleRouteError(e, FALSE) ELSE deconstructError(e, TRUE)
InlineWebSocket(e, stage) == IF stage = "actor" THEN deconstructError(e, FALSE) ELSE Thrown(e)
InlineRawWebSocket(e) == Thrown(e)
InlineMessage(e) == handleRouteError(e, TRUE)
InlineCode(op, e, stage) ==
  CASE op = "action" -> InlineAction(e, stage)
    [] op = "rawHttp" -> InlineRawHttp(e, stage)
    [] op = "ws" -> InlineWebSocket(e, stage)
    [] op = "rawWs" -> InlineRawWebSocket(e)
    [] op = "message" -> InlineMessage(e)
    [] OTHER -> Thrown(e)

(* Test driver: the route catches the in-process driver's errors; a socket *)
(* it could not open is closed without a code.                             *)
TestInlineCall(e, stage) == IF stage = "test" THEN "none" ELSE deconstructError(e, TRUE)
TestRawHttp(e, stage) == InlineRawHttp(e, stage)
TestWebSocket(e, stage) == IF stage = "actor" THEN deconstructError(e, FALSE) ELSE "none"
TestRawWebSocket(e) == "none"
TestCode(op, e, stage) ==
  CASE op = "rawHttp" -> TestRawHttp(e, stage)
    [] op = "ws" -> TestWebSocket(e, stage)
    [] op = "rawWs" -> TestRawWebSocket(e)
    [] OTHER -> TestInlineCall(e, stage)

CodeSeen(r) ==
  LET c == call[r] IN
  CASE Via[c.h] = "http" -> HttpCode(c.op, c.err, c.stage)
    [] Via[c.h] = "inline" -> InlineCode(c.op, c.err, c.stage)
    [] Via[c.h] = "test" -> TestCode(c.op, c.err, c.stage)

(* The handle keeps the identifier it resolved.                            *)
AfterResolve(c) == [kind |-> "getForId", name |-> c.name, role |-> c.role]

(* The caller notices nothing of an unhandled error: its socket stays open.*)
Answer(r) ==
  LET c == call[r] IN
  /\ c.pc = "answering"
  /\ call' = [call EXCEPT ![r].pc = "done",
              ![r].answer = IF c.err = NoError \/ c.stage = "unhandled"
                            THEN "ok" ELSE CodeSeen(r)]
  /\ handle' = IF c.err = NoError /\ c.op \in {"resolve", "create"} /\ c.fault = "none"
               THEN [handle EXCEPT ![c.h] = AfterResolve(c)] ELSE handle
  /\ UNCHANGED creator

Next == \E r \in Requests :
  \/ \E h \in Handles, n \in Names, role \in Roles :
       \/ \E op \in Ops, kind \in Kinds : FirstCall(r, h, op, kind, n, role)
       \/ CreateCall(r, h, n, role)
  \/ \E h \in Handles, op \in Ops : LaterCall(r, h, op)
  \/ \E h \in Handles, op \in Ops, n \in WithOnAuth, fault \in Faults :
       DirectRequest(r, h, op, n, fault)
  \/ ActorRoutes(r) \/ RawRoutes(r)
  \/ authenticateEndpoint(r) \/ OnAuth(r) \/ queryActor(r)
  \/ InlineCall(r) \/ TestCall(r) \/ InlineQueryActor(r) \/ InlineConnectSse(r)
  \/ \E e \in ActorOutcomes(call[r].op) : ActorHandles(r, e)
  \/ Answer(r)

Spec == Init /\ [][Next]_vars

(***************************************************************************)
(* Properties.                                                             *)
(***************************************************************************)
(* An actor that was created over HTTP was created by a caller whom onAuth *)
(* may trust with "create": the intents derived from the query name every  *)
(* effect queryActor can have, and no stage runs before onAuth agreed      *)
(* (authenticateEndpoint, queryActor).                                     *)
OnlyAdminsCreate ==
  \A n \in Names : Exists(n) =>
    LET c == call[creator[n]] IN
    Via[c.h] = "http" => c.role = "admin" /\ n \in WithOnAuth

(* A public error keeps its code on the way to the caller, whichever stage *)
(* raised it and whichever driver carries it.  Left out are the errors that*)
(* onWebSocket throws, of which the caller hears nothing, and the paths    *)
(* that carry no code at all: messages over HTTP, SSE streams closed by    *)
(* the actor, and sockets the test route could not open.                   *)
ErrorsKeepTheirCode ==
  \A r \in Requests : LET c == call[r] IN
    (c.pc = "done" /\ c.err.public /\ c.stage # "unhandled" /\ c.answer # "none")
      => c.answer = c.err.code

(* The parameters that onAuth accepts for an action of a query it also     *)
(* accepts for a connection to the same query (the type of onAuth gives it *)
(* the connection parameters, whatever the endpoint).                      *)
AdminsMayConnect ==
  \A r \in Requests : LET c == call[r] IN
    (c.op \in {"ws", "sse"} /\ c.role = "admin") => c.stage # "auth"
=============================================================================
