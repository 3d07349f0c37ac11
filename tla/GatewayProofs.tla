---------------------------- MODULE GatewayProofs ----------------------------
(***************************************************************************)
(* Proofs about the way of a call to an actor and back, for any number of  *)
(* requests and handles, any names, any registry and any choice of client  *)
(* drivers.                                                                *)
(***************************************************************************)
EXTENDS Gateway, TLAPS

Codes == {"actor_already_exists", "actor_not_found", "conn_not_found", "forbidden",
          "insufficient_permissions", "invalid_encoding", "invalid_params",
          "invalid_query_json", "invalid_request", "proxy_error", "user_error"}
Errors == {NoError, Plain, Private} \cup {Public(code) : code \in Codes}

Calls == [pc : {"idle", "received", "decoding", "authenticating", "onAuth", "querying",
                "proxying", "answering", "done"},
          op : Ops \cup {"none"}, h : Handles \cup {"none"},
          kind : Kinds \cup {"create", "none"}, name : Names \cup {"none"},
          role : Roles \cup {"none"}, fault : Faults,
          intents : SUBSET {"get", "create", "connect", "action"},
          err : Errors, stage : {"none", "manager", "auth", "driver", "test", "actor", "unhandled"},
          answer : Codes \cup {"ok", "none", "internal_error", "private"}]

GatewayTypeOK ==
  /\ creator \in [Names -> Requests \cup {"nobody"}]
  /\ call \in [Requests -> Calls]

(* Only an ActorError is public, and its code is one of Codes. *)
LEMMA ErrorTypes ==
    /\ NoError \in Errors /\ Plain \in Errors /\ Private \in Errors
    /\ \A code \in Codes : Public(code) \in Errors
    /\ \A e \in Errors : e.public => e.actor /\ e.code \in Codes
  <1>1. \A e \in {NoError, Plain, Private} : e.public = FALSE
      BY DEF NoError, Plain, Private
  <1>2. \A code \in Codes : Public(code).actor /\ Public(code).code = code
      BY DEF Public
  <1> QED
      BY <1>1, <1>2 DEF Errors

(* deconstructError and the drivers' paths give a public error back with   *)
(* its own code, or with none.                                             *)
LEMMA PublicCodeSeen ==
    ASSUME GatewayTypeOK, NEW r \in Requests, call[r].err.public, call[r].op \in Ops,
           call[r].h \in Handles
    PROVE  CodeSeen(r) \in {"none", call[r].err.code}
  <1> DEFINE c == call[r]
  <1>1. c.err.actor
      BY ErrorTypes DEF GatewayTypeOK, Calls
  <1>2. \A x \in BOOLEAN : deconstructError(c.err, x) = c.err.code
      BY DEF deconstructError
  <1>3. Via[c.h] \in {"http", "inline", "test"}
      BY GatewayAssumption
  <1>4. CASE Via[c.h] = "http"
    <2>1. CodeSeen(r) = HttpCode(c.op, c.err, c.stage)
        BY <1>4 DEF CodeSeen
    <2> QED
        BY <1>1, <1>2, <2>1 DEF HttpCode, HttpAction, HttpRaw, HttpResolve, HttpSse,
           HttpWebSocket, HttpMessage, handleRouteError, WrapProxyError, Ops
  <1>5. CASE Via[c.h] = "inline"
    <2>1. CodeSeen(r) = InlineCode(c.op, c.err, c.stage)
        BY <1>5 DEF CodeSeen
    <2> QED
        BY <1>1, <1>2, <2>1 DEF InlineCode, InlineAction, InlineRawHttp, InlineWebSocket,
           InlineRawWebSocket, InlineMessage, handleRouteError, Thrown, Ops
  <1>6. CASE Via[c.h] = "test"
    <2>1. CodeSeen(r) = TestCode(c.op, c.err, c.stage)
        BY <1>6 DEF CodeSeen
    <2> QED
        BY <1>1, <1>2, <2>1 DEF TestCode, TestRawHttp, TestWebSocket, TestRawWebSocket,
           TestInlineCall, InlineRawHttp, handleRouteError, Ops
  <1> QED
      BY <1>3, <1>4, <1>5, <1>6

(* What holds of a call c: it names what it is about; over HTTP it goes on *)
(* to onAuth with the intents of its query at least, and past onAuth only  *)
(* if the actor has one, and as an admin if the query may create it; and   *)
(* the answer gives a public error its own code, unless it was unhandled.  *)
CallOK(c) ==
  /\ c.pc # "idle" => /\ c.op \in Ops /\ c.h \in Handles /\ c.name \in Names
                      /\ c.kind \in Kinds \cup {"create"}
  /\ c.pc \in {"authenticating", "onAuth"} => getIntentsFromQuery(c.kind) \subseteq c.intents
  /\ c.pc = "onAuth" => c.name \in WithOnAuth
  /\ c.pc = "decoding" => Via[c.h] # "http"
  /\ c.pc = "querying" /\ Via[c.h] = "http" =>
       c.name \in WithOnAuth /\ (c.kind \in {"getOrCreate", "create"} => c.role = "admin")
  /\ c.pc = "done" /\ c.err.public /\ c.stage # "unhandled" => c.answer \in {"none", c.err.code}

(* A handle that was made has a name to send. *)
HandleOK ==
  /\ handle \in [Handles -> [kind : Kinds \cup {"none"}, name : Names \cup {"none"},
                             role : Roles \cup {"none"}]]
  /\ \A h \in Handles : handle[h].kind # "none" => handle[h].name \in Names

(* The request that created an actor, and on what authority. *)
CreatorInv ==
  \A n \in Names : Exists(n) =>
    LET c == call[creator[n]] IN
    /\ c.pc # "idle"
    /\ Via[c.h] = "http" => c.role = "admin" /\ n \in WithOnAuth

GatewayInv ==
  GatewayTypeOK /\ HandleOK /\ (\A r \in Requests : CallOK(call[r])) /\ CreatorInv

(* A step that moves one call, from idle or from one stage to the next. *)
LEMMA MoveKeepsInv ==
    ASSUME GatewayInv, NEW r \in Requests, NEW d \in Calls,
           call' = [call EXCEPT ![r] = d], CallOK(d), creator' = creator,
           HandleOK',
           \/ call[r].pc = "idle"
           \/ d.pc # "idle" /\ d.h = call[r].h /\ d.role = call[r].role
    PROVE  GatewayInv'
  <1>1. \A q \in Requests : call'[q] = IF q = r THEN d ELSE call[q]
      BY DEF GatewayInv, GatewayTypeOK
  <1>2. GatewayTypeOK'
      BY DEF GatewayInv, GatewayTypeOK
  <1>3. \A q \in Requests : CallOK(call'[q])
      BY <1>1 DEF GatewayInv
  <1>4. \A n \in Names : Exists(n) => creator[n] \in Requests
      BY DEF GatewayInv, GatewayTypeOK, Exists
  <1>5. CreatorInv'
      BY <1>1, <1>4 DEF GatewayInv, CreatorInv, Exists
  <1> QED
      BY <1>2, <1>3, <1>5 DEF GatewayInv

LEMMA SendKeepsInv ==
    ASSUME GatewayInv, NEW r \in Requests, call[r].pc = "idle", NEW h \in Handles,
           NEW op \in Ops, NEW kind \in Kinds \cup {"create"}, NEW n \in Names,
           NEW role \in Roles \cup {"none"}, NEW fault \in Faults,
           Send(r, h, op, kind, n, role, fault), creator' = creator,
           HandleOK'
    PROVE  GatewayInv'
  <1> DEFINE pc == IF Via[h] = "http" THEN "received" ELSE "decoding"
             d == [pc |-> pc, op |-> op, h |-> h, kind |-> kind, name |-> n, role |-> role,
                   fault |-> fault, intents |-> {}, err |-> NoError, stage |-> "none",
                   answer |-> "none"]
  <1>1. call' = [call EXCEPT ![r] = d]
      BY DEF Send
  <1>2. pc \in {"received", "decoding"} /\ (pc = "decoding" => Via[h] # "http")
      OBVIOUS
  <1> HIDE DEF pc
  <1>3. d \in Calls
      BY <1>2, ErrorTypes DEF Calls
  <1>4. /\ d.pc = pc /\ d.op = op /\ d.h = h /\ d.kind = kind /\ d.name = n
      OBVIOUS
  <1> HIDE DEF d
  <1>5. CallOK(d)
      BY <1>2, <1>4 DEF CallOK
  <1> QED
      BY <1>1, <1>3, <1>5, MoveKeepsInv

LEMMA GotoKeepsInv ==
    ASSUME GatewayInv, NEW r \in Requests, call[r].pc # "idle",
           NEW pc \in {"onAuth", "querying", "proxying", "answering"}, Goto(r, pc),
           UNCHANGED <<creator, handle>>,
           pc = "onAuth" => call[r].pc = "authenticating" /\ call[r].name \in WithOnAuth,
           pc = "querying" /\ Via[call[r].h] = "http" =>
              /\ call[r].name \in WithOnAuth
              /\ call[r].kind \in {"getOrCreate", "create"} => call[r].role = "admin"
    PROVE  GatewayInv'
  <1> DEFINE c == call[r]
             d == [c EXCEPT !.pc = pc]
  <1>1. c \in Calls /\ CallOK(c)
      BY DEF GatewayInv, GatewayTypeOK
  <1>2. call' = [call EXCEPT ![r] = d]
      BY DEF Goto
  <1>3. /\ d \in Calls /\ d.pc = pc /\ d.op = c.op /\ d.h = c.h /\ d.kind = c.kind
        /\ d.name = c.name /\ d.role = c.role /\ d.intents = c.intents
      BY <1>1 DEF Calls
  <1> HIDE DEF d
  <1>4. CallOK(d)
      BY <1>1, <1>3 DEF CallOK
  <1>5. HandleOK'
      BY DEF GatewayInv, GatewayTypeOK, HandleOK
  <1> QED
      BY <1>2, <1>3, <1>4, <1>5, MoveKeepsInv

LEMMA FailKeepsInv ==
    ASSUME GatewayInv, NEW r \in Requests, call[r].pc # "idle", NEW e \in Errors,
           NEW stage \in {"manager", "auth", "driver", "test", "actor", "unhandled"}, Fail(r, e, stage),
           UNCHANGED <<creator, handle>>
    PROVE  GatewayInv'
  <1> DEFINE c == call[r]
             d1 == [c EXCEPT !.pc = "answering"]
             d2 == [d1 EXCEPT !.err = e]
             d == [d2 EXCEPT !.stage = stage]
  <1>1. c \in Calls /\ CallOK(c)
      BY DEF GatewayInv, GatewayTypeOK
  <1>2. call' = [call EXCEPT ![r] = d]
      BY DEF Fail
  <1> HIDE DEF c, d2, d
  <1>21. /\ d1 \in Calls /\ d1.pc = "answering" /\ d1.op = c.op /\ d1.h = c.h
        /\ d1.kind = c.kind /\ d1.name = c.name /\ d1.role = c.role
      BY <1>1 DEF Calls
  <1> HIDE DEF d1
  <1>22. /\ d2 \in Calls /\ d2.pc = "answering" /\ d2.op = c.op /\ d2.h = c.h
        /\ d2.kind = c.kind /\ d2.name = c.name /\ d2.role = c.role
      BY <1>21 DEF Calls, d2
  <1>3. /\ d \in Calls /\ d.pc = "answering" /\ d.op = c.op /\ d.h = c.h
        /\ d.kind = c.kind /\ d.name = c.name /\ d.role = c.role
      BY <1>22 DEF Calls, d
  <1>4. CallOK(d)
      BY <1>1, <1>3 DEF CallOK, c
  <1>5. HandleOK'
      BY DEF GatewayInv, GatewayTypeOK, HandleOK
  <1> QED
      BY <1>2, <1>3, <1>4, <1>5, MoveKeepsInv DEF c

(* Each handler of the manager refuses a faulty request with its own error, *)
(* or asks onAuth with the intents of the query.                            *)
LEMMA HandlerKeepsInv ==
    ASSUME GatewayInv, NEW r \in Requests, NEW ops, NEW more \in SUBSET {"connect", "action"},
           NEW query \in Errors, NEW encoding \in Errors, NEW params \in Errors,
           Handler(r, ops, [badQuery |-> query, badEncoding |-> encoding,
                            badParams |-> params], more)
    PROVE  GatewayInv'
  <1> DEFINE c == call[r]
             refusal == [badQuery |-> query, badEncoding |-> encoding, badParams |-> params]
             intents == getIntentsFromQuery(c.kind) \cup more
             d1 == [c EXCEPT !.pc = "authenticating"]
             d == [d1 EXCEPT !.intents = intents]
  <1>1. c \in Calls /\ CallOK(c) /\ c.pc = "received" /\ UNCHANGED <<creator, handle>>
      BY DEF GatewayInv, GatewayTypeOK, Handler
  <1>2. CASE c.fault # "none" /\ refusal[c.fault] # NoError
    <2>1. refusal[c.fault] \in Errors
        BY <1>1, <1>2 DEF Calls, Faults
    <2>2. Fail(r, refusal[c.fault], "manager")
        BY <1>2 DEF Handler
    <2> QED
        BY <1>1, <2>1, <2>2, FailKeepsInv
  <1>3. CASE ~(c.fault # "none" /\ refusal[c.fault] # NoError)
    <2>1. call' = [call EXCEPT ![r] = d]
        BY <1>3 DEF Handler
    <2>2. intents \in SUBSET {"get", "create", "connect", "action"}
        BY <1>1 DEF getIntentsFromQuery, CallOK, Kinds
    <2>3. getIntentsFromQuery(c.kind) \subseteq intents
        OBVIOUS
    <2> HIDE DEF c, intents, d
    <2>4. /\ d1 \in Calls /\ d1.pc = "authenticating" /\ d1.op = c.op /\ d1.h = c.h
          /\ d1.kind = c.kind /\ d1.name = c.name /\ d1.role = c.role
        BY <1>1 DEF Calls
    <2> HIDE DEF d1
    <2>5. /\ d \in Calls /\ d.pc = "authenticating" /\ d.op = c.op /\ d.h = c.h
          /\ d.kind = c.kind /\ d.name = c.name /\ d.role = c.role /\ d.intents = intents
        BY <2>2, <2>4 DEF Calls, d
    <2>6. CallOK(d)
        BY <1>1, <2>3, <2>5 DEF CallOK
    <2>7. HandleOK'
        BY <1>1 DEF GatewayInv, HandleOK
    <2> QED
        BY <1>1, <2>1, <2>5, <2>6, <2>7, MoveKeepsInv DEF c
  <1> QED
      BY <1>2, <1>3

(* queryActor creates an actor for a query that may create one only, and   *)
(* over HTTP only for an admin.                                            *)
LEMMA QueryKeepsInv ==
    ASSUME GatewayInv, NEW r \in Requests, NEW stage \in {"manager", "driver"},
           Query(r, stage)
    PROVE  GatewayInv'
  <1> DEFINE c == call[r]
  <1>1. c \in Calls /\ CallOK(c) /\ c.pc = "querying" /\ UNCHANGED handle /\ c.name \in Names
      BY DEF GatewayInv, GatewayTypeOK, Query, CallOK
  <1>2. CASE \E e \in {Public("actor_not_found"), Public("actor_already_exists")} :
               Fail(r, e, stage) /\ UNCHANGED creator
    <2>1. Public("actor_not_found") \in Errors /\ Public("actor_already_exists") \in Errors
        BY ErrorTypes DEF Codes
    <2> QED
        BY <1>1, <1>2, <2>1, FailKeepsInv
  <1>3. ASSUME NEW pc \in {"answering", "proxying"}, Goto(r, pc), UNCHANGED creator
        PROVE  GatewayInv'
      BY <1>1, <1>3, GotoKeepsInv
  <1>4. ASSUME NEW pc \in {"answering", "proxying"}, Goto(r, pc), ~Exists(c.name),
               c.kind \in {"getOrCreate", "create"},
               creator' = [creator EXCEPT ![c.name] = r]
        PROVE  GatewayInv'
    <2> DEFINE d == [c EXCEPT !.pc = pc]
    <2>1. call' = [call EXCEPT ![r] = d]
        BY <1>4 DEF Goto
    <2>2. /\ d \in Calls /\ d.pc = pc /\ d.op = c.op /\ d.h = c.h /\ d.kind = c.kind
          /\ d.name = c.name /\ d.role = c.role /\ d.intents = c.intents
        BY <1>1 DEF Calls
    <2> HIDE DEF d
    <2>3. CallOK(d)
        BY <1>1, <2>2 DEF CallOK
    <2>4. \A q \in Requests : call'[q] = IF q = r THEN d ELSE call[q]
        BY <2>1 DEF GatewayInv, GatewayTypeOK
    <2>5. GatewayTypeOK'
        BY <1>1, <1>4, <2>1, <2>2 DEF GatewayInv, GatewayTypeOK
    <2>6. HandleOK' /\ \A q \in Requests : CallOK(call'[q])
        BY <1>1, <2>3, <2>4 DEF GatewayInv, HandleOK
    <2>7. \A n \in Names : n # c.name /\ Exists(n)' =>
             creator'[n] = creator[n] /\ creator[n] \in Requests /\ Exists(n)
        BY <1>1, <1>4 DEF GatewayInv, GatewayTypeOK, Exists
    <2>8. creator'[c.name] = r
        BY <1>1, <1>4 DEF GatewayInv, GatewayTypeOK
    <2>9. Via[c.h] = "http" => c.role = "admin" /\ c.name \in WithOnAuth
        BY <1>1, <1>4 DEF CallOK
    <2>10. CreatorInv'
      <3> SUFFICES ASSUME NEW n \in Names, Exists(n)'
                   PROVE  /\ call'[creator'[n]].pc # "idle"
                          /\ Via[call'[creator'[n]].h] = "http" =>
                               call'[creator'[n]].role = "admin" /\ n \in WithOnAuth
          BY DEF CreatorInv
      <3>1. CASE n = c.name
          BY <2>2, <2>4, <2>8, <2>9, <3>1
      <3>2. CASE n # c.name
        <4>1. creator'[n] = creator[n] /\ creator[n] \in Requests /\ Exists(n)
            BY <2>7, <3>2
        <4>2. /\ call'[creator[n]].pc # "idle"
              /\ call'[creator[n]].h = call[creator[n]].h
              /\ call'[creator[n]].role = call[creator[n]].role
            BY <2>2, <2>4, <4>1 DEF GatewayInv, CreatorInv
        <4> QED
            BY <4>1, <4>2 DEF GatewayInv, CreatorInv
      <3> QED
          BY <3>1, <3>2
    <2> QED
        BY <2>5, <2>6, <2>10 DEF GatewayInv
  <1>5. c.kind \in {"getForId", "getForKey", "getOrCreate", "create"}
      BY <1>1 DEF CallOK, Kinds
  <1> QED
      BY <1>2, <1>3, <1>4, <1>5 DEF Query

(* The code a caller sees is one of those the errors have, or none. *)
LEMMA CodeSeenType ==
    ASSUME GatewayTypeOK, NEW r \in Requests, call[r].op \in Ops, call[r].h \in Handles
    PROVE  CodeSeen(r) \in Codes \cup {"none", "internal_error", "private"}
  <1> DEFINE c == call[r]
             C == Codes \cup {"none", "internal_error", "private"}
  <1>1. \A e \in Errors : e.code \in C
      BY DEF Errors, NoError, Plain, Private, Public
  <1>2. c.err \in Errors
      BY DEF GatewayTypeOK, Calls
  <1>3. WrapProxyError(c.err) \in Errors
      BY <1>2, ErrorTypes DEF WrapProxyError, Codes
  <1> HIDE DEF C
  <1>4. \A e \in Errors : \A x \in BOOLEAN : deconstructError(e, x) \in C
      BY <1>1 DEF deconstructError, C
  <1>5. Via[c.h] \in {"http", "inline", "test"} /\ "none" \in C
      BY GatewayAssumption DEF C
  <1>6. CASE Via[c.h] = "http"
    <2>1. CodeSeen(r) = HttpCode(c.op, c.err, c.stage)
        BY <1>6 DEF CodeSeen
    <2> QED
        BY <1>2, <1>3, <1>4, <1>5, <2>1 DEF HttpCode, HttpAction, HttpRaw, HttpResolve,
           HttpSse, HttpWebSocket, HttpMessage, handleRouteError, Ops, C
  <1>7. CASE Via[c.h] = "inline"
    <2>1. CodeSeen(r) = InlineCode(c.op, c.err, c.stage)
        BY <1>7 DEF CodeSeen
    <2> QED
        BY <1>1, <1>2, <1>4, <1>5, <2>1 DEF InlineCode, InlineAction, InlineRawHttp,
           InlineWebSocket, InlineRawWebSocket, InlineMessage, handleRouteError, Thrown, Ops, C
  <1>8. CASE Via[c.h] = "test"
    <2>1. CodeSeen(r) = TestCode(c.op, c.err, c.stage)
        BY <1>8 DEF CodeSeen
    <2> QED
        BY <1>2, <1>4, <1>5, <2>1 DEF TestCode, TestRawHttp, TestWebSocket, TestRawWebSocket,
           TestInlineCall, InlineRawHttp, handleRouteError, Ops, C
  <1> QED
      BY <1>5, <1>6, <1>7, <1>8 DEF C

(* The caller gets the code of a public error, and a handle keeps the      *)
(* identifier it resolved.                                                 *)
LEMMA AnswerKeepsInv ==
    ASSUME GatewayInv, NEW r \in Requests, Answer(r)
    PROVE  GatewayInv'
  <1> DEFINE c == call[r]
             answer == IF c.err = NoError \/ c.stage = "unhandled" THEN "ok" ELSE CodeSeen(r)
             d1 == [c EXCEPT !.pc = "done"]
             d == [d1 EXCEPT !.answer = answer]
  <1>1. c \in Calls /\ CallOK(c) /\ c.pc = "answering" /\ UNCHANGED creator
      BY DEF GatewayInv, GatewayTypeOK, Answer
  <1>2. c.op \in Ops /\ c.h \in Handles /\ c.name \in Names
      BY <1>1 DEF CallOK
  <1>3. call' = [call EXCEPT ![r] = d]
      BY DEF Answer
  <1>4. answer \in Codes \cup {"ok", "none", "internal_error", "private"}
      BY <1>2, CodeSeenType DEF GatewayInv
  <1>5. c.err.public /\ c.stage # "unhandled" => answer \in {"none", c.err.code}
      BY <1>2, PublicCodeSeen DEF GatewayInv, NoError
  <1>6. HandleOK'
    <2>1. CASE handle' = handle
        BY <2>1 DEF GatewayInv, HandleOK
    <2>2. CASE handle' = [handle EXCEPT ![c.h] = AfterResolve(c)]
      <3>1. /\ AfterResolve(c) \in [kind : Kinds \cup {"none"}, name : Names \cup {"none"},
                                    role : Roles \cup {"none"}]
            /\ AfterResolve(c).name \in Names
          BY <1>1, <1>2 DEF AfterResolve, Calls, Kinds
      <3> QED
          BY <2>2, <3>1 DEF GatewayInv, HandleOK
    <2> QED
        BY <2>1, <2>2 DEF Answer
  <1> HIDE DEF c, answer, d
  <1>7. /\ d1 \in Calls /\ d1.pc = "done" /\ d1.op = c.op /\ d1.h = c.h
        /\ d1.kind = c.kind /\ d1.name = c.name /\ d1.role = c.role /\ d1.err = c.err
        /\ d1.stage = c.stage
      BY <1>1 DEF Calls
  <1> HIDE DEF d1
  <1>8. /\ d \in Calls /\ d.pc = "done" /\ d.op = c.op /\ d.h = c.h /\ d.kind = c.kind
        /\ d.name = c.name /\ d.role = c.role /\ d.err = c.err /\ d.stage = c.stage
        /\ d.answer = answer
      BY <1>4, <1>7 DEF Calls, d
  <1>9. CallOK(d)
      BY <1>1, <1>5, <1>8 DEF CallOK
  <1> QED
      BY <1>1, <1>3, <1>6, <1>8, <1>9, MoveKeepsInv DEF c

(* What the application sends. *)
LEMMA ClientKeepsInv ==
    ASSUME GatewayInv, NEW r \in Requests, NEW h \in Handles, NEW op \in Ops
    PROVE  /\ \A kind \in Kinds, n \in Names, role \in Roles :
                FirstCall(r, h, op, kind, n, role) => GatewayInv'
           /\ \A n \in Names, role \in Roles : CreateCall(r, h, n, role) => GatewayInv'
           /\ LaterCall(r, h, op) => GatewayInv'
           /\ \A n \in WithOnAuth, fault \in Faults :
                DirectRequest(r, h, op, n, fault) => GatewayInv'
  <1>1. "none" \in Faults /\ "create" \in Ops /\ "user" \in Roles /\ "getOrCreate" \in Kinds
      BY DEF Faults, Ops, Roles, Kinds
  <1>2. ASSUME NEW kind \in Kinds, NEW n \in Names, NEW role \in Roles,
               FirstCall(r, h, op, kind, n, role)
        PROVE  GatewayInv'
    <2>1. HandleOK'
        BY <1>2 DEF FirstCall, createHandle, GatewayInv, HandleOK
    <2> QED
        BY <1>1, <1>2, <2>1, SendKeepsInv DEF FirstCall
  <1>3. ASSUME NEW n \in Names, NEW role \in Roles, CreateCall(r, h, n, role)
        PROVE  GatewayInv'
    <2>1. HandleOK'
        BY <1>3 DEF CreateCall, GatewayInv, HandleOK
    <2> QED
        BY <1>1, <1>3, <2>1, SendKeepsInv DEF CreateCall
  <1>4. ASSUME LaterCall(r, h, op) PROVE GatewayInv'
    <2>1. HandleOK'
        BY <1>4 DEF LaterCall, GatewayInv, HandleOK
    <2>2. /\ handle[h].kind \in Kinds \cup {"create"} /\ handle[h].name \in Names
          /\ handle[h].role \in Roles \cup {"none"}
        BY <1>4 DEF LaterCall, GatewayInv, HandleOK
    <2> QED
        BY <1>1, <1>4, <2>1, <2>2, SendKeepsInv DEF LaterCall
  <1>5. ASSUME NEW n \in WithOnAuth, NEW fault \in Faults, DirectRequest(r, h, op, n, fault)
        PROVE  GatewayInv'
    <2>1. HandleOK' /\ n \in Names
        BY <1>5, GatewayAssumption DEF DirectRequest, GatewayInv, HandleOK
    <2>2. (IF op = "create" THEN "create" ELSE "getOrCreate") \in Kinds \cup {"create"}
        BY <1>1
    <2> QED
        BY <1>1, <1>5, <2>1, <2>2, SendKeepsInv DEF DirectRequest
  <1> QED
      BY <1>2, <1>3, <1>4, <1>5

LEMMA InvStep == GatewayInv /\ [Next]_vars => GatewayInv'
  <1> SUFFICES ASSUME GatewayInv, [Next]_vars PROVE GatewayInv'
      OBVIOUS
  <1> USE ErrorTypes
  <1>0. \A r \in Requests : call[r] \in Calls /\ CallOK(call[r])
      BY DEF GatewayInv, GatewayTypeOK
  <1>1. ASSUME NEW r \in Requests, ActorRoutes(r) \/ RawRoutes(r) PROVE GatewayInv'
    <2>1. CASE handleMessageRequest(r)
      <3>1. Public("invalid_request") \in Errors
          BY DEF Codes
      <3> QED
          BY <2>1, <3>1, FailKeepsInv, GotoKeepsInv DEF handleMessageRequest
    <2>2. \A code \in {"invalid_query_json", "invalid_encoding", "invalid_request",
                      "invalid_params"} : Public(code) \in Errors
        BY DEF Codes
    <2>3. CASE handleResolveRequest(r)
        BY <2>2, <2>3, HandlerKeepsInv DEF handleResolveRequest
    <2>4. CASE handleWebSocketConnectRequest(r)
        BY <2>2, <2>4, HandlerKeepsInv DEF handleWebSocketConnectRequest
    <2>5. CASE handleSseConnectRequest(r)
        BY <2>2, <2>5, HandlerKeepsInv DEF handleSseConnectRequest
    <2>6. CASE handleActionRequest(r)
        BY <2>2, <2>6, HandlerKeepsInv DEF handleActionRequest
    <2>7. CASE handleRawHttpRequest(r)
        BY <2>7, HandlerKeepsInv DEF handleRawHttpRequest
    <2>8. CASE handleRawWebSocketRequest(r)
        BY <2>8, HandlerKeepsInv DEF handleRawWebSocketRequest
    <2> QED
        BY <1>1, <2>1, <2>3, <2>4, <2>5, <2>6, <2>7, <2>8 DEF ActorRoutes, RawRoutes
  <1>2. ASSUME NEW r \in Requests, authenticateEndpoint(r) PROVE GatewayInv'
    <2>1. Public("actor_not_found") \in Errors /\ Public("forbidden") \in Errors
        BY DEF Codes
    <2> QED
        BY <1>2, <2>1, FailKeepsInv, GotoKeepsInv DEF authenticateEndpoint
  <1>3. ASSUME NEW r \in Requests, OnAuth(r) PROVE GatewayInv'
    <2>1. CASE OnAuthAccepts(RoleSeen(r), call[r].intents)
      <3>1. call[r].name \in WithOnAuth /\ getIntentsFromQuery(call[r].kind) \subseteq call[r].intents
          BY <1>0, <1>3 DEF OnAuth, CallOK
      <3>2. call[r].kind \in {"getOrCreate", "create"} => "create" \in call[r].intents
          BY <3>1 DEF getIntentsFromQuery
      <3>3. call[r].kind \in {"getOrCreate", "create"} => call[r].role = "admin"
          BY <2>1, <3>2 DEF OnAuthAccepts, RoleSeen
      <3> QED
          BY <1>3, <2>1, <3>1, <3>3, GotoKeepsInv DEF OnAuth
    <2>2. CASE ~OnAuthAccepts(RoleSeen(r), call[r].intents)
      <3>1. Public("insufficient_permissions") \in Errors
          BY DEF Codes
      <3> QED
          BY <1>3, <2>2, <3>1, FailKeepsInv DEF OnAuth
    <2> QED
        BY <2>1, <2>2
  <1>4. ASSUME NEW r \in Requests, queryActor(r) \/ InlineQueryActor(r) PROVE GatewayInv'
      BY <1>4, QueryKeepsInv DEF queryActor, InlineQueryActor
  <1>5. ASSUME NEW r \in Requests, InlineCall(r) \/ TestCall(r) PROVE GatewayInv'
      BY <1>5, FailKeepsInv, GotoKeepsInv DEF InlineCall, TestCall
  <1>6. ASSUME NEW r \in Requests, InlineConnectSse(r) PROVE GatewayInv'
      BY <1>6, FailKeepsInv DEF InlineConnectSse
  <1>7. ASSUME NEW r \in Requests, NEW e \in ActorOutcomes(call[r].op), ActorHandles(r, e)
        PROVE  GatewayInv'
    <2>1. e \in Errors
        BY <1>7 DEF ActorOutcomes, Codes
    <2> QED
        BY <1>7, <2>1, FailKeepsInv, GotoKeepsInv DEF ActorHandles, ActorThrows
  <1>8. ASSUME NEW r \in Requests, NEW h \in Handles,
               \/ \E n \in Names, role \in Roles :
                    \/ \E op \in Ops, kind \in Kinds : FirstCall(r, h, op, kind, n, role)
                    \/ CreateCall(r, h, n, role)
               \/ \E op \in Ops : \/ LaterCall(r, h, op)
                                \/ \E n \in WithOnAuth, fault \in Faults :
                                      DirectRequest(r, h, op, n, fault)
        PROVE  GatewayInv'
    <2>1. "create" \in Ops
        BY DEF Ops
    <2> QED
        BY <1>8, <2>1, ClientKeepsInv
  <1>9. CASE UNCHANGED vars
      BY <1>9 DEF vars, GatewayInv, GatewayTypeOK, HandleOK, CreatorInv, Exists
  <1> QED
      BY <1>1, <1>2, <1>3, <1>4, <1>5, <1>6, <1>7, <1>8, <1>9, AnswerKeepsInv DEF Next

(* The invariant of the gateway, for every registry and every deployment.  *)
THEOREM GatewayInvariant == Spec => []GatewayInv
  <1>1. Init => GatewayInv
    <2> SUFFICES ASSUME Init PROVE GatewayInv
        OBVIOUS
    <2>1. Idle \in Calls /\ Idle.pc = "idle"
        BY ErrorTypes DEF Idle, Calls, Faults
    <2>2. CallOK(Idle)
        BY <2>1 DEF CallOK
    <2>3. GatewayTypeOK /\ \A r \in Requests : CallOK(call[r])
        BY <2>1, <2>2 DEF Init, GatewayTypeOK
    <2>4. HandleOK
        BY DEF Init, HandleOK
    <2>5. CreatorInv
        BY DEF Init, CreatorInv, Exists
    <2> QED
        BY <2>3, <2>4, <2>5 DEF GatewayInv
  <1> QED
      BY <1>1, InvStep, PTL DEF Spec

(* Whoever creates an actor over HTTP was let through by its onAuth with   *)
(* the intent "create": no endpoint derives too few intents from a query,  *)
(* and no stage runs before onAuth agreed.                                 *)
THEOREM CreatorsAreAdmins == Spec => []OnlyAdminsCreate
  <1>1. GatewayInv => OnlyAdminsCreate
      BY DEF GatewayInv, CreatorInv, OnlyAdminsCreate
  <1> QED
      BY <1>1, GatewayInvariant, PTL

(* A public error that reaches the caller does so with its own code or     *)
(* with none, whichever stage raised it and whichever driver carried it;   *)
(* what onWebSocket throws reaches nobody.                                 *)
THEOREM CodesAreKept == Spec => []ErrorsKeepTheirCode
  <1>1. GatewayInv => ErrorsKeepTheirCode
      BY DEF GatewayInv, CallOK, ErrorsKeepTheirCode
  <1> QED
      BY <1>1, GatewayInvariant, PTL
=============================================================================
