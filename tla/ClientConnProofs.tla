-------------------------- MODULE ClientConnProofs --------------------------
(***************************************************************************)
(* Proofs about a connection of the TypeScript client, for any number of   *)
(* calls, listeners and faults, with and without dispose().  After lemmas  *)
(* on channels and listeners come, each with its preservation by every     *)
(* step: types; SocketInv and RetryInv (sockets and attempts); GreetInv    *)
(* (what Init implies of the server); CallInv (where a call is); SubsInv   *)
(* (where the subscription is); IndexInv, UsedInv and EventInv (the event  *)
(* of an action between its subscription and its answer).                  *)
(***************************************************************************)
EXTENDS ClientConn, FiniteSetTheorems, TLAPS

-----------------------------------------------------------------------------
(* What the operations on channels and listeners do.                       *)

Channel == [Sockets -> Seq(Message)]

LEMMA Constants ==
    /\ Ids \subseteq Nat /\ -1 \notin Ids /\ Sockets \subseteq Nat \ {0}
    /\ MaxFaults \in Nat /\ MaxCalls \in Nat
  BY ClientConnAssumption DEF Ids, Sockets

LEMMA MessageTypes ==
    /\ \A i \in Ids, t \in {"Action", "Response", "Error", "Event"} : About(t, i) \in Message
    /\ \A t \in {"Subscribe", "Unsubscribe", "Init", "Error", "Close"} : Plain(t) \in Message
    /\ \A m \in Message : m.tag \in {"Action", "Response", "Event"} => m.id \in Ids
    /\ \A m \in Message : m.tag = "Error" => m.id \in Ids \cup {-1}
    /\ \A m \in Message : m = About(m.tag, m.id)
    /\ \A t, u, i, j : About(t, i) = About(u, j) => t = u /\ i = j
  <1>1. \A t, u, i, j : About(t, i) = About(u, j) => t = u /\ i = j
    <2> SUFFICES ASSUME NEW t, NEW u, NEW i, NEW j, About(t, i) = About(u, j)
                 PROVE  t = u /\ i = j
        OBVIOUS
    <2>1. About(t, i).tag = t /\ About(t, i).id = i /\ About(u, j).tag = u /\ About(u, j).id = j
        BY DEF About
    <2> QED
        BY <2>1
  <1> QED
      BY <1>1 DEF Message, Plain, About

LEMMA EmptyType == \A S : <<>> \in Seq(S)
  OBVIOUS

LEMMA ConcatEffect ==
    ASSUME NEW S, NEW a \in Seq(S), NEW b \in Seq(S)
    PROVE  /\ a \o b \in Seq(S) /\ Len(a \o b) = Len(a) + Len(b)
           /\ \A k \in 1 .. Len(a) : (a \o b)[k] = a[k]
           /\ \A k \in Len(a) + 1 .. Len(a) + Len(b) : (a \o b)[k] = b[k - Len(a)]
  OBVIOUS

LEMMA PutEffect ==
    ASSUME NEW ch \in Channel, NEW shut, NEW c \in Sockets, NEW ms \in Seq(Message)
    PROVE  /\ Put(ch, shut, c, ms) \in Channel
           /\ \A d \in Sockets : Put(ch, shut, c, ms)[d] =
                 IF d = c /\ c \notin shut THEN ch[d] \o ms ELSE ch[d]
  BY DEF Put, Channel

LEMMA RemainsEffect ==
    ASSUME NEW ch \in Channel, NEW shut, NEW c \in Sockets, NEW r \in Remains(ch, shut, c)
    PROVE  /\ r \in Seq(Message)
           /\ \A k \in 1 .. Len(r) : r[k] = Close \/ (k \in 1 .. Len(ch[c]) /\ r[k] = ch[c][k])
  <1> DEFINE s == ch[c]
  <1>1. s \in Seq(Message) /\ Close \in Message
      BY MessageTypes DEF Channel, Close
  <1>2. CASE r = <<>>
      BY <1>2
  <1>3. CASE r # <<>>
    <2>1. PICK n \in 0 .. Len(s) : r = SubSeq(s, 1, n) \o <<Close>>
        BY <1>3 DEF Remains
    <2> HIDE DEF s
    <2> DEFINE p == SubSeq(s, 1, n)
    <2>2. p \in Seq(Message) /\ Len(p) = n /\ \A k \in 1 .. n : p[k] = s[k]
        BY <1>1
    <2> HIDE DEF p
    <2>3. r \in Seq(Message) /\ Len(r) = n + 1 /\ \A k \in 1 .. n + 1 : r[k] = IF k <= n THEN p[k] ELSE Close
        BY <1>1, <2>1, <2>2 DEF p
    <2> QED
        BY <1>1, <2>2, <2>3 DEF s
  <1> QED
      BY <1>2, <1>3

LEMMA WithoutEffect ==
    ASSUME NEW S, NEW s \in Seq(S), NEW l
    PROVE  /\ Without(s, l) \in Seq(S)
           /\ Range(Without(s, l)) \subseteq Range(s)
  <1>1. CASE l \notin Range(s)
      BY <1>1 DEF Without
  <1>2. CASE l \in Range(s)
    <2> DEFINE n == CHOOSE k \in DOMAIN s : s[k] = l
               a == SubSeq(s, 1, n - 1)
               b == SubSeq(s, n + 1, Len(s))
    <2>1. n \in 1 .. Len(s)
        BY <1>2 DEF Range
    <2>2. Without(s, l) = a \o b
        BY <1>2 DEF Without, RemoveAt
    <2> HIDE DEF n
    <2>3. a \in Seq(S) /\ \A k \in 1 .. Len(a) : a[k] \in Range(s)
        BY <2>1 DEF Range
    <2>4. b \in Seq(S) /\ \A k \in 1 .. Len(b) : b[k] \in Range(s)
      <3>1. Len(s) \in Nat /\ n \in Nat /\ n <= Len(s) /\ n >= 1
          BY <2>1
      <3>2. b \in Seq(S) /\ Len(b) = Len(s) - n
          BY <3>1
      <3>3. \A k \in 1 .. Len(s) - n : b[k] = s[n + k]
          BY <3>1
      <3> HIDE DEF b
      <3>4. \A k \in 1 .. Len(s) - n : n + k \in 1 .. Len(s)
          BY <3>1
      <3> QED
          BY <3>2, <3>3, <3>4 DEF Range
    <2> HIDE DEF a, b
    <2>5. a \o b \in Seq(S) /\ \A k \in 1 .. Len(a \o b) : (a \o b)[k] \in Range(s)
      <3>1. Len(a) \in Nat /\ Len(b) \in Nat /\ Len(a \o b) = Len(a) + Len(b) /\ a \o b \in Seq(S)
          BY <2>3, <2>4
      <3>2. ASSUME NEW k \in 1 .. Len(a \o b) PROVE (a \o b)[k] \in Range(s)
        <4>1. CASE k <= Len(a)
          <5>1. k \in 1 .. Len(a) /\ (a \o b)[k] = a[k]
              BY <2>3, <2>4, <3>1, <4>1
          <5> QED
              BY <2>3, <5>1
        <4>2. CASE k > Len(a)
          <5>1. k - Len(a) \in 1 .. Len(b) /\ (a \o b)[k] = b[k - Len(a)]
              BY <2>3, <2>4, <3>1, <4>2
          <5> QED
              BY <2>4, <5>1
        <4> QED
            BY <3>1, <4>1, <4>2
      <3> QED
          BY <3>1, <3>2
    <2>6. Range(a \o b) \subseteq Range(s)
      <3>1. DOMAIN (a \o b) = 1 .. Len(a \o b)
          BY <2>5
      <3>2. Range(a \o b) = {(a \o b)[k] : k \in DOMAIN (a \o b)}
          BY DEF Range
      <3> QED
          BY <2>5, <3>1, <3>2
    <2> QED
        BY <2>2, <2>5, <2>6
  <1> QED
      BY <1>1, <1>2

-----------------------------------------------------------------------------
(* Which messages of a kind a sequence has, and whether it has one at most. *)

Has(s, M)  == \E k \in 1 .. Len(s) : s[k] \in M
Once(s, M) == \A j, k \in 1 .. Len(s) : s[j] \in M /\ s[k] \in M => j = k

LEMMA HasEmpty == \A M : ~Has(<<>>, M) /\ Once(<<>>, M)
  BY DEF Has, Once

LEMMA HasSingle == \A x, M : (Has(<<x>>, M) <=> x \in M) /\ Once(<<x>>, M)
  BY DEF Has, Once

LEMMA HasConcat ==
    ASSUME NEW S, NEW a \in Seq(S), NEW b \in Seq(S), NEW M
    PROVE  /\ Has(a \o b, M) <=> Has(a, M) \/ Has(b, M)
           /\ Once(a, M) /\ Once(b, M) /\ ~(Has(a, M) /\ Has(b, M)) => Once(a \o b, M)
  <1> DEFINE s == a \o b
  <1>1. /\ Len(a) \in Nat /\ Len(b) \in Nat /\ Len(s) = Len(a) + Len(b)
        /\ \A k \in 1 .. Len(a) : s[k] = a[k]
        /\ \A k \in Len(a) + 1 .. Len(a) + Len(b) : s[k] = b[k - Len(a)]
      BY ConcatEffect
  <1> HIDE DEF s
  <1>2. \A k \in 1 .. Len(s) : \/ k \in 1 .. Len(a) /\ s[k] = a[k]
                               \/ k > Len(a) /\ k - Len(a) \in 1 .. Len(b) /\ s[k] = b[k - Len(a)]
      BY <1>1
  <1>3. \A k \in 1 .. Len(b) : k + Len(a) \in 1 .. Len(s) /\ s[k + Len(a)] = b[k]
      BY <1>1
  <1>4. \A k \in 1 .. Len(a) : k \in 1 .. Len(s) /\ s[k] = a[k]
      BY <1>1
  <1>5. Has(s, M) <=> Has(a, M) \/ Has(b, M)
      BY <1>2, <1>3, <1>4 DEF Has
  <1>6. ASSUME Once(a, M), Once(b, M), ~(Has(a, M) /\ Has(b, M)), NEW j \in 1 .. Len(s), NEW k \in 1 .. Len(s),
               s[j] \in M, s[k] \in M
        PROVE  j = k
    <2>1. CASE j \in 1 .. Len(a) /\ s[j] = a[j] /\ k \in 1 .. Len(a) /\ s[k] = a[k]
        BY <1>6, <2>1 DEF Once
    <2>2. CASE /\ j - Len(a) \in 1 .. Len(b) /\ s[j] = b[j - Len(a)]
               /\ k - Len(a) \in 1 .. Len(b) /\ s[k] = b[k - Len(a)]
      <3>1. j - Len(a) = k - Len(a)
          BY <1>6, <2>2 DEF Once
      <3> QED
          BY <1>1, <3>1
    <2>3. ~(Has(a, M) /\ Has(b, M))
        BY <1>6
    <2> QED
        BY <1>2, <1>6, <2>1, <2>2, <2>3 DEF Has
  <1>7. Once(a, M) /\ Once(b, M) /\ ~(Has(a, M) /\ Has(b, M)) => Once(s, M)
      BY <1>6 DEF Once
  <1> QED
      BY <1>5, <1>7 DEF s

LEMMA HasAppend ==
    ASSUME NEW S, NEW s \in Seq(S), NEW x \in S, NEW M
    PROVE  /\ Has(Append(s, x), M) <=> Has(s, M) \/ x \in M
           /\ Once(s, M) /\ ~(Has(s, M) /\ x \in M) => Once(Append(s, x), M)
  <1>1. /\ Len(s) \in Nat /\ Len(Append(s, x)) = Len(s) + 1
        /\ \A k \in 1 .. Len(s) + 1 : Append(s, x)[k] = IF k <= Len(s) THEN s[k] ELSE x
      OBVIOUS
  <1> QED
      BY <1>1 DEF Has, Once

LEMMA HasTail ==
    ASSUME NEW S, NEW s \in Seq(S), s # <<>>, NEW M
    PROVE  /\ Has(s, M) <=> Head(s) \in M \/ Has(Tail(s), M)
           /\ Once(s, M) => Once(Tail(s), M)
           /\ Once(s, M) /\ Head(s) \in M => ~Has(Tail(s), M)
  <1>1. /\ Len(s) \in Nat /\ Len(s) >= 1 /\ Len(Tail(s)) = Len(s) - 1 /\ Head(s) = s[1]
        /\ \A k \in 1 .. Len(s) - 1 : Tail(s)[k] = s[k + 1]
      OBVIOUS
  <1>2. \A k \in 1 .. Len(Tail(s)) : k + 1 \in 1 .. Len(s) /\ k + 1 # 1 /\ Tail(s)[k] = s[k + 1]
      BY <1>1
  <1>3. \A k \in 1 .. Len(s) : k = 1 \/ (k - 1 \in 1 .. Len(Tail(s)) /\ Tail(s)[k - 1] = s[k])
      BY <1>1
  <1>4. 1 \in 1 .. Len(s)
      BY <1>1
  <1>5. Has(s, M) <=> Head(s) \in M \/ Has(Tail(s), M)
      BY <1>1, <1>2, <1>3, <1>4 DEF Has
  <1>6. Once(s, M) => Once(Tail(s), M)
      BY <1>1, <1>2 DEF Once
  <1>7. Once(s, M) /\ Head(s) \in M => ~Has(Tail(s), M)
      BY <1>1, <1>2, <1>4 DEF Once, Has
  <1> QED
      BY <1>5, <1>6, <1>7

(* Every message of t is in s, at the same place.                          *)
LEMMA HasPrefix ==
    ASSUME NEW s, NEW t, NEW M, \A k \in 1 .. Len(t) : t[k] \in M => k \in 1 .. Len(s) /\ t[k] = s[k]
    PROVE  (Has(t, M) => Has(s, M)) /\ (Once(s, M) => Once(t, M))
  BY DEF Has, Once

LEMMA HasPut ==
    ASSUME NEW ch \in Channel, NEW shut, NEW c \in Sockets, NEW ms \in Seq(Message), NEW d \in Sockets, NEW M
    PROVE  /\ Has(Put(ch, shut, c, ms)[d], M) => Has(ch[d], M) \/ (d = c /\ c \notin shut /\ Has(ms, M))
           /\ Once(ch[d], M) /\ Once(ms, M) /\ (d = c => ~(Has(ch[d], M) /\ Has(ms, M)))
                 => Once(Put(ch, shut, c, ms)[d], M)
  <1>1. ch[d] \in Seq(Message)
      BY DEF Channel
  <1>2. CASE d = c /\ c \notin shut
    <2>1. Put(ch, shut, c, ms)[d] = ch[d] \o ms
        BY <1>2, PutEffect
    <2> QED
        BY <1>1, <1>2, <2>1, HasConcat
  <1>3. CASE ~(d = c /\ c \notin shut)
    <2>1. Put(ch, shut, c, ms)[d] = IF d = c /\ c \notin shut THEN ch[d] \o ms ELSE ch[d]
        BY DEF Put, Channel
    <2> QED
        BY <1>3, <2>1
  <1> QED
      BY <1>2, <1>3

(* Closing a channel.                                                      *)
LEMMA PutClose ==
    ASSUME NEW ch \in Channel, NEW shut, NEW c \in Sockets, NEW d \in Sockets, NEW M
    PROVE  /\ d # c => Put(ch, shut, c, <<Close>>)[d] = ch[d]
           /\ Has(Put(ch, shut, c, <<Close>>)[d], M) => Has(ch[d], M) \/ (d = c /\ Close \in M)
           /\ Once(ch[d], M) /\ Close \notin M => Once(Put(ch, shut, c, <<Close>>)[d], M)
  <1>1. <<Close>> \in Seq(Message) /\ (Has(<<Close>>, M) <=> Close \in M) /\ Once(<<Close>>, M)
      BY MessageTypes, HasSingle DEF Close
  <1>2. d # c => Put(ch, shut, c, <<Close>>)[d] = ch[d]
      BY DEF Put, Channel
  <1> QED
      BY <1>1, <1>2, HasPut

LEMMA HasRemains ==
    ASSUME NEW ch \in Channel, NEW shut, NEW c \in Sockets, NEW r \in Remains(ch, shut, c),
           NEW M, Close \notin M
    PROVE  (Has(r, M) => Has(ch[c], M)) /\ (Once(ch[c], M) => Once(r, M))
  <1>1. \A k \in 1 .. Len(r) : r[k] \in M => k \in 1 .. Len(ch[c]) /\ r[k] = ch[c][k]
      BY RemainsEffect
  <1> QED
      BY <1>1, HasPrefix

LEMMA HasSent ==
    ASSUME NEW C, NEW m \in Message, down \in Channel, SendTo(C, m), NEW d \in Sockets, NEW M
    PROVE  /\ Has(down'[d], M) => Has(down[d], M) \/ (d \in C /\ handlers[d] = "live" /\ d \notin downShut /\ m \in M)
           /\ Once(down[d], M) /\ ~(d \in C /\ Has(down[d], M) /\ m \in M) => Once(down'[d], M)
  <1>1. down[d] \in Seq(Message)
      BY DEF Channel
  <1>2. down'[d] = IF d \in C /\ handlers[d] = "live" /\ d \notin downShut THEN Append(down[d], m) ELSE down[d]
      BY DEF SendTo
  <1>3. CASE d \in C /\ handlers[d] = "live" /\ d \notin downShut
      BY <1>1, <1>2, <1>3, HasAppend
  <1>4. CASE ~(d \in C /\ handlers[d] = "live" /\ d \notin downShut)
      BY <1>2, <1>4
  <1> QED
      BY <1>3, <1>4

-----------------------------------------------------------------------------
(* Type correctness, in parts that few actions touch together.             *)

ClientTypeOK ==
    /\ disposed \in BOOLEAN
    /\ retry \in {"idle", "attempt", "backoff", "aborted"}
    /\ attempt \in {"none", "dialing", "waiting"}
    /\ transport \in Sockets \cup {0}
    /\ messageQueue \in Seq(Ids)
    /\ actionIdCounter \in Nat
    /\ faults \in 0 .. MaxFaults

ListenerTypeOK ==
    /\ entry \in BOOLEAN
    /\ listeners \in Seq(Listeners)
    /\ todo \in Seq(Listeners)
    /\ detached \in BOOLEAN
    /\ used \subseteq Listeners
    /\ owed \in [Ids -> SUBSET Listeners]
    /\ heard \in [Ids -> SUBSET Listeners]

NetTypeOK ==
    /\ dialled \in Sockets \cup {0}
    /\ ready \in [Sockets -> {"none", "connecting", "open", "closing", "closed"}]
    /\ up \in Channel
    /\ down \in Channel
    /\ upShut \subseteq Sockets
    /\ downShut \subseteq Sockets

ServerTypeOK ==
    /\ handlers \in [Sockets -> {"none", "pending", "live", "gone"}]
    /\ inbox \in Channel
    /\ connSubs \subseteq Sockets
    /\ index \subseteq Sockets
    /\ executing \subseteq Sockets \X Ids
    /\ starts \in [Ids -> Nat]
    /\ broadcast \subseteq Ids

CallTypeOK ==
    /\ inFlight \subseteq Ids
    /\ outcome \in [Ids -> {"uncalled", "pending", "resolved", "rejected", "thrown"}]
    /\ answeredBy \in [Ids -> Ids \cup {-1, -2}]
    /\ orphans \subseteq Ids
    /\ sentOn \in [Ids -> Sockets \cup {0}]
    /\ early \subseteq Ids

LEMMA TypeParts ==
    /\ TypeOK <=> ClientTypeOK /\ ListenerTypeOK /\ NetTypeOK /\ ServerTypeOK /\ CallTypeOK
    /\ TypeOK' <=> ClientTypeOK' /\ ListenerTypeOK' /\ NetTypeOK' /\ ServerTypeOK' /\ CallTypeOK'
  <1>1. TypeOK <=> ClientTypeOK /\ ListenerTypeOK /\ NetTypeOK /\ ServerTypeOK /\ CallTypeOK
      BY DEF TypeOK, ClientTypeOK, ListenerTypeOK, NetTypeOK, ServerTypeOK, CallTypeOK, Channel
  <1>2. TypeOK' <=> ClientTypeOK' /\ ListenerTypeOK' /\ NetTypeOK' /\ ServerTypeOK' /\ CallTypeOK'
      BY DEF TypeOK, ClientTypeOK, ListenerTypeOK, NetTypeOK, ServerTypeOK, CallTypeOK, Channel
  <1> QED
      BY <1>1, <1>2

LEMMA TypeInit == Init => TypeOK
  <1> SUFFICES ASSUME Init PROVE TypeOK
      OBVIOUS
  <1>1. ClientTypeOK
    <2>1. messageQueue = <<>>
        BY DEF Init
    <2>2. messageQueue \in Seq(Ids)
        BY <2>1, EmptyType, Zenon
    <2>3. /\ disposed = FALSE /\ retry = "attempt" /\ attempt = "dialing"
          /\ transport = 0 /\ actionIdCounter = 0 /\ faults = 0
        BY DEF Init
    <2>4. faults \in 0 .. MaxFaults
        BY <2>3, ClientConnAssumption
    <2> QED
        BY <2>2, <2>3, <2>4 DEF ClientTypeOK
  <1>2. ListenerTypeOK
    <2>1. listeners = <<>> /\ todo = <<>>
        BY DEF Init
    <2>2. listeners \in Seq(Listeners) /\ todo \in Seq(Listeners)
        BY <2>1, EmptyType, Zenon
    <2> QED
        BY <2>2 DEF Init, ListenerTypeOK
  <1>3. NetTypeOK
      BY DEF Init, NetTypeOK, Channel
  <1>4. ServerTypeOK
      BY DEF Init, ServerTypeOK, Channel
  <1>5. CallTypeOK
      BY DEF Init, CallTypeOK
  <1> QED
      BY <1>1, <1>2, <1>3, <1>4, <1>5, TypeParts

-----------------------------------------------------------------------------
(* Types under the actions, part by part.                                  *)

TypeVars1 == <<disposed, retry, attempt, transport, messageQueue, actionIdCounter, faults>>
TypeVars2 == <<entry, listeners, todo, detached, used, owed, heard>>
TypeVars3 == <<dialled, ready, up, down, upShut, downShut>>
TypeVars4 == <<handlers, inbox, connSubs, index, executing, starts, broadcast>>
TypeVars5 == <<inFlight, outcome, answeredBy, orphans, sentOn, early>>

LEMMA SameTypes ==
    /\ ClientTypeOK /\ UNCHANGED TypeVars1 => ClientTypeOK'
    /\ ListenerTypeOK /\ UNCHANGED TypeVars2 => ListenerTypeOK'
    /\ NetTypeOK /\ UNCHANGED TypeVars3 => NetTypeOK'
    /\ ServerTypeOK /\ UNCHANGED TypeVars4 => ServerTypeOK'
    /\ CallTypeOK /\ UNCHANGED TypeVars5 => CallTypeOK'
  <1>1. ClientTypeOK /\ UNCHANGED TypeVars1 => ClientTypeOK'
      BY DEF ClientTypeOK, TypeVars1
  <1>2. ListenerTypeOK /\ UNCHANGED TypeVars2 => ListenerTypeOK'
      BY DEF ListenerTypeOK, TypeVars2
  <1>3. NetTypeOK /\ UNCHANGED TypeVars3 => NetTypeOK'
      BY DEF NetTypeOK, TypeVars3
  <1>4. ServerTypeOK /\ UNCHANGED TypeVars4 => ServerTypeOK'
      BY DEF ServerTypeOK, TypeVars4
  <1>5. CallTypeOK /\ UNCHANGED TypeVars5 => CallTypeOK'
      BY DEF CallTypeOK, TypeVars5
  <1> QED
      BY <1>1, <1>2, <1>3, <1>4, <1>5

LEMMA FaultType ==
    ClientTypeOK /\ Fault => faults' \in 0 .. MaxFaults
  BY Constants DEF ClientTypeOK, Fault

LEMMA ConnectingTypes ==
    ASSUME TypeOK,
           \/ DialSucceeds \/ DialFails \/ BackoffElapses
           \/ \E c \in Sockets : SocketOpens(c) \/ SocketFails(c)
    PROVE  TypeOK'
  <1>1. ClientTypeOK /\ ListenerTypeOK /\ NetTypeOK /\ ServerTypeOK /\ CallTypeOK
      BY TypeParts
  <1>2. CASE DialSucceeds
    <2>1. dialled' \in Sockets
        BY <1>1, <1>2, Constants DEF DialSucceeds, NetTypeOK, Sockets
    <2>2. ClientTypeOK' /\ NetTypeOK'
        BY <1>1, <1>2, <2>1 DEF DialSucceeds, NetTypeOK, ClientTypeOK, history
    <2>3. ListenerTypeOK' /\ ServerTypeOK' /\ CallTypeOK'
        BY <1>1, <1>2, SameTypes DEF DialSucceeds, TypeVars2, TypeVars4, TypeVars5, eventVars, serverVars, callVars, history
    <2> QED
        BY <2>2, <2>3, TypeParts
  <1>3. CASE DialFails
    <2>1. ClientTypeOK'
        BY <1>1, <1>3, FaultType DEF DialFails, AttemptFails, ClientTypeOK
    <2>2. ListenerTypeOK' /\ NetTypeOK' /\ ServerTypeOK' /\ CallTypeOK'
        BY <1>1, <1>3, SameTypes DEF DialFails, TypeVars2, TypeVars3, TypeVars4, TypeVars5, eventVars, netVars, serverVars, callVars
    <2> QED
        BY <2>1, <2>2, TypeParts
  <1>4. CASE BackoffElapses
    <2>1. ClientTypeOK'
        BY <1>1, <1>4 DEF BackoffElapses, ClientTypeOK, history
    <2>2. ListenerTypeOK' /\ NetTypeOK' /\ ServerTypeOK' /\ CallTypeOK'
        BY <1>1, <1>4, SameTypes DEF BackoffElapses, TypeVars2, TypeVars3, TypeVars4, TypeVars5, eventVars, netVars, serverVars, callVars, history
    <2> QED
        BY <2>1, <2>2, TypeParts
  <1>5. ASSUME NEW c \in Sockets, SocketOpens(c) PROVE TypeOK'
    <2>1. NetTypeOK' /\ ServerTypeOK'
        BY <1>1, <1>5 DEF SocketOpens, NetTypeOK, ServerTypeOK, history
    <2>2. ClientTypeOK' /\ ListenerTypeOK' /\ CallTypeOK'
        BY <1>1, <1>5, SameTypes DEF SocketOpens, TypeVars1, TypeVars2, TypeVars5, clientVars, eventVars, callVars, history
    <2> QED
        BY <2>1, <2>2, TypeParts
  <1>6. ASSUME NEW c \in Sockets, SocketFails(c) PROVE TypeOK'
    <2>1. ClientTypeOK'
        BY <1>1, <1>6, FaultType DEF SocketFails, HandleOnClose, AttemptFails, ClientTypeOK
    <2>2. NetTypeOK'
        BY <1>1, <1>6 DEF SocketFails, NetTypeOK
    <2>3. ListenerTypeOK' /\ ServerTypeOK' /\ CallTypeOK'
        BY <1>1, <1>6, SameTypes DEF SocketFails, TypeVars2, TypeVars4, TypeVars5, eventVars, serverVars, callVars
    <2> QED
        BY <2>1, <2>2, <2>3, TypeParts
  <1> QED
      BY <1>2, <1>3, <1>4, <1>5, <1>6

(* What a message that is sent at once does to the channels.               *)
LEMMA SendNowType ==
    ASSUME NetTypeOK, transport \in Sockets \cup {0}, NEW ms \in Seq(Message), SendNow(ms)
    PROVE  up' \in Channel
  BY PutEffect DEF NetTypeOK, SendNow, CanSend

LEMMA SubscriptionType ==
    ASSUME NetTypeOK, transport \in Sockets \cup {0}, NEW t \in {"Subscribe", "Unsubscribe"}, SendSubscription(t)
    PROVE  up' \in Channel
  <1>1. <<Plain(t)>> \in Seq(Message)
      BY MessageTypes
  <1> QED
      BY <1>1, SendNowType DEF SendSubscription, NetTypeOK

LEMMA ApplicationTypes ==
    ASSUME TypeOK, Application
    PROVE  TypeOK'
  <1>1. ClientTypeOK /\ ListenerTypeOK /\ NetTypeOK /\ ServerTypeOK /\ CallTypeOK
      BY TypeParts
  <1>2. CASE Call
    <2> DEFINE i == actionIdCounter
    <2>1. i \in Ids /\ i + 1 \in Nat
        BY <1>2, Constants DEF Call
    <2>2. <<Request(i)>> \in Seq(Message)
        BY <2>1, MessageTypes DEF Request
    <2>3. up' \in Channel
        BY <1>1, <1>2, <2>2, SendNowType DEF Call, ClientTypeOK, NetTypeOK
    <2>4. NetTypeOK'
        BY <1>1, <1>2, <2>3 DEF Call, NetTypeOK
    <2>5. messageQueue' \in Seq(Ids)
        BY <1>1, <1>2, <2>1 DEF Call, ClientTypeOK
    <2>6. ClientTypeOK'
        BY <1>1, <1>2, <2>1, <2>5 DEF Call, ClientTypeOK, history
    <2>7. Range(listeners) \in SUBSET Listeners
        BY <1>1 DEF ListenerTypeOK, Range
    <2>8. ListenerTypeOK'
        BY <1>1, <1>2, <2>7 DEF Call, ListenerTypeOK, eventVars, history
    <2>9. ServerTypeOK'
        BY <1>1, <1>2, SameTypes DEF Call, TypeVars4, serverVars, history
    <2>10. CallTypeOK'
      <3>1. inFlight' \subseteq Ids /\ early' \subseteq Ids
          BY <1>1, <1>2, <2>1 DEF Call, CallTypeOK
      <3>2. outcome' \in [Ids -> {"uncalled", "pending", "resolved", "rejected", "thrown"}]
          BY <1>1, <1>2, <2>1 DEF Call, CallTypeOK
      <3>3. sentOn' \in [Ids -> Sockets \cup {0}]
          BY <1>1, <1>2, <2>1 DEF Call, CallTypeOK, ClientTypeOK
      <3> QED
          BY <1>1, <1>2, <3>1, <3>2, <3>3 DEF Call, CallTypeOK
    <2> QED
        BY <2>4, <2>6, <2>8, <2>9, <2>10, TypeParts
  <1>3. CASE Dispose
    <2>1. ClientTypeOK'
        BY <1>1, <1>3 DEF Dispose, ClientTypeOK, history
    <2>2. <<Close>> \in Seq(Message)
        BY MessageTypes DEF Close
    <2>3. transport # 0 => transport \in Sockets
        BY <1>1 DEF ClientTypeOK
    <2>4. transport # 0 => Put(up, upShut, transport, <<Close>>) \in Channel
        BY <1>1, <2>2, <2>3, PutEffect DEF NetTypeOK
    <2>5. up' \in Channel /\ down' \in Channel
        BY <1>1, <1>3, <2>2, <2>3, <2>4 DEF Dispose, NetTypeOK, Channel
    <2>6. NetTypeOK'
        BY <1>1, <1>3, <2>3, <2>5 DEF Dispose, NetTypeOK
    <2>7. ListenerTypeOK' /\ ServerTypeOK' /\ CallTypeOK'
        BY <1>1, <1>3, SameTypes DEF Dispose, TypeVars2, TypeVars4, TypeVars5, eventVars, serverVars, callVars, history
    <2> QED
        BY <2>1, <2>6, <2>7, TypeParts
  <1>4. ASSUME NEW l \in Listeners, On(l) PROVE TypeOK'
    <2>1. up' \in Channel
        BY <1>1, <1>4, SubscriptionType DEF On, ClientTypeOK, NetTypeOK
    <2>2. NetTypeOK'
        BY <1>1, <1>4, <2>1 DEF On, NetTypeOK
    <2>3. listeners' \in Seq(Listeners)
      <3>1. Append(listeners, l) \in Seq(Listeners) /\ <<l>> \in Seq(Listeners)
          BY <1>1 DEF ListenerTypeOK
      <3>2. listeners' \in {Append(listeners, l), <<>>, <<l>>}
          BY <1>4 DEF On
      <3> QED
          BY <3>1, <3>2, EmptyType, Zenon
    <2>4. ListenerTypeOK'
        BY <1>1, <1>4, <2>3 DEF On, ListenerTypeOK, callVars
    <2>5. ClientTypeOK' /\ ServerTypeOK' /\ CallTypeOK'
        BY <1>1, <1>4, SameTypes DEF On, TypeVars1, TypeVars4, TypeVars5, clientVars, serverVars, callVars
    <2> QED
        BY <2>2, <2>4, <2>5, TypeParts
  <1>5. ASSUME NEW l \in Listeners, Off(l) PROVE TypeOK'
    <2>1. up' \in Channel
        BY <1>1, <1>5, SubscriptionType DEF Off, ClientTypeOK, NetTypeOK
    <2>2. NetTypeOK'
        BY <1>1, <1>5, <2>1 DEF Off, NetTypeOK
    <2>3. listeners' \in Seq(Listeners)
        BY <1>1, <1>5, WithoutEffect DEF Off, ListenerTypeOK
    <2>4. ListenerTypeOK'
        BY <1>1, <1>5, <2>3 DEF Off, ListenerTypeOK, callVars, history
    <2>5. ClientTypeOK' /\ ServerTypeOK' /\ CallTypeOK'
        BY <1>1, <1>5, SameTypes DEF Off, TypeVars1, TypeVars4, TypeVars5, clientVars, serverVars, callVars, history
    <2> QED
        BY <2>2, <2>4, <2>5, TypeParts
  <1> QED
      BY <1>2, <1>3, <1>4, <1>5 DEF Application

LEMMA TailType ==
    ASSUME NEW ch \in Channel, NEW c \in Sockets, ch[c] # <<>>
    PROVE  /\ Head(ch[c]) \in Message /\ Tail(ch[c]) \in Seq(Message)
           /\ [ch EXCEPT ![c] = Tail(@)] \in Channel
  BY DEF Channel

LEMMA FlushedType ==
    ASSUME messageQueue \in Seq(Ids)
    PROVE  /\ Flushed \in Seq(Message)
           /\ QueuedRequests \in Seq(Message) /\ Len(QueuedRequests) = Len(messageQueue)
           /\ Resubscription \in Seq(Message)
  <1>1. \A n \in 1 .. Len(messageQueue) : Request(messageQueue[n]) \in Message
      BY MessageTypes DEF Request
  <1>2. QueuedRequests \in Seq(Message) /\ Len(QueuedRequests) = Len(messageQueue)
      BY <1>1 DEF QueuedRequests
  <1>3. <<Plain("Subscribe")>> \in Seq(Message)
      BY MessageTypes
  <1>4. Resubscription \in Seq(Message)
      BY <1>3, EmptyType, Zenon DEF Resubscription
  <1> QED
      BY <1>2, <1>4 DEF Flushed

LEMMA SettleType ==
    ASSUME CallTypeOK, NEW S \in SUBSET inFlight, NEW i \in Ids \cup {-1}, NEW as \in {"resolved", "rejected"},
           Settle(S, i, as), NEW T \in SUBSET Ids, orphans' = orphans \cup T, UNCHANGED <<sentOn, early>>
    PROVE  CallTypeOK'
  BY DEF CallTypeOK, Settle

LEMMA ReceiveTypes ==
    ASSUME TypeOK, NEW c \in Sockets,
           \/ ReceiveInit(c) \/ ReceiveResponse(c) \/ ReceiveError(c)
           \/ ReceiveEvent(c) \/ ReceiveClose(c) \/ Discard(c)
    PROVE  TypeOK'
  <1>1. ClientTypeOK /\ ListenerTypeOK /\ NetTypeOK /\ ServerTypeOK /\ CallTypeOK
      BY TypeParts
  <1>2. Head(down[c]) \in Message /\ down' \in Channel
      BY <1>1, TailType DEF ReceiveInit, ReceiveResponse, ReceiveError, ReceiveEvent, ReceiveClose, Discard, Receive, NetTypeOK
  <1>3. CASE ReceiveInit(c)
    <2>1. up' \in Channel
        BY <1>1, <1>3, FlushedType, SendNowType DEF ReceiveInit, FlushQueue, ClientTypeOK, NetTypeOK
    <2>2. NetTypeOK'
        BY <1>1, <1>2, <1>3, <2>1 DEF ReceiveInit, NetTypeOK
    <2>3. messageQueue' \in Seq(Ids)
      <3>1. messageQueue' = messageQueue \/ messageQueue' = <<>>
          BY <1>3 DEF ReceiveInit, FlushQueue
      <3>2. messageQueue \in Seq(Ids)
          BY <1>1 DEF ClientTypeOK
      <3> QED
          BY <3>1, <3>2, EmptyType, Zenon
    <2>4. attempt' = "none" /\ retry' \in {"idle", retry}
        BY <1>3 DEF ReceiveInit, AttemptSucceeds
    <2>5. ClientTypeOK'
        BY <1>1, <1>3, <2>3, <2>4 DEF ReceiveInit, ClientTypeOK, history
    <2>6. sentOn' \in [Ids -> Sockets \cup {0}]
        BY <1>1, <1>3 DEF ReceiveInit, FlushQueue, CallTypeOK, ClientTypeOK
    <2>7. CallTypeOK'
        BY <1>1, <1>3, <2>6 DEF ReceiveInit, CallTypeOK
    <2>8. ListenerTypeOK' /\ ServerTypeOK'
        BY <1>1, <1>3, SameTypes DEF ReceiveInit, TypeVars2, TypeVars4, eventVars, serverVars, history
    <2> QED
        BY <2>2, <2>5, <2>7, <2>8, TypeParts
  <1>4. CASE ReceiveResponse(c)
    <2> DEFINE i == Head(down[c]).id
    <2>1. i \in Ids
        BY <1>2, <1>4, MessageTypes DEF ReceiveResponse, Receive
    <2>2. CallTypeOK'
        BY <1>1, <1>4, <2>1, SettleType DEF ReceiveResponse
    <2>3. NetTypeOK'
        BY <1>1, <1>2, <1>4 DEF ReceiveResponse, NetTypeOK
    <2>4. ClientTypeOK' /\ ListenerTypeOK' /\ ServerTypeOK'
        BY <1>1, <1>4, SameTypes DEF ReceiveResponse, Receive, TypeVars1, TypeVars2, TypeVars4, eventVars, serverVars, history
    <2> QED
        BY <2>2, <2>3, <2>4, TypeParts
  <1>5. CASE ReceiveError(c)
    <2> DEFINE i == Head(down[c]).id
    <2>1. i \in Ids \cup {-1} /\ (~OfConnection(i) => i \in Ids)
        BY <1>2, <1>5, MessageTypes DEF ReceiveError, Receive, OfConnection
    <2>2. Rejected(i) \in SUBSET inFlight
        BY DEF Rejected
    <2>3. PICK T \in SUBSET Ids : orphans' = orphans \cup T
      <3>1. {} \in SUBSET Ids /\ (i \in Ids => {i} \ inFlight \in SUBSET Ids)
          OBVIOUS
      <3> QED
          BY <1>5, <2>1, <3>1 DEF ReceiveError
    <2>3b. CallTypeOK'
      <3>1. Settle(Rejected(i), i, "rejected") /\ UNCHANGED <<sentOn, early>>
          BY <1>5 DEF ReceiveError
      <3> HIDE DEF i
      <3> QED
          BY <1>1, <2>1, <2>2, <2>3, <3>1, SettleType
    <2>4. NetTypeOK'
        BY <1>1, <1>2, <1>5 DEF ReceiveError, NetTypeOK
    <2>5. ClientTypeOK'
        BY <1>1, <1>5 DEF ReceiveError, AttemptFails, ClientTypeOK, history
    <2>6. ListenerTypeOK' /\ ServerTypeOK'
        BY <1>1, <1>5, SameTypes DEF ReceiveError, Receive, TypeVars2, TypeVars4, eventVars, serverVars, history
    <2> QED
        BY <2>3b, <2>4, <2>5, <2>6, TypeParts
  <1>6. CASE ReceiveEvent(c)
    <2>1. Range(listeners) \in SUBSET Listeners
        BY <1>1 DEF ListenerTypeOK, Range
    <2>2. heard' \in [Ids -> SUBSET Listeners]
        BY <1>1, <1>6, <2>1 DEF ReceiveEvent, ListenerTypeOK
    <2>3. todo' \in Seq(Listeners) /\ entry' \in BOOLEAN
        BY <1>1, <1>6 DEF ReceiveEvent, ListenerTypeOK
    <2>4. ListenerTypeOK'
        BY <1>1, <1>6, <2>2, <2>3 DEF ReceiveEvent, ListenerTypeOK, callVars
    <2>5. NetTypeOK'
        BY <1>1, <1>2, <1>6 DEF ReceiveEvent, NetTypeOK
    <2>6. ClientTypeOK' /\ ServerTypeOK' /\ CallTypeOK'
        BY <1>1, <1>6, SameTypes DEF ReceiveEvent, TypeVars1, TypeVars4, TypeVars5, clientVars, serverVars, callVars
    <2> QED
        BY <2>4, <2>5, <2>6, TypeParts
  <1>7. CASE ReceiveClose(c)
    <2>1. <<Close>> \in Seq(Message)
        BY MessageTypes DEF Close
    <2>2. up' \in Channel
        BY <1>1, <1>7, <2>1, PutEffect DEF ReceiveClose, NetTypeOK
    <2>3. NetTypeOK'
        BY <1>1, <1>2, <1>7, <2>2 DEF ReceiveClose, NetTypeOK
    <2>4. ClientTypeOK'
        BY <1>1, <1>7 DEF ReceiveClose, HandleOnClose, AttemptFails, ClientTypeOK, history
    <2>5. ListenerTypeOK' /\ ServerTypeOK' /\ CallTypeOK'
        BY <1>1, <1>7, SameTypes DEF ReceiveClose, TypeVars2, TypeVars4, TypeVars5, eventVars, serverVars, callVars, history
    <2> QED
        BY <2>3, <2>4, <2>5, TypeParts
  <1>8. CASE Discard(c)
    <2>1. NetTypeOK'
        BY <1>1, <1>2, <1>8 DEF Discard, NetTypeOK
    <2>2. ClientTypeOK' /\ ListenerTypeOK' /\ ServerTypeOK' /\ CallTypeOK'
        BY <1>1, <1>8, SameTypes DEF Discard, TypeVars1, TypeVars2, TypeVars4, TypeVars5, clientVars, eventVars, serverVars, callVars, history
    <2> QED
        BY <2>1, <2>2, TypeParts
  <1> QED
      BY <1>3, <1>4, <1>5, <1>6, <1>7, <1>8

(* Counting the places of a message; a message that is in a sequence once  *)
(* at most is counted once at most.                                        *)
LEMMA CountType ==
    ASSUME NEW S, NEW s \in Seq(S), NEW m
    PROVE  LET n == Cardinality({k \in DOMAIN s : s[k] = m})
           IN  /\ n \in Nat
               /\ ~Has(s, {m}) => n = 0
               /\ Once(s, {m}) => n \in {0, 1}
               /\ Once(s, {m}) /\ Has(s, {m}) => n = 1
  <1> DEFINE K == {k \in DOMAIN s : s[k] = m}
  <1>1. K \subseteq 1 .. Len(s) /\ Len(s) \in Nat /\ DOMAIN s = 1 .. Len(s)
      OBVIOUS
  <1>2. IsFiniteSet(1 .. Len(s))
      BY <1>1, FS_Interval
  <1>3. IsFiniteSet(K)
      BY <1>1, <1>2, FS_Subset
  <1>4. Cardinality(K) \in Nat
      BY <1>3, FS_CardinalityType
  <1>5. CASE ~Has(s, {m})
    <2>1. K = {}
        BY <1>1, <1>5 DEF Has
    <2>2. Cardinality(K) = 0
        BY <2>1, FS_EmptySet
    <2> QED
        BY <1>5, <2>2
  <1>6. CASE Has(s, {m})
    <2>1. PICK k \in 1 .. Len(s) : s[k] = m
        BY <1>6 DEF Has
    <2>2. Once(s, {m}) => K = {k}
        BY <1>1, <2>1 DEF Once
    <2>3. Once(s, {m}) => Cardinality(K) = 1
        BY <2>2, FS_Singleton
    <2> QED
        BY <1>4, <1>6, <2>3
  <1> QED
      BY <1>5, <1>6

LEMMA ProcessType ==
    ASSUME ServerTypeOK, NEW c \in Sockets, NEW ms \in Seq(Message), Process(c, ms)
    PROVE  /\ executing' \subseteq Sockets \X Ids
           /\ starts' \in [Ids -> Nat]
           /\ connSubs' \subseteq Sockets
  <1>1. DOMAIN ms = 1 .. Len(ms) /\ \A n \in 1 .. Len(ms) : ms[n] \in Message
      OBVIOUS
  <1>2. Started(c, ms) \subseteq Sockets \X Ids
      BY <1>1, MessageTypes DEF Started, IsAction
  <1> DEFINE Count(i) == Cardinality({n \in DOMAIN ms : ms[n] = About("Action", i)})
  <1>3. \A i \in Ids : Count(i) \in Nat
      BY CountType
  <1>4. starts' = [i \in Ids |-> starts[i] + Count(i)]
      BY DEF Process
  <1> HIDE DEF Count
  <1>5. starts' \in [Ids -> Nat]
      BY <1>3, <1>4 DEF ServerTypeOK
  <1> QED
      BY <1>2, <1>5 DEF Process, ServerTypeOK

LEMMA SendToEffect ==
    ASSUME down \in Channel, NEW C, NEW m \in Message, SendTo(C, m)
    PROVE  /\ down' \in Channel
           /\ \A d \in Sockets : down'[d] =
                 IF d \in C /\ handlers[d] = "live" /\ d \notin downShut
                 THEN Append(down[d], m) ELSE down[d]
  BY DEF SendTo, Channel

LEMMA ServerTypes ==
    ASSUME TypeOK, NEW c \in Sockets, ServerStep(c)
    PROVE  TypeOK'
  <1>1. ClientTypeOK /\ ListenerTypeOK /\ NetTypeOK /\ ServerTypeOK /\ CallTypeOK
      BY TypeParts
  <1>2. <<Close>> \in Seq(Message) /\ <<Plain("Init")>> \in Seq(Message)
      BY MessageTypes DEF Close
  <1>3. CASE ConnCreated(c)
    <2>1. inbox[c] \in Seq(Message)
        BY <1>1 DEF ServerTypeOK, Channel
    <2>2. /\ executing' \subseteq Sockets \X Ids /\ starts' \in [Ids -> Nat]
          /\ connSubs' \subseteq Sockets
        BY <1>1, <1>3, <2>1, ProcessType DEF ConnCreated
    <2>3. index' \subseteq Sockets
        BY <1>1, <1>3 DEF ConnCreated, IndexAfter, ServerTypeOK
    <2>4. inbox' \in Channel
        BY <1>1, <1>3, EmptyType DEF ConnCreated, ServerTypeOK, Channel
    <2>5. handlers' \in [Sockets -> {"none", "pending", "live", "gone"}]
        BY <1>1, <1>3 DEF ConnCreated, ServerTypeOK
    <2>6. ServerTypeOK'
        BY <1>1, <1>3, <2>2, <2>3, <2>4, <2>5 DEF ConnCreated, ServerTypeOK
    <2>7. down' \in Channel
        BY <1>1, <1>2, <1>3, PutEffect DEF ConnCreated, NetTypeOK
    <2>8. NetTypeOK'
        BY <1>1, <1>3, <2>7 DEF ConnCreated, NetTypeOK
    <2>9. ClientTypeOK' /\ ListenerTypeOK' /\ CallTypeOK'
        BY <1>1, <1>3, SameTypes DEF ConnCreated, TypeVars1, TypeVars2, TypeVars5, clientVars, eventVars, callVars
    <2> QED
        BY <2>6, <2>8, <2>9, TypeParts
  <1>4. CASE ConnRefused(c)
    <2>1. down' \in Channel
      <3>1. <<Close>> \in Seq(Message) /\ <<Plain("Error"), Close>> \in Seq(Message)
          BY MessageTypes DEF Close
      <3>2. PICK ms \in Seq(Message) : down' = Put(down, downShut, c, ms)
          BY <1>4, <3>1 DEF ConnRefused
      <3>3. down \in Channel
          BY <1>1 DEF NetTypeOK
      <3> QED
          BY <3>2, <3>3, PutEffect
    <2>2. NetTypeOK'
        BY <1>1, <1>4, <2>1 DEF ConnRefused, NetTypeOK
    <2>3. inbox' \in Channel
        BY <1>1, <1>4, EmptyType DEF ConnRefused, ServerTypeOK, Channel
    <2>4. ServerTypeOK'
        BY <1>1, <1>4, <2>3 DEF ConnRefused, ServerTypeOK
    <2>5. ClientTypeOK'
        BY <1>1, <1>4, FaultType DEF ConnRefused, ClientTypeOK, clientVars
    <2>6. ListenerTypeOK' /\ CallTypeOK'
        BY <1>1, <1>4, SameTypes DEF ConnRefused, TypeVars2, TypeVars5, clientVars, eventVars, callVars
    <2> QED
        BY <2>2, <2>4, <2>5, <2>6, TypeParts
  <1>5. CASE ServerReceives(c)
    <2> DEFINE m == Head(up[c])
    <2>1. m \in Message /\ up' \in Channel
        BY <1>1, <1>5, TailType DEF ServerReceives, NetTypeOK
    <2>2. down' \in Channel /\ downShut' \subseteq Sockets
      <3>1. Put(down, downShut, c, <<Close>>) \in Channel
          BY <1>1, <1>2, PutEffect DEF NetTypeOK
      <3>2. down' \in {down, Put(down, downShut, c, <<Close>>)} /\ downShut' \in {downShut, downShut \cup {c}}
          BY <1>5 DEF ServerReceives
      <3> QED
          BY <1>1, <3>1, <3>2 DEF NetTypeOK
    <2>3. NetTypeOK'
        BY <1>1, <1>5, <2>1, <2>2 DEF ServerReceives, NetTypeOK
    <2>4. ClientTypeOK' /\ ListenerTypeOK' /\ CallTypeOK'
        BY <1>1, <1>5, SameTypes DEF ServerReceives, TypeVars1, TypeVars2, TypeVars5, clientVars, eventVars, callVars
    <2> HIDE DEF m
    <2>5. ServerTypeOK'
      <3>1. CASE inbox' = [inbox EXCEPT ![c] = Append(@, m)] /\ UNCHANGED <<handlers, connSubs, index, executing, starts, broadcast>>
        <4>1. inbox' \in Channel
            BY <1>1, <2>1, <3>1 DEF ServerTypeOK, Channel
        <4> QED
            BY <1>1, <3>1, <4>1 DEF ServerTypeOK
      <3>2. CASE Process(c, <<m>>) /\ index' = IndexAfter(c, <<m>>) /\ UNCHANGED <<handlers, inbox, broadcast>>
        <4>1. <<m>> \in Seq(Message)
            BY <2>1
        <4>2. index' \subseteq Sockets
            BY <1>1, <3>2 DEF IndexAfter, ServerTypeOK
        <4>3. /\ executing' \subseteq Sockets \X Ids /\ starts' \in [Ids -> Nat]
              /\ connSubs' \subseteq Sockets
            BY <1>1, <3>2, <4>1, ProcessType
        <4> QED
            BY <1>1, <3>2, <4>2, <4>3 DEF ServerTypeOK
      <3>3. CASE /\ handlers' = [handlers EXCEPT ![c] = "gone"] /\ index' = index \ {c}
                 /\ UNCHANGED <<inbox, connSubs, executing, starts, broadcast>>
          BY <1>1, <3>3 DEF ServerTypeOK
      <3>4. CASE UNCHANGED TypeVars4
          BY <1>1, <3>4, SameTypes
      <3> QED
          BY <1>5, <3>1, <3>2, <3>3, <3>4 DEF ServerReceives, TypeVars4, m
    <2> QED
        BY <2>3, <2>4, <2>5, TypeParts
  <1>6. CASE Disconnect(c)
    <2>1. down' \in Channel
        BY <1>1, <1>2, <1>6, PutEffect DEF Disconnect, NetTypeOK
    <2>2. NetTypeOK'
        BY <1>1, <1>6, <2>1 DEF Disconnect, NetTypeOK
    <2>3. ClientTypeOK'
        BY <1>1, <1>6, FaultType DEF Disconnect, ClientTypeOK, clientVars
    <2>4. ListenerTypeOK' /\ ServerTypeOK' /\ CallTypeOK'
        BY <1>1, <1>6, SameTypes DEF Disconnect, TypeVars2, TypeVars4, TypeVars5, clientVars, eventVars, serverVars, callVars
    <2> QED
        BY <2>2, <2>3, <2>4, TypeParts
  <1>7. CASE LinkLost(c)
    <2>1. PICK u \in Remains(up, upShut, c), d \in Remains(down, downShut, c) :
             up' = [up EXCEPT ![c] = u] /\ down' = [down EXCEPT ![c] = d]
        BY <1>7 DEF LinkLost
    <2>2. u \in Seq(Message) /\ d \in Seq(Message)
        BY <1>1, RemainsEffect DEF NetTypeOK
    <2>3. up' \in Channel /\ down' \in Channel
        BY <1>1, <2>1, <2>2 DEF NetTypeOK, Channel
    <2>4. NetTypeOK'
        BY <1>1, <1>7, <2>3 DEF LinkLost, NetTypeOK
    <2>5. ClientTypeOK'
        BY <1>1, <1>7, FaultType DEF LinkLost, ClientTypeOK, clientVars
    <2>6. ListenerTypeOK' /\ ServerTypeOK' /\ CallTypeOK'
        BY <1>1, <1>7, SameTypes DEF LinkLost, TypeVars2, TypeVars4, TypeVars5, clientVars, eventVars, serverVars, callVars
    <2> QED
        BY <2>4, <2>5, <2>6, TypeParts
  <1> QED
      BY <1>3, <1>4, <1>5, <1>6, <1>7 DEF ServerStep

LEMMA ActionTypes ==
    ASSUME TypeOK, CallbackReturns \/ \E x \in executing : Broadcast(x) \/ ActionEnds(x)
    PROVE  TypeOK'
  <1>1. ClientTypeOK /\ ListenerTypeOK /\ NetTypeOK /\ ServerTypeOK /\ CallTypeOK
      BY TypeParts
  <1>2. CASE CallbackReturns
    <2>1. Tail(todo) \in Seq(Listeners)
        BY <1>1, <1>2 DEF CallbackReturns, ListenerTypeOK
    <2>2. \A l : Without(listeners, l) \in Seq(Listeners)
        BY <1>1, WithoutEffect DEF ListenerTypeOK
    <2>3. listeners \in Seq(Listeners)
        BY <1>1 DEF ListenerTypeOK
    <2>4. listeners' \in {<<>>, listeners, Without(listeners, Head(todo))}
        BY <1>2 DEF CallbackReturns
    <2>5. listeners' \in Seq(Listeners)
        BY <2>2, <2>3, <2>4, EmptyType, Zenon
    <2>6. entry' \in BOOLEAN /\ detached' \in BOOLEAN /\ todo' \in Seq(Listeners)
        BY <1>1, <1>2, <2>1 DEF CallbackReturns, ListenerTypeOK
    <2>7. ListenerTypeOK'
        BY <1>1, <1>2, <2>5, <2>6 DEF CallbackReturns, ListenerTypeOK, callVars, history
    <2>8. ClientTypeOK' /\ NetTypeOK' /\ ServerTypeOK' /\ CallTypeOK'
        BY <1>1, <1>2, SameTypes DEF CallbackReturns, TypeVars1, TypeVars3, TypeVars4, TypeVars5, clientVars, netVars, serverVars, callVars, history
    <2> QED
        BY <2>7, <2>8, TypeParts
  <1>3. ASSUME NEW x \in executing, Broadcast(x) PROVE TypeOK'
    <2>1. x[2] \in Ids
        BY <1>1 DEF ServerTypeOK
    <2>2. About("Event", x[2]) \in Message
        BY <2>1, MessageTypes
    <2>3. down' \in Channel
        BY <1>1, <1>3, <2>2, SendToEffect DEF Broadcast, NetTypeOK
    <2>4. NetTypeOK'
        BY <1>1, <1>3, <2>3 DEF Broadcast, NetTypeOK
    <2>5. ServerTypeOK'
        BY <1>1, <1>3, <2>1 DEF Broadcast, ServerTypeOK, serverVars
    <2>6. ClientTypeOK' /\ ListenerTypeOK' /\ CallTypeOK'
        BY <1>1, <1>3, SameTypes DEF Broadcast, TypeVars1, TypeVars2, TypeVars5, clientVars, eventVars, callVars
    <2> QED
        BY <2>4, <2>5, <2>6, TypeParts
  <1>4. ASSUME NEW x \in executing, ActionEnds(x) PROVE TypeOK'
    <2>1. x[2] \in Ids
        BY <1>1 DEF ServerTypeOK
    <2>2. \A t \in {"Response", "Error"} : About(t, x[2]) \in Message
        BY <2>1, MessageTypes
    <2>3. down' \in Channel
        BY <1>1, <1>4, <2>2, SendToEffect DEF ActionEnds, NetTypeOK
    <2>4. NetTypeOK'
        BY <1>1, <1>4, <2>3 DEF ActionEnds, NetTypeOK
    <2>5. ServerTypeOK'
        BY <1>1, <1>4 DEF ActionEnds, ServerTypeOK, history
    <2>6. ClientTypeOK' /\ ListenerTypeOK' /\ CallTypeOK'
        BY <1>1, <1>4, SameTypes DEF ActionEnds, TypeVars1, TypeVars2, TypeVars5, clientVars, eventVars, callVars, history
    <2> QED
        BY <2>4, <2>5, <2>6, TypeParts
  <1> QED
      BY <1>2, <1>3, <1>4

LEMMA TypeStep == TypeOK /\ [Next]_vars => TypeOK'
  <1> SUFFICES ASSUME TypeOK, [Next]_vars PROVE TypeOK'
      OBVIOUS
  <1>1. CASE UNCHANGED vars
      BY <1>1 DEF vars, TypeOK, clientVars, eventVars, netVars, serverVars, callVars, history
  <1>2. ASSUME NEW c \in Sockets, ClientStep(c) PROVE TypeOK'
      BY <1>2, ConnectingTypes, ReceiveTypes DEF ClientStep
  <1> QED
      BY <1>1, <1>2, ApplicationTypes, ConnectingTypes, ServerTypes, ActionTypes DEF Next

(* Every reachable state of the client, the sockets, the server and the    *)
(* history has its type; in particular an Action message names an action   *)
(* that was called, as Ids bounds the counter of action().                 *)
THEOREM ConnectionTypeCorrect == Spec => []TypeOK
  <1> QED
      BY TypeInit, TypeStep, PTL DEF Spec

-----------------------------------------------------------------------------
(* Sockets and attempts.  A socket that is not closed is the transport; an *)
(* attempt dials without one and waits with one; as long as the connection *)
(* is not disposed pRetry follows the attempt.                             *)

Alive == {"connecting", "open", "closing"}

SocketInv ==
    /\ \A c \in Sockets : ready[c] \in Alive => c = transport
    /\ transport # 0 => ready[transport] \in Alive
    /\ \A c \in Sockets : c > dialled => ready[c] = "none"
    /\ \A c \in Sockets : ready[c] \in {"none", "connecting"} => handlers[c] = "none"
    /\ \A c \in Sockets : ready[c] = "closing" => disposed

RetryInv ==
    /\ attempt = "dialing" => transport = 0
    /\ attempt = "waiting" => transport # 0
    /\ ~disposed => retry # "aborted" /\ (retry = "attempt" <=> attempt # "none")
    /\ disposed => retry \in {"idle", "aborted"}
    /\ disposed /\ attempt # "none" => retry = "aborted"
    /\ ~disposed /\ attempt = "none" /\ transport = 0 => retry = "backoff"

LEMMA SocketInit == Init => SocketInv /\ RetryInv
  BY DEF Init, SocketInv, RetryInv, Alive

LEMMA SameSockets ==
    ASSUME SocketInv, RetryInv, UNCHANGED <<disposed, retry, attempt, transport, dialled, ready, handlers>>
    PROVE  SocketInv' /\ RetryInv'
  BY DEF SocketInv, RetryInv

(* The end of socket c, by a failed handshake or a close.                  *)
LEMMA SocketClosed ==
    ASSUME TypeOK, SocketInv, RetryInv, NEW c \in Sockets, ready[c] \in Alive,
           ready' = [ready EXCEPT ![c] = "closed"], HandleOnClose,
           UNCHANGED <<disposed, dialled, handlers>>
    PROVE  SocketInv' /\ RetryInv'
  <1>1. ClientTypeOK /\ NetTypeOK /\ ServerTypeOK
      BY TypeParts
  <1>2. c = transport /\ transport' = 0 /\ transport # 0
      BY Constants DEF SocketInv, HandleOnClose
  <1>3. \A d \in Sockets : ready'[d] = IF d = c THEN "closed" ELSE ready[d]
      BY <1>1 DEF NetTypeOK
  <1>4. SocketInv'
      BY <1>2, <1>3 DEF SocketInv, Alive
  <1>5. RetryInv'
    <2>1. CASE attempt # "none"
      <3>1. attempt' = "none" /\ retry' = IF retry = "attempt" THEN "backoff" ELSE retry
          BY <2>1 DEF HandleOnClose, AttemptFails
      <3> QED
          BY <1>1, <1>2, <2>1, <3>1 DEF RetryInv, ClientTypeOK
    <2>2. CASE attempt = "none" /\ ~disposed
      <3>1. retry \in {"idle", "backoff"}
          BY <1>1, <2>2 DEF RetryInv, ClientTypeOK
      <3>2. CASE retry = "idle"
        <4>1. retry' = "attempt" /\ attempt' = "dialing"
            BY <2>2, <3>2 DEF HandleOnClose
        <4> QED
            BY <1>1, <1>2, <2>2, <4>1 DEF RetryInv, ClientTypeOK
      <3>3. CASE retry = "backoff"
        <4>1. UNCHANGED <<retry, attempt>>
            BY <2>2, <3>3 DEF HandleOnClose
        <4> QED
            BY <1>1, <1>2, <2>2, <3>3, <4>1 DEF RetryInv, ClientTypeOK
      <3> QED
          BY <3>1, <3>2, <3>3
    <2>3. CASE attempt = "none" /\ disposed
      <3>1. UNCHANGED <<retry, attempt>>
          BY <2>3 DEF HandleOnClose
      <3> QED
          BY <1>1, <1>2, <2>3, <3>1 DEF RetryInv, ClientTypeOK
    <2> QED
        BY <1>1, <2>1, <2>2, <2>3 DEF ClientTypeOK
  <1> QED
      BY <1>4, <1>5

LEMMA SocketStep ==
    ASSUME TypeOK, SocketInv, RetryInv, [Next]_vars
    PROVE  SocketInv' /\ RetryInv'
  <1>1. ClientTypeOK /\ NetTypeOK /\ ServerTypeOK
      BY TypeParts
  <1>2. CASE UNCHANGED vars
      BY <1>2, SameSockets DEF vars, clientVars, netVars, serverVars
  <1>3. CASE Call
      BY <1>3, SameSockets DEF Call, serverVars
  <1>4. CASE Dispose
    <2>1. CASE transport = 0
        BY <1>1, <1>4, <2>1 DEF Dispose, SocketInv, RetryInv, ClientTypeOK, serverVars
    <2>2. CASE transport # 0
      <3>1. ready' = [ready EXCEPT ![transport] = "closing"] /\ transport \in Sockets
          BY <1>1, <1>4, <2>2 DEF Dispose, ClientTypeOK
      <3>2. \A d \in Sockets : ready'[d] = IF d = transport THEN "closing" ELSE ready[d]
          BY <1>1, <3>1 DEF NetTypeOK
      <3>3. UNCHANGED <<attempt, transport, dialled, handlers>> /\ disposed' = TRUE /\ ~disposed
          BY <1>4 DEF Dispose, serverVars
      <3>4. SocketInv'
          BY <1>1, <3>1, <3>2, <3>3, Constants DEF SocketInv, Alive, NetTypeOK
      <3>5. RetryInv'
          BY <1>1, <1>4, <3>3 DEF Dispose, RetryInv, ClientTypeOK
      <3> QED
          BY <3>4, <3>5
    <2> QED
        BY <2>1, <2>2
  <1>5. ASSUME NEW l \in Listeners, On(l) \/ Off(l) PROVE SocketInv' /\ RetryInv'
      BY <1>5, SameSockets DEF On, Off, clientVars, serverVars
  <1>6. CASE DialSucceeds
    <2>1. /\ transport = 0 /\ attempt = "dialing" /\ attempt' = "waiting"
          /\ dialled' = dialled + 1 /\ transport' = dialled + 1 /\ dialled + 1 \in Sockets
          /\ ready' = [ready EXCEPT ![dialled + 1] = "connecting"]
          /\ UNCHANGED <<disposed, retry, handlers>>
        BY <1>1, <1>6, Constants DEF DialSucceeds, RetryInv, NetTypeOK, Sockets, serverVars
    <2>2. dialled \in Nat
        BY <1>1, Constants DEF NetTypeOK
    <2>3. \A d \in Sockets : ready'[d] = IF d = dialled + 1 THEN "connecting" ELSE ready[d]
        BY <1>1, <2>1 DEF NetTypeOK
    <2>4. ready[dialled + 1] = "none"
        BY <2>1, <2>2 DEF SocketInv
    <2>5. \A d \in Sockets : ready[d] \notin Alive
        BY <2>1, Constants DEF SocketInv
    <2>6. SocketInv'
        BY <2>1, <2>2, <2>3, <2>4, <2>5, Constants DEF SocketInv, Alive
    <2>7. RetryInv'
        BY <2>1, <2>2 DEF RetryInv
    <2> QED
        BY <2>6, <2>7
  <1>7. CASE DialFails
      BY <1>1, <1>7 DEF DialFails, AttemptFails, SocketInv, RetryInv, netVars, serverVars, ClientTypeOK
  <1>8. CASE BackoffElapses
      BY <1>1, <1>8 DEF BackoffElapses, SocketInv, RetryInv, netVars, serverVars, ClientTypeOK
  <1>9. CASE CallbackReturns
      BY <1>9, SameSockets DEF CallbackReturns, clientVars, netVars, serverVars
  <1>10. ASSUME NEW c \in Sockets, SocketOpens(c) PROVE SocketInv' /\ RetryInv'
    <2>1. /\ ready[c] = "connecting" /\ ready' = [ready EXCEPT ![c] = "open"]
          /\ handlers' = [handlers EXCEPT ![c] = "pending"]
          /\ UNCHANGED <<disposed, retry, attempt, transport, dialled>>
        BY <1>10 DEF SocketOpens, clientVars
    <2>2. \A d \in Sockets : /\ ready'[d] = IF d = c THEN "open" ELSE ready[d]
                             /\ handlers'[d] = IF d = c THEN "pending" ELSE handlers[d]
        BY <1>1, <2>1 DEF NetTypeOK, ServerTypeOK
    <2>3. SocketInv'
        BY <2>1, <2>2 DEF SocketInv, Alive
    <2> QED
        BY <2>1, <2>3 DEF RetryInv
  <1>11. ASSUME NEW c \in Sockets, SocketFails(c) \/ ReceiveClose(c) PROVE SocketInv' /\ RetryInv'
    <2>1. /\ ready[c] \in Alive /\ ready' = [ready EXCEPT ![c] = "closed"] /\ HandleOnClose
          /\ UNCHANGED <<disposed, dialled, handlers>>
        BY <1>11 DEF SocketFails, ReceiveClose, Receive, Alive, serverVars
    <2> QED
        BY <2>1, SocketClosed
  <1>12. ASSUME NEW c \in Sockets, ReceiveInit(c) PROVE SocketInv' /\ RetryInv'
    <2>1. /\ ready[c] \in Alive /\ AttemptSucceeds
          /\ UNCHANGED <<disposed, transport, dialled, ready, handlers>>
        BY <1>12 DEF ReceiveInit, Receive, Alive, serverVars
    <2>2. transport # 0
        BY <2>1, Constants DEF SocketInv
    <2> QED
        BY <1>1, <2>1, <2>2 DEF AttemptSucceeds, SocketInv, RetryInv, ClientTypeOK
  <1>13. ASSUME NEW c \in Sockets, ReceiveResponse(c) \/ ReceiveError(c) \/ ReceiveEvent(c) \/ Discard(c)
         PROVE  SocketInv' /\ RetryInv'
    <2>1. CASE ReceiveError(c) /\ UNCHANGED <<retry, attempt>>
        BY <2>1, SameSockets DEF ReceiveError, serverVars
    <2>2. CASE ReceiveError(c) /\ AttemptFails /\ attempt # "none"
      <3>1. UNCHANGED <<disposed, transport, dialled, ready, handlers>>
          BY <2>2 DEF ReceiveError, serverVars
      <3> QED
          BY <1>1, <2>2, <3>1 DEF AttemptFails, SocketInv, RetryInv, ClientTypeOK
    <2>3. CASE ~ReceiveError(c)
        BY <1>13, <2>3, SameSockets DEF ReceiveResponse, ReceiveEvent, Discard, clientVars, serverVars
    <2> QED
        BY <2>1, <2>2, <2>3 DEF ReceiveError
  <1>14. ASSUME NEW c \in Sockets, ServerStep(c) PROVE SocketInv' /\ RetryInv'
    <2>1. UNCHANGED <<disposed, retry, attempt, transport, dialled, ready>>
        BY <1>14 DEF ServerStep, ConnCreated, ConnRefused, ServerReceives, Disconnect, LinkLost, clientVars
    <2>2. \/ UNCHANGED handlers
          \/ handlers[c] # "none" /\ \E h \in {"live", "gone"} : handlers' = [handlers EXCEPT ![c] = h]
        BY <1>14 DEF ServerStep, ConnCreated, ConnRefused, ServerReceives, Disconnect, LinkLost, serverVars
    <2>3. \A d \in Sockets : handlers[d] = "none" => handlers'[d] = "none"
        BY <1>1, <2>2 DEF ServerTypeOK
    <2> QED
        BY <2>1, <2>3 DEF SocketInv, RetryInv
  <1>15. ASSUME NEW x \in executing, Broadcast(x) \/ ActionEnds(x) PROVE SocketInv' /\ RetryInv'
      BY <1>15, SameSockets DEF Broadcast, ActionEnds, clientVars, serverVars
  <1> QED
      BY <1>2, <1>3, <1>4, <1>5, <1>6, <1>7, <1>8, <1>9, <1>10, <1>11, <1>12, <1>13, <1>14, <1>15
         DEF Next, Application, ClientStep

LEMMA SocketsInvariant == Spec => [](TypeOK /\ SocketInv /\ RetryInv)
  <1>1. Init => TypeOK /\ SocketInv /\ RetryInv
      BY TypeInit, SocketInit
  <1>2. (TypeOK /\ SocketInv /\ RetryInv) /\ [Next]_vars => (TypeOK /\ SocketInv /\ RetryInv)'
      BY TypeStep, SocketStep
  <1> QED
      BY <1>1, <1>2, PTL DEF Spec

(* No close, refusal or failed dial leaves a client that is not disposed   *)
(* without a socket, an attempt or a timer: #handleOnClose starts a new    *)
(* attempt exactly when none is under way.                                 *)
THEOREM ClientIsNeverStranded == Spec => []NeverStranded
  <1>1. TypeOK /\ SocketInv /\ RetryInv => NeverStranded
      BY TypeParts DEF ClientTypeOK, RetryInv, NeverStranded
  <1> QED
      BY <1>1, SocketsInvariant, PTL

-----------------------------------------------------------------------------
(* Init is on its way or received: the server has made the connection, and *)
(* dropped it only after a close of the client.                            *)

Greeted(c) == Has(down[c], {Plain("Init")}) \/ (c = transport /\ retry = "idle")

GreetInv ==
    /\ \A c \in Sockets : Greeted(c) =>
          handlers[c] = "live" \/ (handlers[c] = "gone" /\ c \in upShut)
    /\ \A c \in Sockets : Has(up[c], {Close}) \/ Has(inbox[c], {Close}) => c \in upShut
    /\ \A x \in executing : handlers[x[1]] \in {"live", "gone"}

LEMMA GreetInit == Init => GreetInv
  BY HasEmpty, Constants DEF Init, GreetInv, Greeted

(* A step that leaves the server alone, sends no Init, ends no attempt with *)
(* success and says of the closes it sends that they are sent.              *)
LEMMA SameGreetings ==
    ASSUME GreetInv, UNCHANGED <<handlers, executing>>, upShut \subseteq upShut',
           retry' = "idle" => transport' = 0 \/ (transport' = transport /\ retry = "idle"),
           \A c \in Sockets : Has(down'[c], {Plain("Init")}) => Has(down[c], {Plain("Init")}),
           \A c \in Sockets : Has(up'[c], {Close}) => Has(up[c], {Close}) \/ c \in upShut',
           \A c \in Sockets : Has(inbox'[c], {Close}) => Has(inbox[c], {Close})
    PROVE  GreetInv'
  <1>1. \A c \in Sockets : Greeted(c)' => Greeted(c)
      BY Constants DEF Greeted
  <1> QED
      BY <1>1 DEF GreetInv

LEMMA Kinds ==
    /\ Plain("Init") # Close /\ Plain("Subscribe") # Close /\ Plain("Unsubscribe") # Close
    /\ Plain("Init") # Plain("Error")
    /\ \A t : \A i \in Ids : About(t, i) # Close /\ About(t, i) # Plain("Init")
    /\ \A t : \A i \in Ids : Request(i) # Plain(t)
    /\ {Close, Plain("Init"), Plain("Subscribe"), Plain("Unsubscribe")} \subseteq Message
    /\ \A m \in Message : m.tag = "Init" => m = Plain("Init")
    /\ \A i \in Ids : Request(i) \in Message
    /\ <<Close>> \in Seq(Message) /\ <<Plain("Init")>> \in Seq(Message)
  <1>1. \A t, u : Plain(t) = Plain(u) => t = u
      BY MessageTypes DEF Plain
  <1>2. \A t, u : \A i \in Ids : About(t, i) # Plain(u)
      BY MessageTypes, Constants DEF Plain
  <1>3. {Close, Plain("Init"), Plain("Subscribe"), Plain("Unsubscribe")} \subseteq Message
      BY MessageTypes DEF Close
  <1>4. \A m \in Message : m.tag = "Init" => m = Plain("Init")
      BY DEF Message, Plain, About
  <1>5. \A i \in Ids : Request(i) \in Message
      BY MessageTypes DEF Request
  <1>6. <<Close>> \in Seq(Message) /\ <<Plain("Init")>> \in Seq(Message)
      BY <1>3
  <1>7. /\ Plain("Init") # Close /\ Plain("Subscribe") # Close /\ Plain("Unsubscribe") # Close
        /\ Plain("Init") # Plain("Error")
      BY <1>1 DEF Close
  <1>8. \A t : \A i \in Ids : About(t, i) # Close /\ About(t, i) # Plain("Init")
      BY <1>2 DEF Close
  <1>9. \A t : \A i \in Ids : Request(i) # Plain(t)
      BY <1>2 DEF Request
  <1> QED
      BY <1>3, <1>4, <1>5, <1>6, <1>7, <1>8, <1>9

LEMMA HasSendNow ==
    ASSUME NetTypeOK, transport \in Sockets \cup {0}, NEW ms \in Seq(Message), SendNow(ms), NEW d \in Sockets, NEW M
    PROVE  /\ Has(up'[d], M) => Has(up[d], M) \/ (d = transport /\ CanSend /\ d \notin upShut /\ Has(ms, M))
           /\ Once(up[d], M) /\ Once(ms, M) /\ (d = transport => ~(Has(up[d], M) /\ Has(ms, M))) => Once(up'[d], M)
  <1>1. CASE CanSend
    <2>1. up' = Put(up, upShut, transport, ms) /\ transport \in Sockets
        BY <1>1 DEF SendNow, CanSend
    <2>2. up \in Channel
        BY DEF NetTypeOK
    <2>3. /\ Has(Put(up, upShut, transport, ms)[d], M) => Has(up[d], M) \/ (d = transport /\ transport \notin upShut /\ Has(ms, M))
          /\ Once(up[d], M) /\ Once(ms, M) /\ (d = transport => ~(Has(up[d], M) /\ Has(ms, M)))
                => Once(Put(up, upShut, transport, ms)[d], M)
        BY <2>1, <2>2, HasPut
    <2> QED
        BY <1>1, <2>1, <2>3
  <1>2. CASE ~CanSend
      BY <1>2 DEF SendNow
  <1> QED
      BY <1>1, <1>2

(* A single message that is not in M, sent by the application.             *)
LEMMA SendsOther ==
    ASSUME NetTypeOK, transport \in Sockets \cup {0}, NEW m \in Message, up' = up \/ SendNow(<<m>>),
           NEW d \in Sockets, NEW M, m \notin M
    PROVE  (Has(up'[d], M) => Has(up[d], M)) /\ (Once(up[d], M) => Once(up'[d], M))
  <1>1. <<m>> \in Seq(Message) /\ ~Has(<<m>>, M) /\ Once(<<m>>, M)
      BY HasSingle
  <1> QED
      BY <1>1, HasSendNow

(* What the messages of the application do to the channel of a socket.     *)
LEMMA SubscriptionSent ==
    ASSUME NEW l \in Listeners, On(l) \/ Off(l)
    PROVE  up' = up \/ \E t \in {"Subscribe", "Unsubscribe"} : SendNow(<<Plain(t)>>)
  BY DEF On, Off, SendSubscription

(* How the channels look after a message was taken.                        *)
LEMMA HasTaken ==
    ASSUME NEW ch \in Channel, NEW c \in Sockets, ch[c] # <<>>, NEW d \in Sockets, NEW M
    PROVE  /\ Has([ch EXCEPT ![c] = Tail(@)][d], M) => Has(ch[d], M)
           /\ Once(ch[d], M) => Once([ch EXCEPT ![c] = Tail(@)][d], M)
           /\ Once(ch[c], M) /\ Head(ch[c]) \in M => ~Has([ch EXCEPT ![c] = Tail(@)][c], M)
           /\ Head(ch[c]) \in M => Has(ch[c], M)
  <1>1. ch[c] \in Seq(Message) /\ [ch EXCEPT ![c] = Tail(@)][d] = IF d = c THEN Tail(ch[c]) ELSE ch[d]
      BY DEF Channel
  <1>2. [ch EXCEPT ![c] = Tail(@)][c] = Tail(ch[c])
      BY DEF Channel
  <1> QED
      BY <1>1, <1>2, HasTail

(* The requests of the queue, each as often as it is queued, and nothing   *)
(* else but subscriptions.                                                 *)
LEMMA FlushedEffect ==
    ASSUME messageQueue \in Seq(Ids)
    PROVE  /\ Flushed \in Seq(Message)
           /\ \A t : t # "Subscribe" => ~Has(Flushed, {Plain(t)})
           /\ \A i \in Ids : Has(Flushed, {Request(i)}) <=> Has(messageQueue, {i})
           /\ \A i \in Ids : Once(messageQueue, {i}) => Once(Flushed, {Request(i)})
  <1>1. /\ Flushed \in Seq(Message) /\ QueuedRequests \in Seq(Message) /\ Resubscription \in Seq(Message)
        /\ Len(QueuedRequests) = Len(messageQueue)
      BY FlushedType
  <1>2. Flushed = Resubscription \o QueuedRequests
      BY DEF Flushed
  <1>3. \A k \in 1 .. Len(messageQueue) : messageQueue[k] \in Ids /\ QueuedRequests[k] = Request(messageQueue[k])
      BY DEF QueuedRequests
  <1>4. \A i, j : Request(i) = Request(j) => i = j
      BY MessageTypes DEF Request
  <1>5. \A i \in Ids : Has(QueuedRequests, {Request(i)}) <=> Has(messageQueue, {i})
      BY <1>1, <1>3, <1>4 DEF Has
  <1>6. \A i \in Ids : Once(messageQueue, {i}) => Once(QueuedRequests, {Request(i)})
      BY <1>1, <1>3, <1>4 DEF Once
  <1>7. \A t : ~Has(QueuedRequests, {Plain(t)})
      BY <1>1, <1>3, Kinds DEF Has
  <1>8. Resubscription = <<Plain("Subscribe")>> \/ Resubscription = <<>>
      BY DEF Resubscription
  <1>9. \A M : (Has(Resubscription, M) => Plain("Subscribe") \in M) /\ Once(Resubscription, M)
      BY <1>8, HasSingle, HasEmpty
  <1>10. \A i \in Ids : ~Has(Resubscription, {Request(i)})
      BY <1>9, Kinds
  <1>11. \A t : t # "Subscribe" => ~Has(Resubscription, {Plain(t)})
      BY <1>9, MessageTypes DEF Plain
  <1>12. \A M : /\ Has(Flushed, M) <=> Has(Resubscription, M) \/ Has(QueuedRequests, M)
                /\ Once(Resubscription, M) /\ Once(QueuedRequests, M) /\ ~(Has(Resubscription, M) /\ Has(QueuedRequests, M)) => Once(Flushed, M)
      BY <1>1, <1>2, HasConcat
  <1> QED
      BY <1>1, <1>5, <1>6, <1>7, <1>9, <1>10, <1>11, <1>12

(* The actions that processing the messages starts.                        *)
LEMMA ProcessEffect ==
    ASSUME ServerTypeOK, NEW c \in Sockets, NEW ms \in Seq(Message), Process(c, ms), NEW i \in Ids
    PROVE  /\ \A d \in Sockets : <<d, i>> \in executing' <=> <<d, i>> \in executing \/ (d = c /\ Has(ms, {Request(i)}))
           /\ ~Has(ms, {Request(i)}) => starts'[i] = starts[i]
           /\ Has(ms, {Request(i)}) /\ Once(ms, {Request(i)}) => starts'[i] = starts[i] + 1
  <1>1. \A n \in 1 .. Len(ms) : ms[n] \in Message /\ ms[n] = About(ms[n].tag, ms[n].id)
      BY MessageTypes
  <1>2. DOMAIN ms = 1 .. Len(ms)
      OBVIOUS
  <1>3. \A d : <<d, i>> \in Started(c, ms) <=> d = c /\ \E n \in 1 .. Len(ms) : IsAction(ms[n]) /\ ms[n].id = i
      BY <1>2 DEF Started
  <1>4. \A n \in 1 .. Len(ms) : IsAction(ms[n]) /\ ms[n].id = i <=> ms[n] = Request(i)
      BY <1>1, MessageTypes DEF IsAction, Request, About
  <1>5. \A d : <<d, i>> \in Started(c, ms) <=> d = c /\ Has(ms, {Request(i)})
      BY <1>3, <1>4 DEF Has
  <1> DEFINE n == Cardinality({k \in DOMAIN ms : ms[k] = Request(i)})
  <1>6. n \in Nat /\ (~Has(ms, {Request(i)}) => n = 0) /\ (Once(ms, {Request(i)}) /\ Has(ms, {Request(i)}) => n = 1)
      BY CountType
  <1>7. starts'[i] = starts[i] + n
      BY DEF Process, Request
  <1> HIDE DEF n
  <1>8. starts[i] \in Nat
      BY DEF ServerTypeOK
  <1>9. executing' = executing \cup Started(c, ms)
      BY DEF Process
  <1>10. \A d \in Sockets : <<d, i>> \in executing' <=> <<d, i>> \in executing \/ (d = c /\ Has(ms, {Request(i)}))
      BY <1>5, <1>9
  <1>11. ~Has(ms, {Request(i)}) => starts'[i] = starts[i]
      BY <1>6, <1>7, <1>8
  <1>12. Has(ms, {Request(i)}) /\ Once(ms, {Request(i)}) => starts'[i] = starts[i] + 1
      BY <1>6, <1>7, <1>8
  <1> QED
      BY <1>10, <1>11, <1>12

(* Only the connection itself starts actions.                              *)
LEMMA StartedHere ==
    ASSUME NEW c, NEW ms, Process(c, ms)
    PROVE  \A x \in executing' : x \in executing \/ x[1] = c
  BY DEF Process, Started

(* A refusal sends nothing but an error of the connection and a close.     *)
LEMMA Refusal ==
    ASSUME down \in Channel, NEW c \in Sockets, ConnRefused(c), NEW d \in Sockets,
           NEW M, Close \notin M, Plain("Error") \notin M
    PROVE  /\ Has(down'[d], M) => Has(down[d], M)
           /\ Once(down[d], M) => Once(down'[d], M)
           /\ d # c => down'[d] = down[d]
  <1>1. PICK ms \in {<<Close>>, <<Plain("Error"), Close>>} : down' = Put(down, downShut, c, ms)
      BY DEF ConnRefused
  <1>2. ms \in Seq(Message)
      BY MessageTypes DEF Close
  <1>3. ~Has(ms, M) /\ Once(ms, M)
    <2>1. \A k \in 1 .. Len(ms) : ms[k] \notin M
        OBVIOUS
    <2> QED
        BY <2>1 DEF Has, Once
  <1>4. d # c => down'[d] = down[d]
      BY <1>1 DEF Put, Channel
  <1> QED
      BY <1>1, <1>2, <1>3, <1>4, HasPut

LEMMA GreetStep ==
    ASSUME TypeOK, SocketInv, RetryInv, GreetInv, [Next]_vars
    PROVE  GreetInv'
  <1>1. ClientTypeOK /\ NetTypeOK /\ ServerTypeOK
      BY TypeParts
  <1>2. up \in Channel /\ down \in Channel /\ inbox \in Channel /\ transport \in Sockets \cup {0}
      BY <1>1 DEF ClientTypeOK, NetTypeOK, ServerTypeOK
  <1>3. CASE UNCHANGED vars
      BY <1>3, SameGreetings DEF vars, clientVars, netVars, serverVars
  <1>4. CASE Call
    <2>1. Request(actionIdCounter) \in Message \ {Close} /\ (up' = up \/ SendNow(<<Request(actionIdCounter)>>))
        BY <1>4, Kinds DEF Call, Request
    <2>2. \A d \in Sockets : Has(up'[d], {Close}) => Has(up[d], {Close})
        BY <1>1, <1>2, <2>1, SendsOther
    <2> QED
        BY <1>4, <2>2, SameGreetings DEF Call, serverVars
  <1>5. CASE Dispose
    <2>1. UNCHANGED <<handlers, executing, inbox, transport>> /\ upShut \subseteq upShut' /\ (retry' = "idle" => retry = "idle")
        BY <1>1, <1>5 DEF Dispose, serverVars, NetTypeOK
    <2>2. \A d \in Sockets : Has(down'[d], {Plain("Init")}) => Has(down[d], {Plain("Init")})
      <3>1. CASE down' = down
          BY <3>1
      <3>2. CASE down' = [down EXCEPT ![transport] = <<Close>>]
        <4>1. \A d \in Sockets : down'[d] = IF d = transport THEN <<Close>> ELSE down[d]
            BY <1>2, <3>2 DEF Channel
        <4> QED
            BY <4>1, HasSingle, Kinds
      <3> QED
          BY <1>5, <3>1, <3>2 DEF Dispose
    <2>3. \A d \in Sockets : Has(up'[d], {Close}) => Has(up[d], {Close}) \/ d \in upShut'
      <3>1. CASE up' = up
          BY <3>1
      <3>2. CASE up' = Put(up, upShut, transport, <<Close>>) /\ upShut' = upShut \cup {transport} /\ transport # 0
        <4>1. \A d \in Sockets : Has(Put(up, upShut, transport, <<Close>>)[d], {Close}) => Has(up[d], {Close}) \/ d = transport
            BY <1>2, <3>2, PutClose, Kinds
        <4> QED
            BY <3>2, <4>1
      <3> QED
          BY <1>5, <3>1, <3>2 DEF Dispose
    <2> QED
        BY <2>1, <2>2, <2>3, SameGreetings
  <1>6. ASSUME NEW l \in Listeners, On(l) \/ Off(l) PROVE GreetInv'
    <2>1. PICK m \in {Plain("Subscribe"), Plain("Unsubscribe")} : up' = up \/ SendNow(<<m>>)
        BY <1>6, SubscriptionSent
    <2>2. \A d \in Sockets : Has(up'[d], {Close}) => Has(up[d], {Close})
        BY <1>1, <1>2, <2>1, SendsOther, Kinds
    <2> QED
        BY <1>6, <2>2, SameGreetings DEF On, Off, clientVars, serverVars
  <1>7. CASE DialSucceeds \/ BackoffElapses
    <2>1. retry' # "idle"
        BY <1>7 DEF DialSucceeds, BackoffElapses, RetryInv
    <2> QED
        BY <1>7, <2>1, SameGreetings DEF DialSucceeds, BackoffElapses, serverVars, netVars
  <1>8. CASE DialFails
      BY <1>8, SameGreetings DEF DialFails, RetryInv, serverVars, netVars
  <1>9. CASE CallbackReturns
      BY <1>9, SameGreetings DEF CallbackReturns, clientVars, serverVars, netVars
  <1>10. ASSUME NEW c \in Sockets, SocketOpens(c) PROVE GreetInv'
    <2>1. /\ ready[c] = "connecting" /\ handlers' = [handlers EXCEPT ![c] = "pending"]
          /\ UNCHANGED <<retry, transport, up, down, upShut, inbox, executing>>
        BY <1>10 DEF SocketOpens, clientVars
    <2>2. handlers[c] = "none" /\ \A d \in Sockets : handlers'[d] = IF d = c THEN "pending" ELSE handlers[d]
        BY <1>1, <2>1 DEF SocketInv, ServerTypeOK
    <2>3. \A d \in Sockets : Greeted(d)' <=> Greeted(d)
        BY <2>1 DEF Greeted
    <2>4. \A x \in executing : x[1] # c /\ x[1] \in Sockets
        BY <1>1, <2>2 DEF GreetInv, ServerTypeOK
    <2> QED
        BY <2>1, <2>2, <2>3, <2>4 DEF GreetInv
  <1>11. ASSUME NEW c \in Sockets, SocketFails(c) PROVE GreetInv'
      BY <1>11, SameGreetings DEF SocketFails, HandleOnClose, serverVars
  <1>12. ASSUME NEW c \in Sockets, ReceiveClose(c) PROVE GreetInv'
    <2>1. /\ UNCHANGED <<handlers, executing, inbox>> /\ transport' = 0 /\ upShut' = upShut \cup {c}
          /\ up' = Put(up, upShut, c, <<Close>>) /\ down[c] # <<>> /\ down' = [down EXCEPT ![c] = Tail(@)]
        BY <1>12 DEF ReceiveClose, Receive, HandleOnClose, serverVars
    <2>2. \A d \in Sockets : Has(Put(up, upShut, c, <<Close>>)[d], {Close}) => Has(up[d], {Close}) \/ d = c
        BY <1>2, PutClose, Kinds
    <2>3. \A d \in Sockets : Has([down EXCEPT ![c] = Tail(@)][d], {Plain("Init")}) => Has(down[d], {Plain("Init")})
        BY <1>2, <2>1, HasTaken
    <2> QED
        BY <2>1, <2>2, <2>3, SameGreetings
  <1>13. ASSUME NEW c \in Sockets, ReceiveResponse(c) \/ ReceiveError(c) \/ ReceiveEvent(c) \/ Discard(c) PROVE GreetInv'
    <2>1. /\ UNCHANGED <<transport, up, upShut, handlers, inbox, executing>>
          /\ down[c] # <<>> /\ down' = [down EXCEPT ![c] = Tail(@)]
          /\ retry' = "idle" => retry = "idle"
        BY <1>13 DEF ReceiveResponse, ReceiveError, ReceiveEvent, Discard, Receive, AttemptFails, clientVars, serverVars
    <2>2. \A d \in Sockets : Has([down EXCEPT ![c] = Tail(@)][d], {Plain("Init")}) => Has(down[d], {Plain("Init")})
        BY <1>2, <2>1, HasTaken
    <2> QED
        BY <2>1, <2>2, SameGreetings
  <1>14. ASSUME NEW c \in Sockets, ReceiveInit(c) PROVE GreetInv'
    <2>1. /\ UNCHANGED <<transport, upShut, handlers, inbox, executing>> /\ ready[c] \in Alive
          /\ down[c] # <<>> /\ down' = [down EXCEPT ![c] = Tail(@)] /\ Head(down[c]).tag = "Init"
        BY <1>14 DEF ReceiveInit, Receive, serverVars, Alive
    <2>2. \A d \in Sockets : Has([down EXCEPT ![c] = Tail(@)][d], {Plain("Init")}) => Has(down[d], {Plain("Init")})
        BY <1>2, <2>1, HasTaken
    <2>3. Head(down[c]) \in Message
        BY <1>2, <2>1, TailType
    <2>4. Head(down[c]) \in {Plain("Init")}
        BY <2>1, <2>3, Kinds
    <2>5. Has(down[c], {Plain("Init")})
        BY <1>2, <2>1, <2>4, HasTaken
    <2>6. c = transport
        BY <2>1 DEF SocketInv
    <2>7. \A d \in Sockets : Greeted(d)' => Greeted(d)
        BY <2>1, <2>2, <2>5, <2>6 DEF Greeted
    <2>8. \A d \in Sockets : Has(up'[d], {Close}) => Has(up[d], {Close})
      <3>1. up' = up \/ SendNow(Flushed)
          BY <1>14 DEF ReceiveInit, FlushQueue
      <3>2. Flushed \in Seq(Message) /\ ~Has(Flushed, {Close})
          BY <1>1, FlushedEffect DEF ClientTypeOK, Close
      <3> QED
          BY <1>1, <1>2, <3>1, <3>2, HasSendNow
    <2> QED
        BY <2>1, <2>7, <2>8 DEF GreetInv
  <1>15. ASSUME NEW c \in Sockets, ConnCreated(c) PROVE GreetInv'
    <2>1. /\ handlers[c] = "pending" /\ Process(c, inbox[c]) /\ inbox' = [inbox EXCEPT ![c] = <<>>]
          /\ handlers' = [handlers EXCEPT ![c] = IF Close \in Range(inbox[c]) THEN "gone" ELSE "live"]
          /\ down' = Put(down, downShut, c, <<Plain("Init")>>)
          /\ UNCHANGED <<retry, transport, up, upShut>>
        BY <1>15 DEF ConnCreated, clientVars
    <2>2. \A d \in Sockets \ {c} : handlers'[d] = handlers[d] /\ inbox'[d] = inbox[d]
        BY <1>1, <1>2, <2>1 DEF ServerTypeOK, Channel
    <2>3. inbox'[c] = <<>> /\ inbox[c] \in Seq(Message)
        BY <1>2, <2>1 DEF Channel
    <2>4. handlers'[c] = "live" \/ (handlers'[c] = "gone" /\ c \in upShut)
      <3>1. Close \in Range(inbox[c]) => Has(inbox[c], {Close})
          BY <2>3 DEF Has, Range
      <3>2. handlers'[c] = IF Close \in Range(inbox[c]) THEN "gone" ELSE "live"
          BY <1>1, <2>1 DEF ServerTypeOK
      <3> QED
          BY <3>1, <3>2 DEF GreetInv
    <2>5. \A d \in Sockets \ {c} : Greeted(d)' => Greeted(d)
      <3>1. \A d \in Sockets \ {c} : Put(down, downShut, c, <<Plain("Init")>>)[d] = down[d]
          BY <1>2 DEF Put, Channel
      <3> QED
          BY <2>1, <3>1 DEF Greeted
    <2>6. \A d \in Sockets : Has(inbox'[d], {Close}) => Has(inbox[d], {Close})
        BY <2>2, <2>3, HasEmpty
    <2>7. \A x \in executing' : handlers'[x[1]] \in {"live", "gone"}
      <3>1. \A x \in executing : x[1] \in Sockets
          BY <1>1 DEF ServerTypeOK
      <3> QED
          BY <2>1, <2>2, <2>4, <3>1, StartedHere DEF GreetInv
    <2> QED
        BY <2>1, <2>2, <2>4, <2>5, <2>6, <2>7 DEF GreetInv
  <1>16. ASSUME NEW c \in Sockets, ConnRefused(c) PROVE GreetInv'
    <2>1. /\ handlers[c] = "pending" /\ inbox' = [inbox EXCEPT ![c] = <<>>]
          /\ handlers' = [handlers EXCEPT ![c] = "gone"]
          /\ UNCHANGED <<retry, transport, up, upShut, executing>>
        BY <1>16 DEF ConnRefused, clientVars
    <2>2. \A d \in Sockets : /\ handlers'[d] = IF d = c THEN "gone" ELSE handlers[d]
                             /\ inbox'[d] = IF d = c THEN <<>> ELSE inbox[d]
        BY <1>1, <1>2, <2>1 DEF ServerTypeOK, Channel
    <2>3. \A d \in Sockets : Has(down'[d], {Plain("Init")}) => Has(down[d], {Plain("Init")})
        BY <1>2, <1>16, Refusal, Kinds
    <2>4. \A d \in Sockets : Greeted(d)' => Greeted(d) /\ d # c
        BY <2>1, <2>3 DEF Greeted, GreetInv
    <2>5. \A d \in Sockets : Has(inbox'[d], {Close}) => Has(inbox[d], {Close})
        BY <2>2, HasEmpty
    <2>6. \A x \in executing : x[1] \in Sockets
        BY <1>1 DEF ServerTypeOK
    <2> QED
        BY <2>1, <2>2, <2>4, <2>5, <2>6 DEF GreetInv
  <1>17. ASSUME NEW c \in Sockets, ServerReceives(c) PROVE GreetInv'
    <2> DEFINE m == Head(up[c])
    <2>1. /\ up[c] # <<>> /\ up' = [up EXCEPT ![c] = Tail(@)]
          /\ UNCHANGED <<retry, transport, upShut>>
          /\ down' = down \/ down' = Put(down, downShut, c, <<Close>>)
        BY <1>17 DEF ServerReceives, clientVars
    <2>2. \A d \in Sockets : Has([up EXCEPT ![c] = Tail(@)][d], {Close}) => Has(up[d], {Close})
        BY <1>2, <2>1, HasTaken
    <2>3. m = Close => c \in upShut
      <3>1. m = Close => Has(up[c], {Close})
          BY <1>2, <2>1, HasTaken
      <3> QED
          BY <3>1 DEF GreetInv
    <2>4. \A d \in Sockets : Has(Put(down, downShut, c, <<Close>>)[d], {Plain("Init")}) => Has(down[d], {Plain("Init")})
        BY <1>2, PutClose, Kinds
    <2>5. \A d \in Sockets : Greeted(d)' => Greeted(d)
        BY <2>1, <2>4 DEF Greeted
    <2>6. m \in Message /\ \A x \in executing : x[1] \in Sockets
        BY <1>1, <1>2, <2>1, TailType DEF ServerTypeOK
    <2>7. CASE /\ handlers[c] = "pending" /\ inbox' = [inbox EXCEPT ![c] = Append(@, m)] /\ UNCHANGED <<handlers, executing>>
      <3>1. \A d \in Sockets : inbox'[d] = IF d = c THEN Append(inbox[c], m) ELSE inbox[d]
          BY <1>2, <2>7 DEF Channel
      <3>2. inbox[c] \in Seq(Message)
          BY <1>2 DEF Channel
      <3>3. Has(Append(inbox[c], m), {Close}) => Has(inbox[c], {Close}) \/ m = Close
          BY <2>6, <3>2, HasAppend
      <3>4. \A d \in Sockets : Has(inbox'[d], {Close}) => Has(inbox[d], {Close}) \/ (d = c /\ m = Close)
          BY <3>1, <3>3
      <3> HIDE DEF m
      <3> QED
          BY <2>1, <2>2, <2>3, <2>5, <2>7, <3>4 DEF GreetInv
    <2>8. CASE handlers[c] = "live" /\ Process(c, <<m>>) /\ UNCHANGED <<handlers, inbox>>
      <3>1. \A x \in executing' : handlers[x[1]] \in {"live", "gone"}
          BY <2>8, StartedHere DEF GreetInv
      <3> HIDE DEF m
      <3> QED
          BY <2>1, <2>2, <2>5, <2>8, <3>1 DEF GreetInv
    <2>9. CASE m = Close /\ handlers' = [handlers EXCEPT ![c] = "gone"] /\ UNCHANGED <<inbox, executing>>
      <3>1. \A d \in Sockets : handlers'[d] = IF d = c THEN "gone" ELSE handlers[d]
          BY <1>1, <2>9 DEF ServerTypeOK
      <3> HIDE DEF m
      <3> QED
          BY <2>1, <2>2, <2>3, <2>5, <2>6, <2>9, <3>1 DEF GreetInv
    <2>10. CASE UNCHANGED <<handlers, inbox, executing>>
        BY <2>1, <2>2, <2>5, <2>10 DEF GreetInv
    <2> QED
        BY <1>17, <2>7, <2>8, <2>9, <2>10 DEF ServerReceives
  <1>18. ASSUME NEW c \in Sockets, Disconnect(c) PROVE GreetInv'
    <2>1. /\ down' = Put(down, downShut, c, <<Close>>)
          /\ UNCHANGED <<retry, transport, up, upShut, handlers, inbox, executing>>
        BY <1>18 DEF Disconnect, clientVars, serverVars
    <2>2. \A d \in Sockets : Has(Put(down, downShut, c, <<Close>>)[d], {Plain("Init")}) => Has(down[d], {Plain("Init")})
        BY <1>2, PutClose, Kinds
    <2> QED
        BY <2>1, <2>2, SameGreetings
  <1>19. ASSUME NEW c \in Sockets, LinkLost(c) PROVE GreetInv'
    <2>1. PICK u \in Remains(up, upShut, c), v \in Remains(down, downShut, c) :
             up' = [up EXCEPT ![c] = u] /\ down' = [down EXCEPT ![c] = v]
        BY <1>19 DEF LinkLost
    <2>2. upShut' = upShut \cup {c} /\ UNCHANGED <<retry, transport, handlers, inbox, executing>>
        BY <1>19 DEF LinkLost, clientVars, serverVars
    <2>3. \A d \in Sockets : up'[d] = (IF d = c THEN u ELSE up[d]) /\ down'[d] = IF d = c THEN v ELSE down[d]
        BY <1>2, <2>1 DEF Channel
    <2>4. Has(v, {Plain("Init")}) => Has(down[c], {Plain("Init")})
        BY <1>2, HasRemains, Kinds
    <2> QED
        BY <2>2, <2>3, <2>4, SameGreetings
  <1>20. ASSUME NEW x \in executing, Broadcast(x) \/ ActionEnds(x) PROVE GreetInv'
    <2>1. x \in Sockets \X Ids
        BY <1>1 DEF ServerTypeOK
    <2>2. PICK m \in {About(t, x[2]) : t \in {"Event", "Response", "Error"}}, C \in {index, {x[1]}} : SendTo(C, m)
        BY <1>20 DEF Broadcast, ActionEnds
    <2>3. m \in Message /\ m # Plain("Init")
        BY <2>1, <2>2, MessageTypes, Kinds
    <2>4. \A d \in Sockets : Has(down'[d], {Plain("Init")}) => Has(down[d], {Plain("Init")})
        BY <1>2, <2>2, <2>3, HasSent
    <2>5. \A d \in Sockets : Greeted(d)' => Greeted(d)
        BY <1>20, <2>4 DEF Greeted, Broadcast, ActionEnds, clientVars
    <2>6. UNCHANGED <<handlers, up, inbox, upShut>> /\ executing' \subseteq executing
        BY <1>20 DEF Broadcast, ActionEnds, serverVars
    <2> QED
        BY <2>5, <2>6 DEF GreetInv
  <1> QED
      BY <1>3, <1>4, <1>5, <1>6, <1>7, <1>8, <1>9, <1>10, <1>11, <1>12, <1>13, <1>14, <1>15,
         <1>16, <1>17, <1>18, <1>19, <1>20 DEF Next, Application, ClientStep, ServerStep

-----------------------------------------------------------------------------
(* Where a call is on its way from the queue to the answer: in one place at *)
(* most, and started only once it has left the queue and the channels.     *)

Answers(i) == {About("Response", i), About("Error", i)}

Places == {"queue", "up", "inbox", "executing", "down"}
Ends   == Sockets \cup {0}

At(p, c, i) ==
    \/ p = "queue" /\ c = 0 /\ Has(messageQueue, {i})
    \/ p = "up" /\ c \in Sockets /\ Has(up[c], {Request(i)})
    \/ p = "inbox" /\ c \in Sockets /\ Has(inbox[c], {Request(i)})
    \/ p = "executing" /\ c \in Sockets /\ <<c, i>> \in executing
    \/ p = "down" /\ c \in Sockets /\ Has(down[c], Answers(i))

Nowhere(i) == \A p \in Places, c \in Ends : ~At(p, c, i)

SentOnce(i) ==
    /\ Once(messageQueue, {i})
    /\ \A c \in Sockets : /\ Once(up[c], {Request(i)}) /\ Once(inbox[c], {Request(i)})
                          /\ Once(down[c], Answers(i))

OnePlace(i) ==
    /\ \A p, q \in Places, c, d \in Ends : At(p, c, i) /\ At(q, d, i) => p = q /\ c = d
    /\ SentOnce(i)

Waits == {"queue", "up", "inbox"}

StartInv(i) ==
    /\ starts[i] <= 1
    /\ \A p \in Waits, c \in Ends : At(p, c, i) => starts[i] = 0
    /\ \A c \in Sockets : <<c, i>> \in executing => starts[i] = 1
    /\ i \in broadcast => starts[i] = 1
    /\ i >= actionIdCounter => Nowhere(i) /\ starts[i] = 0 /\ i \notin inFlight

(* An error of the connection, or one taken for it, has rejected the call. *)
RejectedByOther(i) == i \notin inFlight /\ OfConnection(answeredBy[i]) /\ answeredBy[i] # i

AnswerInv(i) ==
    /\ ~Nowhere(i) => i \in inFlight \/ RejectedByOther(i)
    /\ i \in orphans => RejectedByOther(i) /\ i < actionIdCounter
    /\ outcome[i] = "resolved" => Nowhere(i)

CallInv == \A i \in Ids : OnePlace(i) /\ StartInv(i) /\ AnswerInv(i)

LEMMA CallInit == Init => CallInv
  <1> SUFFICES ASSUME Init, NEW i \in Ids PROVE OnePlace(i) /\ StartInv(i) /\ AnswerInv(i)
      BY DEF CallInv
  <1>1. messageQueue = <<>> /\ executing = {} /\ \A c \in Sockets : up[c] = <<>> /\ inbox[c] = <<>> /\ down[c] = <<>>
      BY DEF Init
  <1>2. SentOnce(i)
      BY <1>1, HasEmpty DEF SentOnce
  <1>3. \A p, c : ~At(p, c, i)
      BY <1>1, HasEmpty DEF At
  <1>4. /\ starts[i] = 0 /\ i \notin broadcast /\ i \notin inFlight /\ i \notin orphans /\ outcome[i] # "resolved"
      BY DEF Init
  <1> QED
      BY <1>1, <1>2, <1>3, <1>4 DEF OnePlace, StartInv, AnswerInv, Nowhere

(* t has no more messages of the kind than s, and each at most as often.   *)
Fewer(s, t, M) == (Has(t, M) => Has(s, M)) /\ (Once(s, M) => Once(t, M))

(* A step that moves call i nowhere, but may lose it.                      *)
Shrinks(i) ==
    /\ Fewer(messageQueue, messageQueue', {i})
    /\ \A c \in Sockets : Fewer(up[c], up'[c], {Request(i)})
    /\ \A c \in Sockets : Fewer(inbox[c], inbox'[c], {Request(i)})
    /\ \A c \in Sockets : <<c, i>> \in executing' => <<c, i>> \in executing
    /\ \A c \in Sockets : Fewer(down[c], down'[c], Answers(i))

LEMMA ShrinksEffect ==
    ASSUME NEW i \in Ids, Shrinks(i)
    PROVE  /\ \A p, c : At(p, c, i)' => At(p, c, i)
           /\ Nowhere(i) => Nowhere(i)'
           /\ OnePlace(i) => OnePlace(i)'
  <1>1. \A p, c : At(p, c, i)' => At(p, c, i)
      BY DEF At, Shrinks, Fewer
  <1>2. SentOnce(i) => SentOnce(i)'
      BY DEF SentOnce, Shrinks, Fewer
  <1> QED
      BY <1>1, <1>2 DEF OnePlace, Nowhere

(* A step that moves call i from one place to another.                     *)
LEMMA MoveEffect ==
    ASSUME NEW i \in Ids, OnePlace(i), SentOnce(i)',
           NEW p \in Places, NEW c \in Ends, NEW q \in Places, NEW d \in Ends, At(p, c, i),
           \A r \in Places, e \in Ends : At(r, e, i)' => (r = q /\ e = d) \/ (At(r, e, i) /\ ~(r = p /\ e = c))
    PROVE  /\ OnePlace(i)'
           /\ \A r \in Places, e \in Ends : At(r, e, i)' => r = q /\ e = d
  <1>1. \A r \in Places, e \in Ends : At(r, e, i)' => r = q /\ e = d
      BY DEF OnePlace
  <1> QED
      BY <1>1 DEF OnePlace

(* Calls and answers are left alone, but for a call of another action.     *)
SameAnswers(i) ==
    /\ i \in inFlight' <=> i \in inFlight
    /\ outcome'[i] = outcome[i]
    /\ answeredBy'[i] = answeredBy[i]
    /\ i \in orphans' <=> i \in orphans
    /\ actionIdCounter' = actionIdCounter \/ (i # actionIdCounter /\ actionIdCounter' = actionIdCounter + 1)

LEMMA SameCall ==
    ASSUME NEW i \in Ids, TypeOK, OnePlace(i), StartInv(i), AnswerInv(i), Shrinks(i), SameAnswers(i),
           starts'[i] = starts[i],
           i \in broadcast' => i \in broadcast \/ \E c \in Sockets : <<c, i>> \in executing
    PROVE  OnePlace(i)' /\ StartInv(i)' /\ AnswerInv(i)'
  <1>1. (\A p, c : At(p, c, i)' => At(p, c, i)) /\ (Nowhere(i) => Nowhere(i)') /\ OnePlace(i)'
      BY ShrinksEffect
  <1>2. \A c \in Sockets : <<c, i>> \in executing' => <<c, i>> \in executing
      BY DEF Shrinks
  <1>3. actionIdCounter \in Nat /\ i \in Nat
      BY TypeParts, Constants DEF ClientTypeOK
  <1>4. (i >= actionIdCounter' => i >= actionIdCounter) /\ (i < actionIdCounter => i < actionIdCounter')
      BY <1>3 DEF SameAnswers
  <1>5. StartInv(i)'
      BY <1>1, <1>2, <1>4 DEF StartInv, SameAnswers
  <1>6. AnswerInv(i)'
      BY <1>1, <1>4 DEF AnswerInv, RejectedByOther, SameAnswers
  <1> QED
      BY <1>1, <1>5, <1>6

(* A step that carries call i on starts it when it leaves the channels.    *)
LEMMA MovedCall ==
    ASSUME NEW i \in Ids, TypeOK, OnePlace(i), StartInv(i), AnswerInv(i), SentOnce(i)', SameAnswers(i),
           NEW p \in Places, NEW c \in Ends, NEW q \in Places, NEW d \in Ends, At(p, c, i),
           \A r \in Places, e \in Ends : At(r, e, i)' => (r = q /\ e = d) \/ (At(r, e, i) /\ ~(r = p /\ e = c)),
           (p \in Waits /\ q # "down") \/ (p = "executing" /\ q = "down"),
           starts'[i] = IF q = "executing" THEN starts[i] + 1 ELSE starts[i],
           i \in broadcast' => i \in broadcast
    PROVE  OnePlace(i)' /\ StartInv(i)' /\ AnswerInv(i)'
  <1>1. OnePlace(i)' /\ \A r \in Places, e \in Ends : At(r, e, i)' => r = q /\ e = d
      BY MoveEffect
  <1>2. ~Nowhere(i)
      BY DEF Nowhere
  <1>3. i \in Nat /\ actionIdCounter \in Nat /\ starts[i] \in Nat
      BY TypeParts, Constants DEF ClientTypeOK, ServerTypeOK
  <1>4. i < actionIdCounter /\ i < actionIdCounter'
      BY <1>2, <1>3 DEF StartInv, SameAnswers
  <1>5. StartInv(i)'
    <2>1. \A e \in Sockets : <<e, i>> \in executing' => At("executing", e, i)'
        BY DEF At
    <2>2. \A e \in Sockets : e \in Ends
        BY DEF Ends
    <2>3. \A e \in Sockets : <<e, i>> \in executing' => q = "executing"
        BY <1>1, <2>1, <2>2 DEF Places
    <2>4. \A r \in Waits, e \in Ends : At(r, e, i)' => q \in Waits
        BY <1>1 DEF Waits, Places
    <2>5. p \in Waits => starts[i] = 0
        BY DEF StartInv
    <2>6. p = "executing" => starts[i] = 1
        BY DEF StartInv, At
    <2>7. i \in broadcast => starts[i] = 1
        BY DEF StartInv
    <2>8. starts'[i] = IF q \in Waits THEN 0 ELSE 1
        BY <1>3, <2>5, <2>6 DEF Waits, Places
    <2>9. i \in broadcast' => starts'[i] = 1
        BY <1>3, <2>5, <2>6, <2>7, <2>8 DEF Waits, Places
    <2>10. ~(i >= actionIdCounter')
        BY <1>3, <1>4 DEF SameAnswers
    <2> QED
        BY <2>3, <2>4, <2>8, <2>9, <2>10 DEF StartInv, Waits
  <1>6. AnswerInv(i)'
    <2>1. outcome[i] # "resolved" /\ (i \in inFlight \/ RejectedByOther(i))
        BY <1>2 DEF AnswerInv
    <2> QED
        BY <1>4, <2>1 DEF AnswerInv, RejectedByOther, SameAnswers
  <1> QED
      BY <1>1, <1>5, <1>6

LEMMA AnswerKinds ==
    ASSUME NEW i \in Ids
    PROVE  /\ \A t : Plain(t) \notin Answers(i) /\ Plain(t) \notin {Request(i)}
           /\ Close \notin Answers(i) /\ Close \notin {Request(i)}
           /\ \A j \in Ids : About("Event", j) \notin Answers(i)
           /\ \A j \in Ids : \A t \in {"Response", "Error"} : About(t, j) \in Answers(i) <=> j = i
           /\ \A j \in Ids : Request(j) \in {Request(i)} <=> j = i
           /\ Answers(i) \subseteq Message
  <1>1. \A t, u : \A j \in Ids : About(t, j) # Plain(u)
      BY MessageTypes, Constants DEF Plain
  <1>2. \A t, u : \A j, k \in Ids : About(t, j) = About(u, k) => t = u /\ j = k
      BY MessageTypes
  <1> QED
      BY <1>1, <1>2, MessageTypes DEF Answers, Close, Request

LEMMA FewerSteps ==
    ASSUME NEW ch \in Channel, NEW c \in Sockets, NEW d \in Sockets, NEW M
    PROVE  /\ ch[c] # <<>> => Fewer(ch[d], [ch EXCEPT ![c] = Tail(@)][d], M)
           /\ \A shut : Close \notin M => Fewer(ch[d], Put(ch, shut, c, <<Close>>)[d], M)
           /\ Fewer(ch[d], [ch EXCEPT ![c] = <<>>][d], M)
           /\ Close \notin M => Fewer(ch[d], [ch EXCEPT ![c] = <<Close>>][d], M)
           /\ \A shut, r : r \in Remains(ch, shut, c) /\ Close \notin M => Fewer(ch[d], [ch EXCEPT ![c] = r][d], M)
  <1>1. ch[c] # <<>> => Fewer(ch[d], [ch EXCEPT ![c] = Tail(@)][d], M)
      BY HasTaken DEF Fewer
  <1>2. \A shut : Close \notin M => Fewer(ch[d], Put(ch, shut, c, <<Close>>)[d], M)
      BY PutClose DEF Fewer
  <1>3. \A r : [ch EXCEPT ![c] = r][d] = IF d = c THEN r ELSE ch[d]
      BY DEF Channel
  <1>4. Has(<<>>, M) = FALSE /\ Once(<<>>, M)
      BY HasEmpty
  <1>5. Close \notin M => ~Has(<<Close>>, M) /\ Once(<<Close>>, M)
      BY HasSingle
  <1>6. Fewer(ch[d], [ch EXCEPT ![c] = <<>>][d], M)
      BY <1>3, <1>4 DEF Fewer
  <1>7. Close \notin M => Fewer(ch[d], [ch EXCEPT ![c] = <<Close>>][d], M)
      BY <1>3, <1>5 DEF Fewer
  <1>8. ASSUME NEW shut, NEW r \in Remains(ch, shut, c), Close \notin M PROVE Fewer(ch[d], [ch EXCEPT ![c] = r][d], M)
    <2>1. Fewer(ch[c], r, M)
        BY <1>8, HasRemains DEF Fewer
    <2> QED
        BY <1>3, <2>1 DEF Fewer
  <1> QED
      BY <1>1, <1>2, <1>6, <1>7, <1>8

LEMMA FewerSame == \A s, M : Fewer(s, s, M)
  BY DEF Fewer

LEMMA FewerPut ==
    ASSUME NEW ch \in Channel, NEW shut, NEW c \in Sockets, NEW d \in Sockets, NEW M,
           NEW ms \in Seq(Message), ~Has(ms, M), Once(ms, M)
    PROVE  Fewer(ch[d], Put(ch, shut, c, ms)[d], M)
  <1>1. Has(Put(ch, shut, c, ms)[d], M) => Has(ch[d], M)
      BY HasPut
  <1>2. Once(ch[d], M) => Once(Put(ch, shut, c, ms)[d], M)
      BY HasPut
  <1> QED
      BY <1>1, <1>2 DEF Fewer

(* Steps of the client that carry no call on.                              *)
LEMMA CallKeptByClient ==
    ASSUME TypeOK, NEW i \in Ids, OnePlace(i), StartInv(i), AnswerInv(i),
           \/ Dispose \/ DialSucceeds \/ DialFails \/ BackoffElapses \/ CallbackReturns
           \/ \E l \in Listeners : On(l) \/ Off(l)
           \/ \E c \in Sockets : SocketOpens(c) \/ SocketFails(c) \/ ReceiveEvent(c) \/ ReceiveClose(c) \/ Discard(c)
    PROVE  OnePlace(i)' /\ StartInv(i)' /\ AnswerInv(i)'
  <1>1. ClientTypeOK /\ NetTypeOK /\ ServerTypeOK
      BY TypeParts
  <1>2. up \in Channel /\ down \in Channel /\ inbox \in Channel /\ transport \in Sockets \cup {0}
      BY <1>1 DEF ClientTypeOK, NetTypeOK, ServerTypeOK
  <1>3. UNCHANGED <<messageQueue, inbox, executing, inFlight, outcome, answeredBy, orphans, starts, broadcast, actionIdCounter>>
      BY DEF Dispose, DialSucceeds, DialFails, BackoffElapses, CallbackReturns, On, Off, SocketOpens, SocketFails,
             ReceiveEvent, ReceiveClose, Discard, clientVars, eventVars, netVars, serverVars, callVars, history
  <1>4. (\A d \in Sockets : Fewer(up[d], up'[d], {Request(i)}) /\ Fewer(down[d], down'[d], Answers(i)))
           => OnePlace(i)' /\ StartInv(i)' /\ AnswerInv(i)'
      BY <1>3, SameCall, FewerSame DEF Shrinks, SameAnswers
  <1>5. CASE DialSucceeds \/ DialFails \/ BackoffElapses \/ CallbackReturns \/ \E c \in Sockets : SocketOpens(c) \/ SocketFails(c)
      BY <1>4, <1>5, FewerSame DEF DialSucceeds, DialFails, BackoffElapses, CallbackReturns, SocketOpens, SocketFails, netVars
  <1>6. CASE Dispose
    <2>1. \/ down' = down
          \/ transport # 0 /\ down' = [down EXCEPT ![transport] = <<Close>>]
        BY <1>6 DEF Dispose
    <2>2. \/ up' = up
          \/ transport # 0 /\ up' = Put(up, upShut, transport, <<Close>>)
        BY <1>6 DEF Dispose
    <2>3. \A d \in Sockets : Fewer(down[d], down'[d], Answers(i))
      <3>1. transport # 0 => \A d \in Sockets : Fewer(down[d], [down EXCEPT ![transport] = <<Close>>][d], Answers(i))
          BY <1>2, FewerSteps, AnswerKinds
      <3> QED
          BY <2>1, <3>1, FewerSame
    <2>4. \A d \in Sockets : Fewer(up[d], up'[d], {Request(i)})
      <3>1. transport # 0 => \A d \in Sockets : Fewer(up[d], Put(up, upShut, transport, <<Close>>)[d], {Request(i)})
          BY <1>2, FewerSteps, AnswerKinds
      <3> QED
          BY <2>2, <3>1, FewerSame
    <2> QED
        BY <1>4, <2>3, <2>4
  <1>7. ASSUME NEW l \in Listeners, On(l) \/ Off(l) PROVE OnePlace(i)' /\ StartInv(i)' /\ AnswerInv(i)'
    <2>1. PICK t \in {"Subscribe", "Unsubscribe"} : up' = up \/ SendNow(<<Plain(t)>>)
        BY <1>7, SubscriptionSent
    <2>2. Plain(t) \in Message /\ Plain(t) \notin {Request(i)}
        BY AnswerKinds, MessageTypes
    <2>3. \A d \in Sockets : Fewer(up[d], up'[d], {Request(i)})
        BY <1>1, <1>2, <2>1, <2>2, SendsOther DEF Fewer
    <2> QED
        BY <1>4, <1>7, <2>3, FewerSame DEF On, Off
  <1>8. ASSUME NEW c \in Sockets, ReceiveEvent(c) \/ ReceiveClose(c) \/ Discard(c)
        PROVE  OnePlace(i)' /\ StartInv(i)' /\ AnswerInv(i)'
    <2>1. down[c] # <<>> /\ down' = [down EXCEPT ![c] = Tail(@)] /\ (up' = up \/ up' = Put(up, upShut, c, <<Close>>))
        BY <1>8 DEF ReceiveEvent, ReceiveClose, Discard, Receive
    <2>2. \A d \in Sockets : Fewer(down[d], [down EXCEPT ![c] = Tail(@)][d], Answers(i))
        BY <1>2, <2>1, FewerSteps
    <2>3. \A d \in Sockets : Fewer(up[d], Put(up, upShut, c, <<Close>>)[d], {Request(i)})
        BY <1>2, FewerSteps, AnswerKinds
    <2> QED
        BY <1>4, <2>1, <2>2, <2>3, FewerSame
  <1> QED
      BY <1>5, <1>6, <1>7, <1>8

(* Steps of the server that carry no call on.                              *)
LEMMA CallKeptByServer ==
    ASSUME TypeOK, NEW i \in Ids, OnePlace(i), StartInv(i), AnswerInv(i),
           \/ \E c \in Sockets : ConnRefused(c) \/ Disconnect(c) \/ LinkLost(c)
           \/ \E x \in executing : Broadcast(x)
    PROVE  OnePlace(i)' /\ StartInv(i)' /\ AnswerInv(i)'
  <1>1. ClientTypeOK /\ NetTypeOK /\ ServerTypeOK
      BY TypeParts
  <1>2. up \in Channel /\ down \in Channel /\ inbox \in Channel
      BY <1>1 DEF NetTypeOK, ServerTypeOK
  <1>3. UNCHANGED <<messageQueue, executing, inFlight, outcome, answeredBy, orphans, starts, actionIdCounter>>
      BY DEF ConnRefused, Disconnect, LinkLost, Broadcast, clientVars, serverVars, callVars
  <1>4. (/\ \A d \in Sockets : /\ Fewer(up[d], up'[d], {Request(i)}) /\ Fewer(inbox[d], inbox'[d], {Request(i)})
                               /\ Fewer(down[d], down'[d], Answers(i))
         /\ i \in broadcast' => i \in broadcast \/ \E c \in Sockets : <<c, i>> \in executing)
           => OnePlace(i)' /\ StartInv(i)' /\ AnswerInv(i)'
      BY <1>3, SameCall, FewerSame DEF Shrinks, SameAnswers
  <1>5. ASSUME NEW c \in Sockets, ConnRefused(c) \/ Disconnect(c) PROVE OnePlace(i)' /\ StartInv(i)' /\ AnswerInv(i)'
    <2>1. /\ inbox' = inbox \/ inbox' = [inbox EXCEPT ![c] = <<>>]
          /\ ConnRefused(c) \/ down' = Put(down, downShut, c, <<Close>>)
          /\ up' = up /\ broadcast' = broadcast
        BY <1>5 DEF ConnRefused, Disconnect, serverVars
    <2>2. \A d \in Sockets : ConnRefused(c) => Fewer(down[d], down'[d], Answers(i))
        BY <1>2, Refusal, AnswerKinds DEF Fewer
    <2> QED
        BY <1>2, <1>4, <2>1, <2>2, FewerSame, FewerSteps, AnswerKinds
  <1>6. ASSUME NEW c \in Sockets, LinkLost(c) PROVE OnePlace(i)' /\ StartInv(i)' /\ AnswerInv(i)'
    <2>1. PICK u \in Remains(up, upShut, c), v \in Remains(down, downShut, c) :
             up' = [up EXCEPT ![c] = u] /\ down' = [down EXCEPT ![c] = v]
        BY <1>6 DEF LinkLost
    <2>2. inbox' = inbox /\ broadcast' = broadcast
        BY <1>6 DEF LinkLost, serverVars
    <2> QED
        BY <1>2, <1>4, <2>1, <2>2, FewerSame, FewerSteps, AnswerKinds
  <1>7. ASSUME NEW x \in executing, Broadcast(x) PROVE OnePlace(i)' /\ StartInv(i)' /\ AnswerInv(i)'
    <2>1. x[1] \in Sockets /\ x[2] \in Ids /\ x = <<x[1], x[2]>>
        BY <1>1 DEF ServerTypeOK
    <2>2. /\ SendTo(index, About("Event", x[2])) /\ broadcast' = broadcast \cup {x[2]} /\ up' = up /\ inbox' = inbox
        BY <1>7 DEF Broadcast, serverVars
    <2>3. About("Event", x[2]) \in Message /\ About("Event", x[2]) \notin Answers(i)
        BY <2>1, MessageTypes, AnswerKinds
    <2>4. \A d \in Sockets : Fewer(down[d], down'[d], Answers(i))
        BY <1>2, <2>2, <2>3, HasSent DEF Fewer
    <2>5. i \in broadcast' => i \in broadcast \/ \E c \in Sockets : <<c, i>> \in executing
        BY <2>1, <2>2
    <2> QED
        BY <1>4, <2>2, <2>4, <2>5, FewerSame
  <1> QED
      BY <1>5, <1>6, <1>7

(* What the parts of the state say about where call i is.                  *)
LEMMA AtParts ==
    ASSUME NEW i \in Ids
    PROVE  /\ At("queue", 0, i) <=> Has(messageQueue, {i})
           /\ \A c \in Sockets : /\ At("up", c, i) <=> Has(up[c], {Request(i)})
                                 /\ At("inbox", c, i) <=> Has(inbox[c], {Request(i)})
                                 /\ At("executing", c, i) <=> <<c, i>> \in executing
                                 /\ At("down", c, i) <=> Has(down[c], Answers(i))
           /\ \A p, c : At(p, c, i) => p \in Places /\ c \in Ends
           /\ 0 \in Ends /\ Sockets \subseteq Ends /\ 0 \notin Sockets
  BY Constants DEF At, Places, Ends

LEMMA CallStepCall ==
    ASSUME TypeOK, NEW i \in Ids, OnePlace(i), StartInv(i), AnswerInv(i), Call
    PROVE  OnePlace(i)' /\ StartInv(i)' /\ AnswerInv(i)'
  <1> DEFINE k == actionIdCounter
  <1>1. ClientTypeOK /\ NetTypeOK /\ ServerTypeOK /\ CallTypeOK
      BY TypeParts
  <1>2. up \in Channel /\ down \in Channel /\ inbox \in Channel /\ transport \in Sockets \cup {0} /\ messageQueue \in Seq(Ids)
      BY <1>1 DEF ClientTypeOK, NetTypeOK, ServerTypeOK
  <1>3. k \in Ids /\ k \in Nat /\ i \in Nat
      BY Constants DEF Call
  <1>4. UNCHANGED <<down, inbox, executing, answeredBy, orphans, starts, broadcast>>
      BY DEF Call, serverVars, history
  <1>5. Request(k) \in Message
      BY <1>3, Kinds
  <1>6. up' = up \/ SendNow(<<Request(k)>>)
      BY DEF Call
  <1>7. messageQueue' = messageQueue \/ (messageQueue' = Append(messageQueue, k) /\ up' = up)
      BY DEF Call, SendNow
  <1>8. CASE i # k
    <2>1. \A d \in Sockets : Fewer(up[d], up'[d], {Request(i)})
      <3>1. Request(k) \notin {Request(i)}
          BY <1>3, <1>8, AnswerKinds
      <3> QED
          BY <1>1, <1>2, <1>5, <1>6, <3>1, SendsOther DEF Fewer
    <2>2. Fewer(messageQueue, messageQueue', {i})
      <3>1. Fewer(messageQueue, Append(messageQueue, k), {i})
          BY <1>2, <1>3, <1>8, HasAppend DEF Fewer
      <3> QED
          BY <1>7, <3>1, FewerSame
    <2>3. Shrinks(i)
        BY <1>4, <2>1, <2>2, FewerSame DEF Shrinks
    <2>4. SameAnswers(i)
      <3>1. outcome'[i] = outcome[i]
          BY <1>1, <1>8 DEF Call, CallTypeOK
      <3> QED
          BY <1>4, <1>8, <3>1 DEF Call, SameAnswers
    <2> QED
        BY <1>4, <2>3, <2>4, SameCall
  <1>9. CASE i = k
    <2>1. Nowhere(i) /\ starts[i] = 0 /\ i \notin broadcast /\ SentOnce(i)
        BY <1>3, <1>9 DEF StartInv, OnePlace
    <2>2. ~Has(messageQueue, {i}) /\ \A d \in Sockets : ~Has(up[d], {Request(i)})
        BY <2>1, AtParts DEF Nowhere, Places
    <2>3. /\ \A d \in Sockets : Has(up'[d], {Request(i)}) => d = transport /\ CanSend /\ ~disposed
          /\ \A d \in Sockets : Once(up'[d], {Request(i)})
      <3>1. CASE up' = up
          BY <2>1, <2>2, <3>1 DEF SentOnce
      <3>2. CASE SendNow(<<Request(k)>>) /\ ~disposed
        <4>1. <<Request(k)>> \in Seq(Message) /\ Once(<<Request(k)>>, {Request(i)})
            BY <1>5, HasSingle
        <4> QED
            BY <1>1, <1>2, <2>1, <2>2, <3>2, <4>1, HasSendNow DEF SentOnce
      <3> QED
          BY <3>1, <3>2 DEF Call
    <2>4. /\ Has(messageQueue', {i}) => ~CanSend
          /\ Once(messageQueue', {i})
      <3>1. Once(Append(messageQueue, k), {i})
          BY <1>2, <1>3, <2>1, <2>2, HasAppend DEF SentOnce
      <3>2. messageQueue' = messageQueue \/ (messageQueue' = Append(messageQueue, k) /\ ~CanSend)
          BY DEF Call
      <3> QED
          BY <2>1, <2>2, <3>1, <3>2 DEF SentOnce
    <2>5. SentOnce(i)'
        BY <1>4, <2>1, <2>3, <2>4 DEF SentOnce
    <2>6. \A p \in Places, c \in Ends : At(p, c, i)' =>
             (p = "queue" /\ c = 0 /\ ~CanSend) \/ (p = "up" /\ c = transport /\ CanSend)
      <3>1. \A c \in Sockets : ~Has(inbox[c], {Request(i)}) /\ <<c, i>> \notin executing /\ ~Has(down[c], Answers(i))
          BY <2>1, AtParts DEF Nowhere, Places
      <3> QED
          BY <1>4, <2>3, <2>4, <3>1 DEF At
    <2>7. OnePlace(i)'
        BY <2>5, <2>6 DEF OnePlace
    <2>8. \A c \in Sockets : <<c, i>> \notin executing'
        BY <1>4, <2>1, AtParts DEF Nowhere, Places
    <2>9. actionIdCounter' = i + 1 /\ i \in inFlight' /\ outcome'[i] # "resolved"
        BY <1>1, <1>9 DEF Call, CallTypeOK
    <2>10. StartInv(i)'
        BY <1>3, <1>4, <2>1, <2>8, <2>9 DEF StartInv
    <2>11. i \notin orphans
        BY <1>3, <1>9 DEF AnswerInv
    <2>12. AnswerInv(i)'
        BY <1>4, <2>9, <2>11 DEF AnswerInv
    <2> QED
        BY <2>7, <2>10, <2>12
  <1> QED
      BY <1>8, <1>9

LEMMA CallStepInit ==
    ASSUME TypeOK, NEW i \in Ids, OnePlace(i), StartInv(i), AnswerInv(i), NEW c \in Sockets, ReceiveInit(c)
    PROVE  OnePlace(i)' /\ StartInv(i)' /\ AnswerInv(i)'
  <1>1. ClientTypeOK /\ NetTypeOK /\ ServerTypeOK
      BY TypeParts
  <1>2. up \in Channel /\ down \in Channel /\ transport \in Sockets \cup {0} /\ messageQueue \in Seq(Ids)
      BY <1>1 DEF ClientTypeOK, NetTypeOK
  <1>3. /\ UNCHANGED <<inbox, executing, inFlight, outcome, answeredBy, orphans, starts, broadcast, actionIdCounter>>
        /\ down[c] # <<>> /\ down' = [down EXCEPT ![c] = Tail(@)]
      BY DEF ReceiveInit, Receive, serverVars, history
  <1>4. \A d \in Sockets : Fewer(down[d], down'[d], Answers(i))
      BY <1>2, <1>3, FewerSteps
  <1>5. SameAnswers(i)
      BY <1>3 DEF SameAnswers
  <1>6. /\ Flushed \in Seq(Message) /\ (Has(Flushed, {Request(i)}) <=> Has(messageQueue, {i}))
        /\ Once(Flushed, {Request(i)})
      BY <1>2, FlushedEffect DEF OnePlace, SentOnce
  <1>7. CASE up' = up /\ (messageQueue' = messageQueue \/ messageQueue' = <<>>)
    <2>1. Fewer(messageQueue, messageQueue', {i})
        BY <1>7, HasEmpty, FewerSame DEF Fewer
    <2> QED
        BY <1>3, <1>4, <1>5, <1>7, <2>1, SameCall, FewerSame DEF Shrinks
  <1>8. CASE SendNow(Flushed) /\ CanSend /\ messageQueue' = <<>>
    <2>1. \A d \in Sockets : /\ Has(up'[d], {Request(i)}) => Has(up[d], {Request(i)}) \/ (d = transport /\ Has(messageQueue, {i}))
                             /\ Once(up[d], {Request(i)}) /\ (d = transport => ~(Has(up[d], {Request(i)}) /\ Has(messageQueue, {i})))
                                  => Once(up'[d], {Request(i)})
        BY <1>1, <1>2, <1>6, <1>8, HasSendNow
    <2>2. ~Has(messageQueue', {i}) /\ Once(messageQueue', {i})
        BY <1>8, HasEmpty
    <2>3. CASE ~Has(messageQueue, {i})
      <3>1. Shrinks(i)
          BY <1>3, <1>4, <2>1, <2>2, <2>3, FewerSame DEF Shrinks, Fewer
      <3> QED
          BY <1>3, <1>5, <3>1, SameCall
    <2>4. CASE Has(messageQueue, {i})
      <3>1. At("queue", 0, i)
          BY <2>4, AtParts
      <3>2. \A d \in Sockets : ~Has(up[d], {Request(i)})
        <4>1. \A d \in Sockets : ~At("up", d, i)
            BY <3>1, AtParts DEF OnePlace, Places
        <4> QED
            BY <4>1, AtParts
      <3>3. SentOnce(i)'
          BY <1>3, <1>4, <2>1, <2>2, <3>2 DEF SentOnce, OnePlace, Fewer
      <3>4. \A r \in Places, e \in Ends : At(r, e, i)' =>
               (r = "up" /\ e = transport) \/ (At(r, e, i) /\ ~(r = "queue" /\ e = 0))
          BY <1>3, <1>4, <2>1, <2>2, <3>2 DEF At, Fewer
      <3>5. transport \in Ends /\ "queue" \in Places /\ "up" \in Places /\ 0 \in Ends /\ "queue" \in Waits
          BY <1>2 DEF Ends, Places, Waits
      <3>6. starts'[i] = starts[i] /\ (i \in broadcast' => i \in broadcast)
          BY <1>3
      <3> QED
          BY <1>5, <3>1, <3>3, <3>4, <3>5, <3>6, MovedCall
    <2> QED
        BY <2>3, <2>4
  <1> QED
      BY <1>7, <1>8 DEF ReceiveInit, FlushQueue, SendNow

(* An answer settles its call, and an error of the connection all of them. *)
LEMMA CallStepAnswer ==
    ASSUME TypeOK, NEW i \in Ids, CallInv, NEW c \in Sockets, ReceiveResponse(c) \/ ReceiveError(c)
    PROVE  OnePlace(i)' /\ StartInv(i)' /\ AnswerInv(i)'
  <1> DEFINE m == Head(down[c])
  <1>1. ClientTypeOK /\ NetTypeOK /\ ServerTypeOK /\ CallTypeOK
      BY TypeParts
  <1>2. down \in Channel
      BY <1>1 DEF NetTypeOK
  <1>3. /\ UNCHANGED <<messageQueue, up, inbox, executing, starts, broadcast, actionIdCounter>>
        /\ down[c] # <<>> /\ down' = [down EXCEPT ![c] = Tail(@)] /\ m.tag \in {"Response", "Error"}
      BY DEF ReceiveResponse, ReceiveError, Receive, serverVars, history
  <1>4. PICK k \in Ids \cup {-1} : k = m.id /\ (k \in Ids => m \in Answers(k)) /\ (k \notin Ids => ReceiveError(c))
    <2>1. m \in Message
        BY <1>2, <1>3, TailType
    <2>2. m.id \in Ids => m \in Answers(m.id)
        BY <1>3, <2>1, MessageTypes DEF Answers
    <2>3. m.id \in Ids \cup {-1} /\ (m.tag = "Response" => m.id \in Ids)
        BY <1>3, <2>1, MessageTypes
    <2>4. m.tag = "Response" \/ ReceiveError(c)
        BY DEF ReceiveResponse, Receive
    <2> QED
        BY <2>2, <2>3, <2>4
  <1>5. PICK S \in SUBSET inFlight, as \in {"resolved", "rejected"} :
           /\ Settle(S, k, as)
           /\ k \in inFlight => k \in S
           /\ \A j \in S : j = k \/ (OfConnection(k) /\ as = "rejected")
           /\ orphans' \subseteq orphans \cup (({k} \cap Ids) \ inFlight)
    <2>1. CASE ReceiveResponse(c)
      <3>1. Settle({k} \cap inFlight, k, "resolved") /\ orphans' = orphans \cup ({k} \ inFlight)
          BY <1>4, <2>1 DEF ReceiveResponse
      <3>2. k \in Ids
        <4>1. m \in Message
            BY <1>2, <1>3, TailType
        <4> QED
            BY <1>4, <2>1, <4>1, MessageTypes DEF ReceiveResponse, Receive
      <3> QED
          BY <3>1, <3>2
    <2>2. CASE ReceiveError(c)
      <3>1. /\ Settle(Rejected(k), k, "rejected")
            /\ orphans' = orphans \cup (IF OfConnection(k) THEN {} ELSE {k} \ inFlight)
          BY <1>4, <2>2 DEF ReceiveError
      <3>2. /\ Rejected(k) \subseteq inFlight /\ (k \in inFlight => k \in Rejected(k))
            /\ \A j \in Rejected(k) : j = k \/ OfConnection(k)
          BY DEF Rejected
      <3>3. ~OfConnection(k) => k \in Ids
          BY DEF OfConnection
      <3> QED
          BY <3>1, <3>2, <3>3
    <2> QED
        BY <2>1, <2>2
  <1>6. \A d \in Sockets : Fewer(down[d], down'[d], Answers(i))
      BY <1>2, <1>3, FewerSteps
  <1>7. k \in Ids => Has(down[c], Answers(k)) /\ ~Has(down'[c], Answers(k))
    <2>1. k \in Ids => Once(down[c], Answers(k))
        BY DEF CallInv, OnePlace, SentOnce
    <2> QED
        BY <1>2, <1>3, <1>4, <2>1, HasTaken
  <1>8. Shrinks(i)
      BY <1>3, <1>6, FewerSame DEF Shrinks
  <1> HIDE DEF m
  <1>9. /\ inFlight' = inFlight \ S
        /\ outcome'[i] = IF i \in S THEN as ELSE outcome[i]
        /\ answeredBy'[i] = IF i \in S THEN k ELSE answeredBy[i]
      BY <1>5 DEF Settle
  <1>10. /\ OnePlace(i) /\ StartInv(i) /\ AnswerInv(i)
         /\ k \in Ids => OnePlace(k) /\ StartInv(k) /\ AnswerInv(k)
      BY DEF CallInv
  <1>11. (\A p, d : At(p, d, i)' => At(p, d, i)) /\ (Nowhere(i) => Nowhere(i)') /\ OnePlace(i)'
      BY <1>8, <1>10, ShrinksEffect
  <1>12. k \in Ids => At("down", c, k) /\ ~Nowhere(k)
      BY <1>7, AtParts DEF Nowhere
  <1>13. ASSUME k \in Ids PROVE Nowhere(k)'
    <2>1. ~At("down", c, k)'
        BY <1>7, <1>13, AtParts DEF At
    <2>2. ASSUME NEW p \in Places, NEW d \in Ends, At(p, d, k)' PROVE FALSE
      <3>1. At(p, d, k)
        <4>1. Shrinks(k)
            BY <1>2, <1>3, FewerSame, FewerSteps DEF Shrinks
        <4> QED
            BY <1>13, <2>2, <4>1, ShrinksEffect
      <3>2. p = "down" /\ d = c
          BY <1>10, <1>12, <1>13, <3>1, AtParts DEF OnePlace
      <3> QED
          BY <2>1, <2>2, <3>2
    <2> QED
        BY <2>2 DEF Nowhere
  <1>14. StartInv(i)'
      BY <1>3, <1>9, <1>10, <1>11 DEF StartInv
  <1>15. AnswerInv(i)'
    <2>1. CASE i = k
      <3>1. k \in orphans' => k \notin inFlight /\ RejectedByOther(k) /\ k < actionIdCounter
        <4>1. ASSUME k \in inFlight PROVE k \notin orphans'
            BY <1>5, <1>10, <2>1, <4>1 DEF AnswerInv, RejectedByOther
        <4>2. k \notin inFlight => RejectedByOther(k)
            BY <1>10, <1>12, <2>1 DEF AnswerInv
        <4>3. k < actionIdCounter
            BY <1>1, <1>10, <1>12, <2>1, Constants DEF StartInv, ClientTypeOK
        <4> QED
            BY <4>1, <4>2, <4>3
      <3> QED
          BY <1>3, <1>5, <1>9, <1>13, <2>1, <3>1 DEF AnswerInv, RejectedByOther
    <2>2. CASE i # k /\ i \notin S
        BY <1>3, <1>5, <1>9, <1>10, <1>11, <2>2 DEF AnswerInv, RejectedByOther
    <2>3. CASE i # k /\ i \in S
      <3>1. /\ OfConnection(k) /\ as = "rejected" /\ i \in inFlight /\ i \notin inFlight'
            /\ answeredBy'[i] = k /\ outcome'[i] = "rejected"
          BY <1>5, <1>9, <2>3
      <3>2. i \notin orphans'
          BY <1>5, <1>10, <2>3, <3>1 DEF AnswerInv, RejectedByOther
      <3> QED
          BY <2>3, <3>1, <3>2 DEF AnswerInv, RejectedByOther
    <2> QED
        BY <2>1, <2>2, <2>3
  <1> QED
      BY <1>11, <1>14, <1>15

(* Requests the server processes, all of them or one.                      *)
LEMMA CallStepCreated ==
    ASSUME TypeOK, NEW i \in Ids, OnePlace(i), StartInv(i), AnswerInv(i), NEW c \in Sockets, ConnCreated(c)
    PROVE  OnePlace(i)' /\ StartInv(i)' /\ AnswerInv(i)'
  <1>1. ClientTypeOK /\ NetTypeOK /\ ServerTypeOK
      BY TypeParts
  <1>2. down \in Channel /\ inbox \in Channel /\ inbox[c] \in Seq(Message)
      BY <1>1 DEF NetTypeOK, ServerTypeOK, Channel
  <1>3. /\ UNCHANGED <<messageQueue, up, inFlight, outcome, answeredBy, orphans, broadcast, actionIdCounter>>
        /\ inbox' = [inbox EXCEPT ![c] = <<>>] /\ down' = Put(down, downShut, c, <<Plain("Init")>>)
        /\ Process(c, inbox[c])
      BY DEF ConnCreated, clientVars, callVars
  <1>4. \A d \in Sockets : Fewer(down[d], down'[d], Answers(i))
    <2>1. PICK ms : ms = <<Plain("Init")>>
        OBVIOUS
    <2>2. ms \in Seq(Message) /\ ~Has(ms, Answers(i)) /\ Once(ms, Answers(i))
        BY <2>1, MessageTypes, HasSingle, AnswerKinds
    <2>3. \A d \in Sockets : Fewer(down[d], Put(down, downShut, c, ms)[d], Answers(i))
        BY <1>2, <2>2, FewerPut
    <2> QED
        BY <1>3, <2>1, <2>3
  <1>5. SameAnswers(i)
      BY <1>3 DEF SameAnswers
  <1>6. \A d \in Sockets : inbox'[d] = IF d = c THEN <<>> ELSE inbox[d]
      BY <1>2, <1>3 DEF Channel
  <1>7. \A d \in Sockets : Fewer(inbox[d], inbox'[d], {Request(i)})
      BY <1>6, HasEmpty DEF Fewer
  <1>8. Once(inbox[c], {Request(i)})
      BY DEF OnePlace, SentOnce
  <1>9. /\ \A d \in Sockets : <<d, i>> \in executing' <=> <<d, i>> \in executing \/ (d = c /\ Has(inbox[c], {Request(i)}))
        /\ starts'[i] = IF Has(inbox[c], {Request(i)}) THEN starts[i] + 1 ELSE starts[i]
      BY <1>1, <1>2, <1>3, <1>8, ProcessEffect
  <1>10. CASE ~Has(inbox[c], {Request(i)})
    <2>1. Shrinks(i)
        BY <1>3, <1>4, <1>7, <1>9, <1>10, FewerSame DEF Shrinks
    <2> QED
        BY <1>3, <1>5, <1>9, <1>10, <2>1, SameCall
  <1>11. CASE Has(inbox[c], {Request(i)})
    <2>1. At("inbox", c, i)
        BY <1>11, AtParts
    <2>2. SentOnce(i)'
        BY <1>3, <1>4, <1>7 DEF SentOnce, OnePlace, Fewer
    <2>3. ~Has(inbox'[c], {Request(i)})
        BY <1>6, HasEmpty
    <2>4. \A r \in Places, e \in Ends : At(r, e, i)' =>
             (r = "executing" /\ e = c) \/ (At(r, e, i) /\ ~(r = "inbox" /\ e = c))
        BY <1>3, <1>4, <1>7, <1>9, <2>3 DEF At, Fewer
    <2>5. c \in Ends /\ "inbox" \in Places /\ "executing" \in Places /\ "inbox" \in Waits
        BY DEF Ends, Places, Waits
    <2> QED
        BY <1>3, <1>5, <1>9, <1>11, <2>1, <2>2, <2>4, <2>5, MovedCall
  <1> QED
      BY <1>10, <1>11

LEMMA CallStepReceived ==
    ASSUME TypeOK, NEW i \in Ids, OnePlace(i), StartInv(i), AnswerInv(i), NEW c \in Sockets, ServerReceives(c)
    PROVE  OnePlace(i)' /\ StartInv(i)' /\ AnswerInv(i)'
  <1>1. ClientTypeOK /\ NetTypeOK /\ ServerTypeOK
      BY TypeParts
  <1>2. up \in Channel /\ down \in Channel /\ inbox \in Channel
      BY <1>1 DEF NetTypeOK, ServerTypeOK
  <1>3. PICK m \in Message : m = Head(up[c])
      BY <1>2, TailType DEF ServerReceives
  <1>4. /\ UNCHANGED <<messageQueue, inFlight, outcome, answeredBy, orphans, broadcast, actionIdCounter>>
        /\ up[c] # <<>> /\ up' = [up EXCEPT ![c] = Tail(@)]
        /\ down' = down \/ down' = Put(down, downShut, c, <<Close>>)
      BY DEF ServerReceives, clientVars, callVars
  <1>5. \A d \in Sockets : Fewer(up[d], up'[d], {Request(i)}) /\ Fewer(down[d], down'[d], Answers(i))
    <2>1. \A d \in Sockets : Fewer(up[d], up'[d], {Request(i)})
        BY <1>2, <1>4, FewerSteps
    <2>2. \A d \in Sockets : Fewer(down[d], Put(down, downShut, c, <<Close>>)[d], Answers(i))
        BY <1>2, FewerSteps, AnswerKinds
    <2> QED
        BY <1>4, <2>1, <2>2, FewerSame
  <1>6. SameAnswers(i)
      BY <1>4 DEF SameAnswers
  <1>7. \A d \in Sockets : inbox[d] \in Seq(Message)
      BY <1>2 DEF Channel
  <1>8. Has(<<m>>, {Request(i)}) <=> m = Request(i)
      BY HasSingle
  <1>9. Once(<<m>>, {Request(i)}) /\ <<m>> \in Seq(Message)
      BY <1>3, HasSingle
  <1>10. CASE UNCHANGED <<inbox, executing, starts>>
    <2>1. Shrinks(i)
        BY <1>4, <1>5, <1>10, FewerSame DEF Shrinks
    <2> QED
        BY <1>4, <1>6, <1>10, <2>1, SameCall
  <1>11. CASE m # Request(i) /\ inbox' = [inbox EXCEPT ![c] = Append(@, m)] /\ UNCHANGED <<executing, starts>>
    <2>1. \A d \in Sockets : inbox'[d] = IF d = c THEN Append(inbox[c], m) ELSE inbox[d]
        BY <1>2, <1>11 DEF Channel
    <2>2. Fewer(inbox[c], Append(inbox[c], m), {Request(i)})
        BY <1>3, <1>7, <1>11, HasAppend DEF Fewer
    <2>3. \A d \in Sockets : Fewer(inbox[d], inbox'[d], {Request(i)})
        BY <2>1, <2>2, FewerSame
    <2>4. Shrinks(i)
        BY <1>4, <1>5, <1>11, <2>3, FewerSame DEF Shrinks
    <2> QED
        BY <1>4, <1>6, <1>11, <2>4, SameCall
  <1>12. CASE m # Request(i) /\ Process(c, <<m>>) /\ inbox' = inbox
    <2>1. /\ \A d \in Sockets : <<d, i>> \in executing' => <<d, i>> \in executing
          /\ starts'[i] = starts[i]
        BY <1>1, <1>8, <1>9, <1>12, ProcessEffect
    <2>2. Shrinks(i)
        BY <1>4, <1>5, <1>12, <2>1, FewerSame DEF Shrinks
    <2> QED
        BY <1>4, <1>6, <2>1, <2>2, SameCall
  <1>13. m = Request(i) => /\ At("up", c, i) /\ ~Has(up'[c], {Request(i)})
                           /\ \A d \in Sockets : ~Has(inbox[d], {Request(i)})
    <2> SUFFICES ASSUME m = Request(i)
                 PROVE  At("up", c, i) /\ ~Has(up'[c], {Request(i)}) /\ \A d \in Sockets : ~Has(inbox[d], {Request(i)})
        OBVIOUS
    <2>1. Once(up[c], {Request(i)}) /\ Head(up[c]) \in {Request(i)}
        BY <1>3 DEF OnePlace, SentOnce
    <2>2. Has(up[c], {Request(i)}) /\ ~Has(up'[c], {Request(i)})
        BY <1>2, <1>4, <2>1, HasTaken
    <2>3. At("up", c, i)
        BY <2>2, AtParts
    <2>4. \A d \in Sockets : ~At("inbox", d, i)
        BY <2>3, AtParts DEF OnePlace
    <2> QED
        BY <2>2, <2>3, <2>4, AtParts
  <1>14. CASE m = Request(i) /\ inbox' = [inbox EXCEPT ![c] = Append(@, m)] /\ UNCHANGED <<executing, starts>>
    <2>1. \A d \in Sockets : inbox'[d] = IF d = c THEN Append(inbox[c], m) ELSE inbox[d]
        BY <1>2, <1>14 DEF Channel
    <2>2. Once(Append(inbox[c], m), {Request(i)})
        BY <1>3, <1>7, <1>13, <1>14, HasAppend DEF OnePlace, SentOnce
    <2>3. SentOnce(i)'
        BY <1>4, <1>5, <2>1, <2>2 DEF SentOnce, OnePlace, Fewer
    <2>4. \A d \in Sockets : d # c => ~Has(inbox'[d], {Request(i)})
        BY <1>13, <1>14, <2>1
    <2>5. \A r \in Places, e \in Ends : At(r, e, i)' =>
             (r = "inbox" /\ e = c) \/ (At(r, e, i) /\ ~(r = "up" /\ e = c))
        BY <1>4, <1>5, <1>13, <1>14, <2>4 DEF At, Fewer
    <2>6. c \in Ends /\ "inbox" \in Places /\ "up" \in Places /\ "up" \in Waits
        BY DEF Ends, Places, Waits
    <2> QED
        BY <1>4, <1>6, <1>13, <1>14, <2>3, <2>5, <2>6, MovedCall
  <1>15. CASE m = Request(i) /\ Process(c, <<m>>) /\ inbox' = inbox
    <2>1. /\ \A d \in Sockets : <<d, i>> \in executing' <=> <<d, i>> \in executing \/ d = c
          /\ starts'[i] = starts[i] + 1
        BY <1>1, <1>8, <1>9, <1>15, ProcessEffect
    <2>2. SentOnce(i)'
        BY <1>4, <1>5, <1>15 DEF SentOnce, OnePlace, Fewer
    <2>3. \A r \in Places, e \in Ends : At(r, e, i)' =>
             (r = "executing" /\ e = c) \/ (At(r, e, i) /\ ~(r = "up" /\ e = c))
        BY <1>4, <1>5, <1>13, <1>15, <2>1 DEF At, Fewer
    <2>4. c \in Ends /\ "executing" \in Places /\ "up" \in Places /\ "up" \in Waits
        BY DEF Ends, Places, Waits
    <2> QED
        BY <1>4, <1>6, <1>13, <1>15, <2>1, <2>2, <2>3, <2>4, MovedCall
  <1> QED
      BY <1>3, <1>10, <1>11, <1>12, <1>14, <1>15 DEF ServerReceives

LEMMA CallStepEnds ==
    ASSUME TypeOK, NEW i \in Ids, OnePlace(i), StartInv(i), AnswerInv(i), NEW x \in executing, ActionEnds(x)
    PROVE  OnePlace(i)' /\ StartInv(i)' /\ AnswerInv(i)'
  <1>1. ClientTypeOK /\ NetTypeOK /\ ServerTypeOK
      BY TypeParts
  <1>2. down \in Channel
      BY <1>1 DEF NetTypeOK
  <1>3. PICK c \in Sockets, k \in Ids : x = <<c, k>>
      BY <1>1 DEF ServerTypeOK
  <1>4. PICK t \in {"Response", "Error"} : SendTo({c}, About(t, k))
      BY <1>3 DEF ActionEnds
  <1>5. /\ UNCHANGED <<messageQueue, up, inbox, inFlight, outcome, answeredBy, orphans, starts, broadcast, actionIdCounter>>
        /\ executing' = executing \ {<<c, k>>}
      BY <1>3 DEF ActionEnds, clientVars, callVars, history
  <1>6. SameAnswers(i)
      BY <1>5 DEF SameAnswers
  <1>7. About(t, k) \in Message /\ (About(t, k) \in Answers(i) <=> k = i)
      BY MessageTypes, AnswerKinds
  <1>8. CASE k # i
    <2>1. \A d \in Sockets : Fewer(down[d], down'[d], Answers(i))
        BY <1>2, <1>4, <1>7, <1>8, HasSent DEF Fewer
    <2>2. Shrinks(i)
        BY <1>5, <2>1, FewerSame DEF Shrinks
    <2> QED
        BY <1>5, <1>6, <2>2, SameCall
  <1>9. CASE k = i
    <2>1. At("executing", c, i)
        BY <1>3, <1>9, AtParts
    <2>2. \A d \in Sockets : ~Has(down[d], Answers(i)) /\ (d # c => <<d, i>> \notin executing)
      <3>1. \A d \in Sockets : ~At("down", d, i) /\ (d # c => ~At("executing", d, i))
          BY <2>1, AtParts DEF OnePlace
      <3> QED
          BY <3>1, AtParts
    <2>3. \A d \in Sockets : (Has(down'[d], Answers(i)) => d = c) /\ Once(down'[d], Answers(i))
      <3> SUFFICES ASSUME NEW d \in Sockets PROVE (Has(down'[d], Answers(i)) => d = c) /\ Once(down'[d], Answers(i))
          OBVIOUS
      <3>1. ~Has(down[d], Answers(i)) /\ Once(down[d], Answers(i))
          BY <2>2 DEF OnePlace, SentOnce
      <3>2. Has(down'[d], Answers(i)) => Has(down[d], Answers(i)) \/ d \in {c}
          BY <1>2, <1>4, <1>7, HasSent
      <3>3. Once(down'[d], Answers(i))
          BY <1>2, <1>4, <1>7, <3>1, HasSent
      <3> QED
          BY <3>1, <3>2, <3>3
    <2>4. SentOnce(i)'
        BY <1>5, <2>3 DEF SentOnce, OnePlace
    <2>5. \A d \in Sockets : <<d, i>> \notin executing'
        BY <1>5, <1>9, <2>2
    <2>6. \A r \in Places, e \in Ends : At(r, e, i)' =>
             (r = "down" /\ e = c) \/ (At(r, e, i) /\ ~(r = "executing" /\ e = c))
        BY <1>5, <2>3, <2>5 DEF At
    <2>7. c \in Ends /\ "executing" \in Places /\ "down" \in Places
        BY DEF Ends, Places
    <2> QED
        BY <1>5, <1>6, <2>1, <2>4, <2>6, <2>7, MovedCall
  <1> QED
      BY <1>8, <1>9

LEMMA CallStep ==
    ASSUME TypeOK, CallInv, [Next]_vars
    PROVE  CallInv'
  <1> SUFFICES ASSUME NEW i \in Ids PROVE OnePlace(i)' /\ StartInv(i)' /\ AnswerInv(i)'
      BY DEF CallInv
  <1>1. OnePlace(i) /\ StartInv(i) /\ AnswerInv(i)
      BY DEF CallInv
  <1>2. CASE UNCHANGED vars
    <2>1. Shrinks(i) /\ SameAnswers(i) /\ starts' = starts /\ broadcast' = broadcast
        BY <1>2, FewerSame DEF Shrinks, SameAnswers, vars, clientVars, netVars, serverVars, callVars, history
    <2> QED
        BY <1>1, <2>1, SameCall
  <1>3. ASSUME NEW c \in Sockets, ClientStep(c) PROVE OnePlace(i)' /\ StartInv(i)' /\ AnswerInv(i)'
      BY <1>1, <1>3, CallKeptByClient, CallStepInit, CallStepAnswer DEF ClientStep
  <1>4. ASSUME NEW c \in Sockets, ServerStep(c) PROVE OnePlace(i)' /\ StartInv(i)' /\ AnswerInv(i)'
      BY <1>1, <1>4, CallKeptByServer, CallStepCreated, CallStepReceived DEF ServerStep
  <1>5. CASE Application
      BY <1>1, <1>5, CallStepCall, CallKeptByClient DEF Application
  <1>6. CASE DialSucceeds \/ DialFails \/ BackoffElapses \/ CallbackReturns
      BY <1>1, <1>6, CallKeptByClient
  <1>7. ASSUME NEW x \in executing, Broadcast(x) \/ ActionEnds(x) PROVE OnePlace(i)' /\ StartInv(i)' /\ AnswerInv(i)'
      BY <1>1, <1>7, CallKeptByServer, CallStepEnds
  <1> QED
      BY <1>2, <1>3, <1>4, <1>5, <1>6, <1>7 DEF Next

LEMMA CallsInvariant == Spec => [](TypeOK /\ CallInv)
  <1>1. Init => TypeOK /\ CallInv
      BY TypeInit, CallInit
  <1>2. (TypeOK /\ CallInv) /\ [Next]_vars => (TypeOK /\ CallInv)'
      BY TypeStep, CallStep
  <1> QED
      BY <1>1, <1>2, PTL DEF Spec

(* However often the connection is lost and the queue flushed, no action   *)
(* is started twice: a request leaves the queue when it is sent and is     *)
(* never put back.                                                         *)
THEOREM ActionsAreStartedOnce == Spec => []ActionsRunOnce
  <1>1. CallInv => ActionsRunOnce
      BY DEF CallInv, StartInv, ActionsRunOnce
  <1> QED
      BY <1>1, CallsInvariant, PTL

(* An answer that arrives finds its call in flight: it is the only answer  *)
(* there will ever be, so only the error of action 0, which rejects every  *)
(* call, can have settled the call before it.                              *)
THEOREM AnswersFindCalls == Spec => []AnswersFindTheirCall
  <1>1. TypeOK /\ CallInv => AnswersFindTheirCall
      BY TypeParts DEF CallTypeOK, CallInv, AnswerInv, RejectedByOther, AnswersFindTheirCall
  <1> QED
      BY <1>1, CallsInvariant, PTL

-----------------------------------------------------------------------------
(* Subscriptions.                                                          *)

LEMMA SubscribedOne ==
    ASSUME NEW was \in BOOLEAN, NEW m
    PROVE  Subscribed(was, <<m>>) <=> (was /\ m # Plain("Unsubscribe")) \/ m = Plain("Subscribe")
  <1> DEFINE s == <<m>>
  <1>1. Len(s) = 1 /\ s[1] = m
      OBVIOUS
  <1> HIDE DEF s
  <1>2. Plain("Subscribe") # Plain("Unsubscribe")
      BY MessageTypes DEF Plain
  <1>3. Subscribed(was, s) <=> (was /\ m # Plain("Unsubscribe")) \/ m = Plain("Subscribe")
    <2>1. ASSUME Subscribed(was, s) PROVE (was /\ m # Plain("Unsubscribe")) \/ m = Plain("Subscribe")
      <3>1. PICK n \in 0 .. 1 : /\ IF n = 0 THEN was ELSE s[n] = Plain("Subscribe")
                                /\ \A k \in n + 1 .. 1 : s[k] # Plain("Unsubscribe")
          BY <1>1, <2>1 DEF Subscribed
      <3>2. CASE n = 0
        <4>1. 1 \in n + 1 .. 1
            BY <3>2
        <4> QED
            BY <1>1, <3>1, <3>2, <4>1
      <3>3. CASE n = 1
          BY <1>1, <3>1, <3>3
      <3> QED
          BY <3>1, <3>2, <3>3
    <2>2. ASSUME was, m # Plain("Unsubscribe") PROVE Subscribed(was, s)
      <3>1. \A k \in 0 + 1 .. Len(s) : s[k] # Plain("Unsubscribe")
          BY <1>1, <2>2
      <3>2. 0 \in 0 .. Len(s)
          BY <1>1
      <3> QED
          BY <2>2, <3>1, <3>2 DEF Subscribed
    <2>3. ASSUME m = Plain("Subscribe") PROVE Subscribed(was, s)
      <3>1. \A k \in 1 + 1 .. Len(s) : s[k] # Plain("Unsubscribe")
          BY <1>1
      <3>2. 1 \in 0 .. Len(s) /\ 1 # 0 /\ s[1] = Plain("Subscribe")
          BY <1>1, <2>3
      <3> QED
          BY <3>1, <3>2 DEF Subscribed
    <2> QED
        BY <2>1, <2>2, <2>3
  <1> QED
      BY <1>3 DEF s

LEMMA SubscribedConcat ==
    ASSUME NEW was \in BOOLEAN, NEW s \in Seq(Message), NEW f \in Seq(Message), ~Has(f, {Plain("Unsubscribe")})
    PROVE  /\ Subscribed(was, s) => Subscribed(was, s \o f)
           /\ Has(f, {Plain("Subscribe")}) => Subscribed(was, s \o f)
  <1> DEFINE t == s \o f
  <1>1. /\ Len(s) \in Nat /\ Len(f) \in Nat /\ Len(t) = Len(s) + Len(f)
        /\ \A k \in 1 .. Len(s) : t[k] = s[k]
        /\ \A k \in Len(s) + 1 .. Len(s) + Len(f) : t[k] = f[k - Len(s)]
      BY ConcatEffect
  <1> HIDE DEF t
  <1>2. \A k \in Len(s) + 1 .. Len(t) : t[k] # Plain("Unsubscribe")
    <2> SUFFICES ASSUME NEW k \in Len(s) + 1 .. Len(t) PROVE t[k] # Plain("Unsubscribe")
        OBVIOUS
    <2>1. k - Len(s) \in 1 .. Len(f) /\ t[k] = f[k - Len(s)]
        BY <1>1
    <2> QED
        BY <2>1 DEF Has
  <1>3. ASSUME Subscribed(was, s) PROVE Subscribed(was, t)
    <2>1. PICK n \in 0 .. Len(s) : /\ IF n = 0 THEN was ELSE s[n] = Plain("Subscribe")
                                   /\ \A k \in n + 1 .. Len(s) : s[k] # Plain("Unsubscribe")
        BY <1>3 DEF Subscribed
    <2>2. n \in 0 .. Len(t) /\ IF n = 0 THEN was ELSE t[n] = Plain("Subscribe")
        BY <1>1, <2>1
    <2>3. ASSUME NEW k \in n + 1 .. Len(t) PROVE t[k] # Plain("Unsubscribe")
      <3>1. CASE k <= Len(s)
        <4>1. k \in n + 1 .. Len(s) /\ k \in 1 .. Len(s)
            BY <2>1, <3>1
        <4> QED
            BY <1>1, <2>1, <4>1
      <3>2. CASE k > Len(s)
        <4>1. k \in Len(s) + 1 .. Len(t)
            BY <1>1, <2>1, <3>2
        <4> QED
            BY <1>2, <4>1
      <3> QED
          BY <1>1, <2>1, <3>1, <3>2
    <2> QED
        BY <2>2, <2>3 DEF Subscribed
  <1>4. ASSUME Has(f, {Plain("Subscribe")}) PROVE Subscribed(was, t)
    <2>1. PICK k \in 1 .. Len(f) : f[k] = Plain("Subscribe")
        BY <1>4 DEF Has
    <2>2. /\ k + Len(s) \in 0 .. Len(t) /\ k + Len(s) # 0 /\ k + Len(s) \in Len(s) + 1 .. Len(s) + Len(f)
          /\ k + Len(s) - Len(s) = k /\ k + Len(s) + 1 >= Len(s) + 1 /\ k + Len(s) + 1 \in Nat
        BY <1>1
    <2>3. t[k + Len(s)] = Plain("Subscribe")
        BY <1>1, <2>1, <2>2
    <2>4. \A j \in k + Len(s) + 1 .. Len(t) : j \in Len(s) + 1 .. Len(t)
        BY <1>1
    <2>5. \A j \in k + Len(s) + 1 .. Len(t) : t[j] # Plain("Unsubscribe")
        BY <1>2, <2>4
    <2> QED
        BY <2>2, <2>3, <2>5 DEF Subscribed
  <1> QED
      BY <1>3, <1>4 DEF t

LEMMA SubscribedTail ==
    ASSUME NEW was \in BOOLEAN, NEW s \in Seq(Message), s # <<>>, Subscribed(was, s)
    PROVE  Subscribed(Subscribed(was, <<Head(s)>>), Tail(s))
  <1>1. /\ Len(s) \in Nat /\ Len(s) >= 1 /\ Len(Tail(s)) = Len(s) - 1 /\ Head(s) = s[1]
        /\ \A k \in 1 .. Len(s) - 1 : Tail(s)[k] = s[k + 1]
      OBVIOUS
  <1> DEFINE t == Tail(s)
             b == Subscribed(was, <<Head(s)>>)
  <1>2. b <=> (was /\ s[1] # Plain("Unsubscribe")) \/ s[1] = Plain("Subscribe")
      BY <1>1, SubscribedOne
  <1>3. /\ Len(t) \in Nat /\ Len(t) = Len(s) - 1
        /\ \A k \in 1 .. Len(t) : t[k] = s[k + 1]
      BY <1>1
  <1> HIDE DEF t, b
  <1>4. PICK n \in 0 .. Len(s) : /\ IF n = 0 THEN was ELSE s[n] = Plain("Subscribe")
                                 /\ \A k \in n + 1 .. Len(s) : s[k] # Plain("Unsubscribe")
      BY DEF Subscribed
  <1>5. CASE n \in {0, 1}
    <2>1. b
      <3>1. CASE n = 0
        <4>1. 1 \in n + 1 .. Len(s)
            BY <1>1, <3>1
        <4> QED
            BY <1>2, <1>4, <3>1, <4>1
      <3>2. CASE n = 1
          BY <1>2, <1>4, <3>2
      <3> QED
          BY <1>5, <3>1, <3>2
    <2>2. ASSUME NEW k \in 0 + 1 .. Len(t) PROVE t[k] # Plain("Unsubscribe")
      <3>1. k + 1 \in n + 1 .. Len(s) /\ k \in 1 .. Len(t)
          BY <1>1, <1>3, <1>5
      <3> QED
          BY <1>3, <1>4, <3>1
    <2>3. 0 \in 0 .. Len(t)
        BY <1>3
    <2>4. Subscribed(b, t)
        BY <2>1, <2>2, <2>3 DEF Subscribed
    <2> QED
        BY <2>4 DEF b, t
  <1>6. CASE n \notin {0, 1}
    <2>1. n - 1 \in 0 .. Len(t) /\ n - 1 # 0 /\ n - 1 \in 1 .. Len(t) /\ n - 1 + 1 = n
        BY <1>3, <1>4, <1>6
    <2>2. t[n - 1] = Plain("Subscribe")
        BY <1>3, <1>4, <1>6, <2>1
    <2>3. ASSUME NEW k \in n - 1 + 1 .. Len(t) PROVE t[k] # Plain("Unsubscribe")
      <3>1. k + 1 \in n + 1 .. Len(s) /\ k \in 1 .. Len(t)
          BY <1>1, <1>3, <1>6
      <3> QED
          BY <1>3, <1>4, <3>1
    <2>4. Subscribed(b, t)
        BY <2>1, <2>2, <2>3 DEF Subscribed
    <2> QED
        BY <2>4 DEF b, t
  <1> QED
      BY <1>5, <1>6

(* A set with a listener is in the map, and the server has or will have    *)
(* the subscription.                                                       *)
SubsInv ==
    /\ listeners # <<>> => entry
    /\ SubscriptionsRestored

LEMMA SubsInit == Init => SubsInv
  BY DEF Init, SubsInv, SubscriptionsRestored, Established

(* After Init the socket is open and the server has made the connection.   *)
LEMMA EstablishedSocket ==
    ASSUME TypeOK, SocketInv, GreetInv, Established, transport \notin upShut
    PROVE  /\ transport \in Sockets /\ CanSend /\ handlers[transport] = "live"
           /\ ~Has(up[transport], {Close})
  <1>1. transport \in Sockets
      BY TypeParts DEF ClientTypeOK, Established
  <1>2. Greeted(transport)
      BY DEF Greeted, Established
  <1>3. handlers[transport] = "live"
      BY <1>1, <1>2 DEF GreetInv
  <1>4. ready[transport] = "open"
      BY <1>1, <1>3 DEF SocketInv, Alive, Established
  <1>5. ~Has(up[transport], {Close})
      BY <1>1 DEF GreetInv
  <1> QED
      BY <1>1, <1>3, <1>4, <1>5, Constants DEF CanSend

(* A step that makes no new subscription necessary.                        *)
LEMMA SubsKept ==
    ASSUME SubscriptionsRestored, UNCHANGED connSubs, upShut \subseteq upShut', entry' => entry,
           Established' => Established /\ transport' = transport,
           Established => up'[transport] = up[transport]
              \/ \A was \in BOOLEAN : Subscribed(was, up[transport]) => Subscribed(was, up'[transport])
    PROVE  SubscriptionsRestored'
  <1> SUFFICES ASSUME Established', entry', transport' \notin upShut'
               PROVE  Subscribed(transport \in connSubs, up[transport])'
      BY DEF SubscriptionsRestored
  <1>1. Established /\ transport' = transport /\ entry /\ transport \notin upShut
      OBVIOUS
  <1>2. Subscribed(transport \in connSubs, up[transport])
      BY <1>1 DEF SubscriptionsRestored
  <1>3. PICK was \in BOOLEAN : was = (transport \in connSubs)
    <2>1. (transport \in connSubs) \in BOOLEAN
        OBVIOUS
    <2> QED
        BY <2>1, Zenon
  <1>4. Subscribed(was, up'[transport])
      BY <1>1, <1>2, <1>3
  <1> QED
      BY <1>1, <1>3, <1>4

(* A request overtakes no subscription.                                    *)
LEMMA SubscribedSent ==
    ASSUME NetTypeOK, transport \in Sockets, NEW ms \in Seq(Message), ~Has(ms, {Plain("Unsubscribe")}), SendNow(ms)
    PROVE  /\ \A was \in BOOLEAN : Subscribed(was, up[transport]) => Subscribed(was, up'[transport])
           /\ CanSend /\ transport \notin upShut /\ Has(ms, {Plain("Subscribe")}) =>
                 \A was \in BOOLEAN : Subscribed(was, up'[transport])
  <1>1. CASE CanSend /\ transport \notin upShut
    <2>1. up'[transport] = up[transport] \o ms /\ up[transport] \in Seq(Message)
      <3>1. up \in Channel
          BY DEF NetTypeOK
      <3>2. Put(up, upShut, transport, ms)[transport] = up[transport] \o ms
          BY <1>1, <3>1, PutEffect
      <3> QED
          BY <1>1, <3>1, <3>2 DEF SendNow, Channel
    <2> QED
        BY <2>1, SubscribedConcat
  <1>2. CASE ~(CanSend /\ transport \notin upShut)
    <2>1. up' = up
        BY <1>2 DEF SendNow, Put
    <2> QED
        BY <1>2, <2>1
  <1> QED
      BY <1>1, <1>2

LEMMA SubsSent ==
    ASSUME TypeOK, SocketInv, GreetInv, SubsInv,
           UNCHANGED <<disposed, retry, transport, connSubs, upShut>>,
           NEW ms \in Seq(Message), ~Has(ms, {Plain("Unsubscribe")}),
           up' = up \/ SendNow(ms),
           entry' => entry \/ ~Established \/ (Has(ms, {Plain("Subscribe")}) /\ SendNow(ms))
    PROVE  SubscriptionsRestored'
  <1>1. NetTypeOK
      BY TypeParts
  <1>2. CASE ~Established \/ transport \in upShut
      BY <1>2 DEF SubscriptionsRestored, Established
  <1>3. CASE Established /\ transport \notin upShut
    <2>1. transport \in Sockets /\ CanSend
        BY <1>3, EstablishedSocket
    <2>2. CASE entry' => entry
      <3>1. up'[transport] = up[transport]
               \/ \A was \in BOOLEAN : Subscribed(was, up[transport]) => Subscribed(was, up'[transport])
          BY <1>1, <2>1, SubscribedSent
      <3>2. Established' => Established /\ transport' = transport
          BY DEF Established
      <3> QED
          BY <2>2, <3>1, <3>2, SubsKept DEF SubsInv
    <2>3. CASE Has(ms, {Plain("Subscribe")}) /\ SendNow(ms)
      <3>1. \A was \in BOOLEAN : Subscribed(was, up'[transport])
          BY <1>1, <1>3, <2>1, <2>3, SubscribedSent
      <3>2. (transport \in connSubs) \in BOOLEAN
          OBVIOUS
      <3>3. Subscribed(transport \in connSubs, up'[transport])
          BY <3>1, <3>2, Zenon
      <3> QED
          BY <3>3 DEF SubscriptionsRestored
    <2> QED
        BY <1>3, <2>2, <2>3
  <1> QED
      BY <1>2, <1>3

LEMMA SubsStep ==
    ASSUME TypeOK, SocketInv, RetryInv, GreetInv, SubsInv, [Next]_vars
    PROVE  SubsInv'
  <1>1. ClientTypeOK /\ ListenerTypeOK /\ NetTypeOK /\ ServerTypeOK
      BY TypeParts
  <1>2. up \in Channel /\ down \in Channel /\ inbox \in Channel
      BY <1>1 DEF NetTypeOK, ServerTypeOK
  <1>3. ASSUME UNCHANGED <<entry, listeners, connSubs, up, upShut>>,
               Established' => Established /\ transport' = transport
        PROVE  SubsInv'
    <2>1. SubscriptionsRestored'
        BY <1>3, SubsKept DEF SubsInv
    <2> QED
        BY <1>3, <2>1 DEF SubsInv
  <1>4. CASE UNCHANGED vars
      BY <1>3, <1>4 DEF vars, clientVars, eventVars, netVars, serverVars, Established
  <1>5. CASE Call
    <2>1. PICK ms \in Seq(Message) : ms = <<Request(actionIdCounter)>>
      <3>1. Request(actionIdCounter) \in Message
          BY <1>5, Kinds DEF Call
      <3>2. <<Request(actionIdCounter)>> \in Seq(Message)
          BY <3>1
      <3> QED
          BY <3>2, Zenon
    <2>2. ~Has(ms, {Plain("Unsubscribe")}) /\ (up' = up \/ SendNow(ms))
        BY <1>5, <2>1, HasSingle, Kinds DEF Call
    <2>3. UNCHANGED <<entry, listeners, disposed, retry, transport, connSubs, upShut>>
        BY <1>5 DEF Call, eventVars, serverVars
    <2>4. SubscriptionsRestored'
        BY <2>2, <2>3, SubsSent
    <2> QED
        BY <2>3, <2>4 DEF SubsInv
  <1>6. CASE Dispose
    <2>1. ~Established' /\ UNCHANGED <<entry, listeners>>
        BY <1>6 DEF Dispose, Established, eventVars
    <2> QED
        BY <2>1 DEF SubsInv, SubscriptionsRestored
  <1>7. ASSUME NEW l \in Listeners, On(l) PROVE SubsInv'
    <2>1. PICK ms \in Seq(Message) : ms = <<Plain("Subscribe")>>
      <3>1. Plain("Subscribe") \in Message
          BY MessageTypes
      <3>2. <<Plain("Subscribe")>> \in Seq(Message)
          BY <3>1
      <3> QED
          BY <3>2, Zenon
    <2>2. ~Has(ms, {Plain("Unsubscribe")}) /\ Has(ms, {Plain("Subscribe")})
        BY <2>1, HasSingle, MessageTypes DEF Plain
    <2>3. UNCHANGED <<disposed, retry, transport, connSubs, upShut>> /\ entry'
        BY <1>7 DEF On, clientVars, serverVars
    <2>4. (up' = up \/ SendNow(ms)) /\ (entry \/ disposed \/ SendNow(ms))
        BY <1>7, <2>1 DEF On, SendSubscription
    <2>5. SubscriptionsRestored'
        BY <2>2, <2>3, <2>4, SubsSent DEF Established
    <2> QED
        BY <2>3, <2>5 DEF SubsInv
  <1>8. ASSUME NEW l \in Listeners, Off(l) PROVE SubsInv'
    <2>1. UNCHANGED <<disposed, retry, transport, connSubs, upShut>>
        BY <1>8 DEF Off, clientVars, serverVars
    <2>2. CASE listeners' = <<>>
      <3>1. ~entry'
          BY <1>8, <2>2 DEF Off
      <3> QED
          BY <2>2, <3>1 DEF SubsInv, SubscriptionsRestored
    <2>3. CASE listeners' # <<>>
      <3>1. UNCHANGED <<entry, up>>
          BY <1>8, <2>3 DEF Off
      <3>2. listeners # <<>>
          BY <1>8 DEF Off, Range
      <3>3. SubscriptionsRestored'
          BY <2>1, <3>1, SubsKept DEF SubsInv, Established
      <3> QED
          BY <3>1, <3>2, <3>3 DEF SubsInv
    <2> QED
        BY <2>2, <2>3
  <1>9. CASE DialSucceeds \/ BackoffElapses
    <2>1. retry' # "idle" \/ disposed'
        BY <1>9 DEF DialSucceeds, BackoffElapses, RetryInv
    <2>2. ~Established'
        BY <2>1 DEF Established
    <2> QED
        BY <1>9, <2>2, <1>3 DEF DialSucceeds, BackoffElapses, eventVars, netVars, serverVars
  <1>10. CASE DialFails
      BY <1>3, <1>10 DEF DialFails, RetryInv, eventVars, netVars, serverVars, Established
  <1>11. CASE CallbackReturns
    <2>1. UNCHANGED <<disposed, retry, transport, connSubs, up, upShut>>
        BY <1>11 DEF CallbackReturns, clientVars, serverVars, netVars
    <2>2. CASE listeners' = <<>> /\ ~entry'
        BY <2>2 DEF SubsInv, SubscriptionsRestored
    <2>3. CASE entry' = entry /\ (listeners' = listeners \/ \E l : listeners' = Without(listeners, l))
      <3>1. listeners' # <<>> => listeners # <<>>
        <4>1. \A l : Without(listeners, l) \in Seq(Listeners) /\ Range(Without(listeners, l)) \subseteq Range(listeners)
            BY <1>1, WithoutEffect DEF ListenerTypeOK
        <4>2. \A s \in Seq(Listeners) : s # <<>> => s[1] \in Range(s)
            BY DEF Range
        <4>3. listeners = <<>> => Range(listeners) = {}
            BY DEF Range
        <4> QED
            BY <2>3, <4>1, <4>2, <4>3
      <3>2. SubscriptionsRestored'
          BY <2>1, <2>3, SubsKept DEF SubsInv, Established
      <3> QED
          BY <2>3, <3>1, <3>2 DEF SubsInv
    <2> QED
        BY <1>11, <2>2, <2>3 DEF CallbackReturns
  <1>12. ASSUME NEW c \in Sockets, SocketOpens(c) \/ ReceiveResponse(c) \/ ReceiveError(c) \/ Discard(c) PROVE SubsInv'
      BY <1>3, <1>12 DEF SocketOpens, ReceiveResponse, ReceiveError, AttemptFails, Discard, clientVars, eventVars, serverVars, Established
  <1>13. ASSUME NEW c \in Sockets, SocketFails(c) \/ ReceiveClose(c) PROVE SubsInv'
    <2>1. transport' = 0 /\ UNCHANGED <<entry, listeners>>
        BY <1>13 DEF SocketFails, ReceiveClose, HandleOnClose, eventVars
    <2> QED
        BY <2>1 DEF SubsInv, SubscriptionsRestored, Established
  <1>14. ASSUME NEW c \in Sockets, ReceiveEvent(c) PROVE SubsInv'
    <2>1. UNCHANGED <<disposed, retry, transport, connSubs, up, upShut, listeners>> /\ entry' = (listeners # <<>>)
        BY <1>14 DEF ReceiveEvent, clientVars, serverVars
    <2>2. SubscriptionsRestored'
        BY <2>1, SubsKept DEF SubsInv, Established
    <2> QED
        BY <2>1, <2>2 DEF SubsInv
  <1>15. ASSUME NEW c \in Sockets, ReceiveInit(c) PROVE SubsInv'
    <2>1. /\ UNCHANGED <<entry, listeners, disposed, transport, upShut, connSubs>> /\ ready[c] \in {"open", "closing"}
          /\ down[c] # <<>> /\ Head(down[c]).tag = "Init" /\ (disposed \/ SendNow(Flushed))
        BY <1>15 DEF ReceiveInit, FlushQueue, Receive, eventVars, serverVars
    <2>2. CASE disposed \/ ~entry
        BY <2>1, <2>2 DEF SubsInv, SubscriptionsRestored, Established
    <2>3. CASE ~disposed /\ entry
      <3>1. c = transport /\ ready[transport] = "open" /\ CanSend
          BY <2>1, <2>3, Constants DEF SocketInv, Alive, CanSend
      <3>2. Flushed \in Seq(Message) /\ ~Has(Flushed, {Plain("Unsubscribe")})
          BY <1>1, FlushedEffect DEF ClientTypeOK
      <3>3. Has(Flushed, {Plain("Subscribe")})
        <4>1. Resubscription = <<Plain("Subscribe")>>
            BY <2>3 DEF Resubscription
        <4>2. Has(Resubscription, {Plain("Subscribe")})
            BY <4>1, HasSingle
        <4>3. Resubscription \in Seq(Message) /\ QueuedRequests \in Seq(Message)
            BY <1>1, FlushedType DEF ClientTypeOK
        <4> QED
            BY <4>2, <4>3, HasConcat DEF Flushed
      <3>4. transport \notin upShut => \A was \in BOOLEAN : Subscribed(was, up'[transport])
          BY <1>1, <2>1, <2>3, <3>1, <3>2, <3>3, SubscribedSent
      <3>5. (transport \in connSubs) \in BOOLEAN
          OBVIOUS
      <3>6. transport \notin upShut => Subscribed(transport \in connSubs, up'[transport])
          BY <3>4, <3>5, Zenon
      <3>7. SubscriptionsRestored'
          BY <2>1, <3>6 DEF SubscriptionsRestored
      <3> QED
          BY <2>1, <3>7 DEF SubsInv
    <2> QED
        BY <2>2, <2>3
  <1>16. ASSUME NEW c \in Sockets, ConnRefused(c) \/ Disconnect(c) PROVE SubsInv'
      BY <1>3, <1>16 DEF ConnRefused, Disconnect, clientVars, eventVars, serverVars, Established
  <1>17. ASSUME NEW x \in executing, Broadcast(x) \/ ActionEnds(x) PROVE SubsInv'
      BY <1>3, <1>17 DEF Broadcast, ActionEnds, clientVars, eventVars, serverVars, Established
  <1>18. ASSUME NEW c \in Sockets, ConnCreated(c) \/ ServerReceives(c) \/ LinkLost(c) PROVE SubsInv'
    <2>1. UNCHANGED <<entry, listeners, disposed, retry, transport>> /\ upShut \subseteq upShut'
        BY <1>1, <1>18 DEF ConnCreated, ServerReceives, LinkLost, clientVars, eventVars, NetTypeOK
    <2>2. SUFFICES ASSUME Established, entry, transport \notin upShut, transport \notin upShut'
                   PROVE  Subscribed(transport \in connSubs', up'[transport])
        BY <2>1 DEF SubsInv, SubscriptionsRestored, Established
    <2>3. Subscribed(transport \in connSubs, up[transport])
        BY <2>2 DEF SubsInv, SubscriptionsRestored
    <2>4. transport \in Sockets /\ handlers[transport] = "live" /\ ~Has(up[transport], {Close})
        BY <2>2, EstablishedSocket
    <2>5. CASE transport # c
      <3>1. up'[transport] = up[transport]
          BY <1>2, <1>18, <2>4, <2>5 DEF ConnCreated, ServerReceives, LinkLost, Channel
      <3>2. transport \in connSubs' <=> transport \in connSubs
          BY <1>18, <2>5 DEF ConnCreated, ServerReceives, LinkLost, Process, serverVars
      <3>3. (transport \in connSubs') = (transport \in connSubs)
          BY <3>2
      <3> QED
          BY <2>3, <3>1, <3>3
    <2>6. CASE transport = c
      <3>1. ServerReceives(c)
          BY <1>18, <2>2, <2>4, <2>6 DEF ConnCreated, LinkLost
      <3>2. up[c] # <<>> /\ up' = [up EXCEPT ![c] = Tail(@)]
          BY <3>1 DEF ServerReceives
      <3>3. up'[c] = Tail(up[c]) /\ up[c] \in Seq(Message)
          BY <1>2, <3>2 DEF Channel
      <3>4. Head(up[c]) # Close
          BY <1>2, <2>4, <2>6, <3>2, HasTaken
      <3>5. Process(c, <<Head(up[c])>>)
          BY <2>4, <2>6, <3>1, <3>4 DEF ServerReceives
      <3>6. PICK now \in BOOLEAN : now = Subscribed(c \in connSubs, <<Head(up[c])>>)
          BY DEF Subscribed
      <3>7. (c \in connSubs') = now
          BY <3>5, <3>6 DEF Process
      <3>8. PICK was \in BOOLEAN : was = (c \in connSubs)
        <4>1. (c \in connSubs) \in BOOLEAN
            OBVIOUS
        <4> QED
            BY <4>1, Zenon
      <3>9. Subscribed(was, up[c])
          BY <2>3, <2>6, <3>8
      <3>10. Subscribed(Subscribed(was, <<Head(up[c])>>), Tail(up[c]))
          BY <3>2, <3>3, <3>9, SubscribedTail
      <3>11. Subscribed(now, Tail(up[c]))
          BY <3>6, <3>8, <3>10
      <3> QED
          BY <2>6, <3>3, <3>7, <3>11
    <2> QED
        BY <2>5, <2>6
  <1> QED
      BY <1>4, <1>5, <1>6, <1>7, <1>8, <1>9, <1>10, <1>11, <1>12, <1>13, <1>14, <1>15, <1>16, <1>17, <1>18
         DEF Next, Application, ClientStep, ServerStep

LEMMA ConnectionInvariant == Spec => [](TypeOK /\ SocketInv /\ RetryInv /\ GreetInv /\ SubsInv)
  <1>1. Init => GreetInv /\ SubsInv
      BY GreetInit, SubsInit
  <1>2. (TypeOK /\ SocketInv /\ RetryInv) /\ GreetInv /\ SubsInv /\ [Next]_vars => (GreetInv /\ SubsInv)'
      BY GreetStep, SubsStep
  <1> QED
      BY <1>1, <1>2, SocketsInvariant, PTL DEF Spec

(* On an established connection the subscription of a client that listens  *)
(* is held by the server or on its way, and no later message revokes it:   *)
(* for listeners registered before, during and after any number of         *)
(* reconnects, and however the messages of both sides interleave.          *)
THEOREM SubscriptionsAreRestored == Spec => []SubscriptionsRestored
  <1>1. SubsInv => SubscriptionsRestored
      BY DEF SubsInv
  <1> QED
      BY <1>1, ConnectionInvariant, PTL

-----------------------------------------------------------------------------
(* Events.  The index of the actor agrees with the connections; a listener *)
(* that is owed the event of an action gets it before the answer, because  *)
(* the subscription is ahead of the request, and the event of the answer.  *)

IndexInv ==
    /\ \A c \in Sockets : handlers[c] \in {"none", "pending"} => c \notin connSubs /\ c \notin index
    /\ \A c \in Sockets : handlers[c] = "live" => (c \in connSubs <=> c \in index)

UsedInv ==
    /\ Range(listeners) \subseteq used
    /\ \A i \in Ids : owed[i] \subseteq used

(* A subscription is ahead of message m and not revoked by any message.    *)
Covered(was, s, m) ==
    \E n \in 0 .. Len(s) :
        /\ IF n = 0 THEN was ELSE s[n] = Plain("Subscribe")
        /\ \A k \in n + 1 .. Len(s) : s[k] # Plain("Unsubscribe")
        /\ \A k \in 1 .. n : s[k] # m

(* Message e is ahead of all messages in M.                                *)
Precedes(s, e, M) == \E j \in 1 .. Len(s) : s[j] = e /\ \A k \in 1 .. j : s[k] \notin M

EventOf(i) == About("Event", i)

(* A listener still waits for the event of action i.                       *)
Wants(i) ==
    /\ ~disposed
    /\ i \notin early
    /\ \E l \in owed[i] : l \in Range(listeners) /\ l \notin heard[i]

(* The request is behind a subscription, on its way to a connection.       *)
BehindSubscription(i) ==
    \A c \in Sockets :
        /\ ~Has(inbox[c], {Request(i)})
        /\ Has(up[c], {Request(i)}) =>
              handlers[c] = "gone" \/ (handlers[c] = "live" /\ Covered(c \in connSubs, up[c], Request(i)))

(* The event of a running action has been or will be sent to its caller.   *)
EventPending(i) ==
    \A c \in Sockets :
        <<c, i>> \in executing /\ handlers[c] = "live" /\ c \notin downShut =>
            IF i \in broadcast THEN Has(down[c], {EventOf(i)})
                               ELSE c \in connSubs /\ ~Has(up[c], {Plain("Unsubscribe")})

(* The event is ahead of the answer.                                       *)
EventFirst(i) ==
    \A c \in Sockets :
        i \in broadcast /\ Has(down[c], Answers(i)) => Precedes(down[c], EventOf(i), Answers(i))

EventParts(i) ==
    /\ BehindSubscription(i)
    /\ EventPending(i)
    /\ EventFirst(i)
    /\ ~(outcome[i] = "resolved" /\ i \in broadcast)

EventInv == \A i \in Ids : Wants(i) => EventParts(i)

LEMMA SubscriptionKinds ==
    /\ Plain("Subscribe") # Plain("Unsubscribe") /\ Close # Plain("Unsubscribe")
    /\ \A i \in Ids : Request(i) # Plain("Subscribe") /\ Request(i) # Plain("Unsubscribe") /\ Request(i) # Close
    /\ \A i \in Ids : Plain("Subscribe") \in Message /\ Request(i) \in Message
  BY Kinds, MessageTypes DEF Plain, Close

LEMMA CoveredAppended ==
    ASSUME NEW was \in BOOLEAN, NEW s \in Seq(Message), NEW f \in Seq(Message), ~Has(f, {Plain("Unsubscribe")}), NEW m
    PROVE  /\ Covered(was, s, m) => Covered(was, s \o f, m)
           /\ Subscribed(was, s) /\ ~Has(s, {m}) => Covered(was, s \o f, m)
           /\ ~Has(s, {m}) /\ f # <<>> /\ f[1] = Plain("Subscribe") /\ m # Plain("Subscribe") => Covered(was, s \o f, m)
  <1> DEFINE t == s \o f
  <1>1. /\ Len(s) \in Nat /\ Len(f) \in Nat /\ Len(t) = Len(s) + Len(f)
        /\ \A k \in 1 .. Len(s) : t[k] = s[k]
        /\ \A k \in Len(s) + 1 .. Len(s) + Len(f) : t[k] = f[k - Len(s)]
      BY ConcatEffect
  <1>2. f # <<>> => Len(f) >= 1
      OBVIOUS
  <1> HIDE DEF t
  <1>3. \A k \in Len(s) + 1 .. Len(t) : t[k] # Plain("Unsubscribe")
    <2> SUFFICES ASSUME NEW k \in Len(s) + 1 .. Len(t) PROVE t[k] # Plain("Unsubscribe")
        OBVIOUS
    <2>1. k - Len(s) \in 1 .. Len(f) /\ t[k] = f[k - Len(s)]
        BY <1>1
    <2> QED
        BY <2>1 DEF Has
  <1>4. ASSUME NEW n \in 0 .. Len(s), IF n = 0 THEN was ELSE s[n] = Plain("Subscribe"),
               \A k \in n + 1 .. Len(s) : s[k] # Plain("Unsubscribe"), \A k \in 1 .. n : s[k] # m
        PROVE  Covered(was, t, m)
    <2>1. n \in 0 .. Len(t) /\ IF n = 0 THEN was ELSE t[n] = Plain("Subscribe")
        BY <1>1, <1>4
    <2>2. ASSUME NEW k \in n + 1 .. Len(t) PROVE t[k] # Plain("Unsubscribe")
      <3>1. CASE k <= Len(s)
        <4>1. k \in n + 1 .. Len(s) /\ k \in 1 .. Len(s)
            BY <3>1
        <4> QED
            BY <1>1, <1>4, <4>1
      <3>2. CASE k > Len(s)
        <4>1. k \in Len(s) + 1 .. Len(t)
            BY <1>1, <3>2
        <4> QED
            BY <1>3, <4>1
      <3> QED
          BY <1>1, <3>1, <3>2
    <2>3. \A k \in 1 .. n : t[k] # m
        BY <1>1, <1>4
    <2> QED
        BY <2>1, <2>2, <2>3 DEF Covered
  <1>5. ASSUME Covered(was, s, m) PROVE Covered(was, t, m)
      BY <1>4, <1>5 DEF Covered
  <1>6. ASSUME Subscribed(was, s), ~Has(s, {m}) PROVE Covered(was, t, m)
    <2>1. PICK n \in 0 .. Len(s) : /\ IF n = 0 THEN was ELSE s[n] = Plain("Subscribe")
                                   /\ \A k \in n + 1 .. Len(s) : s[k] # Plain("Unsubscribe")
        BY <1>6 DEF Subscribed
    <2>2. \A k \in 1 .. n : s[k] # m
        BY <1>1, <1>6, <2>1 DEF Has
    <2> QED
        BY <1>4, <2>1, <2>2
  <1>7. ASSUME ~Has(s, {m}), f # <<>>, f[1] = Plain("Subscribe"), m # Plain("Subscribe") PROVE Covered(was, t, m)
    <2>1. Len(s) + 1 \in 0 .. Len(t) /\ Len(s) + 1 # 0 /\ Len(s) + 1 \in Len(s) + 1 .. Len(s) + Len(f) /\ Len(s) + 1 - Len(s) = 1
        BY <1>1, <1>2, <1>7
    <2>2. t[Len(s) + 1] = Plain("Subscribe")
        BY <1>1, <1>7, <2>1
    <2>3. \A k \in Len(s) + 1 + 1 .. Len(t) : k \in Len(s) + 1 .. Len(t)
        BY <1>1
    <2>4. ASSUME NEW k \in 1 .. Len(s) + 1 PROVE t[k] # m
      <3>1. CASE k = Len(s) + 1
          BY <1>7, <2>2, <3>1
      <3>2. CASE k # Len(s) + 1
        <4>1. k \in 1 .. Len(s)
            BY <1>1, <3>2
        <4> QED
            BY <1>1, <1>7, <4>1 DEF Has
      <3> QED
          BY <3>1, <3>2
    <2> QED
        BY <1>3, <2>1, <2>2, <2>3, <2>4 DEF Covered
  <1> QED
      BY <1>5, <1>6, <1>7 DEF t

LEMMA CoveredTail ==
    ASSUME NEW was \in BOOLEAN, NEW s \in Seq(Message), s # <<>>, NEW m, Covered(was, s, m)
    PROVE  /\ Covered(Subscribed(was, <<Head(s)>>), Tail(s), m)
           /\ Head(s) = m => was /\ ~Has(s, {Plain("Unsubscribe")})
  <1>1. /\ Len(s) \in Nat /\ Len(s) >= 1 /\ Len(Tail(s)) = Len(s) - 1 /\ Head(s) = s[1]
        /\ \A k \in 1 .. Len(s) - 1 : Tail(s)[k] = s[k + 1]
      OBVIOUS
  <1> DEFINE t == Tail(s)
             b == Subscribed(was, <<Head(s)>>)
  <1>2. b <=> (was /\ s[1] # Plain("Unsubscribe")) \/ s[1] = Plain("Subscribe")
      BY <1>1, SubscribedOne
  <1>3. /\ Len(t) \in Nat /\ Len(t) = Len(s) - 1
        /\ \A k \in 1 .. Len(t) : t[k] = s[k + 1]
      BY <1>1
  <1> HIDE DEF t, b
  <1>4. PICK n \in 0 .. Len(s) : /\ IF n = 0 THEN was ELSE s[n] = Plain("Subscribe")
                                 /\ \A k \in n + 1 .. Len(s) : s[k] # Plain("Unsubscribe")
                                 /\ \A k \in 1 .. n : s[k] # m
      BY DEF Covered
  <1>5. ASSUME n \in {0, 1} PROVE Covered(b, t, m)
    <2>1. b
      <3>1. CASE n = 0
        <4>1. 1 \in n + 1 .. Len(s)
            BY <1>1, <3>1
        <4> QED
            BY <1>2, <1>4, <3>1, <4>1
      <3>2. CASE n = 1
          BY <1>2, <1>4, <3>2
      <3> QED
          BY <1>5, <3>1, <3>2
    <2>2. ASSUME NEW k \in 0 + 1 .. Len(t) PROVE t[k] # Plain("Unsubscribe")
      <3>1. k + 1 \in n + 1 .. Len(s) /\ k \in 1 .. Len(t)
          BY <1>1, <1>3, <1>5
      <3> QED
          BY <1>3, <1>4, <3>1
    <2>3. 0 \in 0 .. Len(t) /\ \A k \in 1 .. 0 : t[k] # m
        BY <1>3
    <2> QED
        BY <2>1, <2>2, <2>3 DEF Covered
  <1>6. ASSUME n \notin {0, 1} PROVE Covered(b, t, m)
    <2>1. n - 1 \in 0 .. Len(t) /\ n - 1 # 0 /\ n - 1 \in 1 .. Len(t) /\ n - 1 + 1 = n
        BY <1>3, <1>4, <1>6
    <2>2. t[n - 1] = Plain("Subscribe")
        BY <1>3, <1>4, <1>6, <2>1
    <2>3. ASSUME NEW k \in n - 1 + 1 .. Len(t) PROVE t[k] # Plain("Unsubscribe")
      <3>1. k + 1 \in n + 1 .. Len(s) /\ k \in 1 .. Len(t)
          BY <1>1, <1>3, <1>6
      <3> QED
          BY <1>3, <1>4, <3>1
    <2>4. ASSUME NEW k \in 1 .. n - 1 PROVE t[k] # m
      <3>1. k + 1 \in 1 .. n /\ k \in 1 .. Len(t)
          BY <1>3, <1>6
      <3> QED
          BY <1>3, <1>4, <3>1
    <2> QED
        BY <2>1, <2>2, <2>3, <2>4 DEF Covered
  <1>7. ASSUME Head(s) = m PROVE was /\ ~Has(s, {Plain("Unsubscribe")})
    <2>1. n = 0
        BY <1>1, <1>4, <1>7
    <2> QED
        BY <1>4, <2>1 DEF Has
  <1> QED
      BY <1>5, <1>6, <1>7 DEF t, b

(* What remains of a channel is a part of it, with a close at the end.     *)
LEMMA RemainsPrefix ==
    ASSUME NEW ch \in Channel, NEW shut, NEW c \in Sockets, NEW r \in Remains(ch, shut, c), r # <<>>
    PROVE  /\ r[Len(r)] = Close
           /\ \A k \in 1 .. Len(r) - 1 : k \in 1 .. Len(ch[c]) /\ r[k] = ch[c][k]
  <1> DEFINE s == ch[c]
  <1>1. s \in Seq(Message) /\ Close \in Message
      BY MessageTypes DEF Channel, Close
  <1>2. PICK n \in 0 .. Len(s) : r = SubSeq(s, 1, n) \o <<Close>>
      BY DEF Remains
  <1> HIDE DEF s
  <1> DEFINE p == SubSeq(s, 1, n)
  <1>3. p \in Seq(Message) /\ Len(p) = n /\ \A k \in 1 .. n : p[k] = s[k]
      BY <1>1
  <1> HIDE DEF p
  <1>4. r \in Seq(Message) /\ Len(r) = n + 1 /\ \A k \in 1 .. n + 1 : r[k] = IF k <= n THEN p[k] ELSE Close
      BY <1>1, <1>2, <1>3 DEF p
  <1>5. Len(s) \in Nat /\ n \in Nat
      BY <1>1
  <1>6. \A k \in 1 .. Len(r) - 1 : k \in 1 .. Len(s) /\ r[k] = s[k]
      BY <1>3, <1>4, <1>5
  <1>7. r[Len(r)] = Close
      BY <1>4, <1>5
  <1> QED
      BY <1>6, <1>7 DEF s

LEMMA CoveredRemains ==
    ASSUME NEW ch \in Channel, NEW shut, NEW c \in Sockets, NEW r \in Remains(ch, shut, c),
           NEW was \in BOOLEAN, NEW m, m # Close, Covered(was, ch[c], m), Has(r, {m})
    PROVE  Covered(was, r, m)
  <1>1. r \in Seq(Message) /\ r # <<>>
      BY RemainsEffect DEF Has
  <1>2. /\ r[Len(r)] = Close
        /\ \A k \in 1 .. Len(r) - 1 : k \in 1 .. Len(ch[c]) /\ r[k] = ch[c][k]
      BY <1>1, RemainsPrefix
  <1> DEFINE s == ch[c]
  <1>3. PICK n \in 0 .. Len(s) : /\ IF n = 0 THEN was ELSE s[n] = Plain("Subscribe")
                                 /\ \A k \in n + 1 .. Len(s) : s[k] # Plain("Unsubscribe")
                                 /\ \A k \in 1 .. n : s[k] # m
      BY DEF Covered
  <1>4. s \in Seq(Message)
      BY DEF Channel
  <1> HIDE DEF s
  <1>5. PICK j \in 1 .. Len(r) - 1 : r[j] = m
    <2>1. PICK j \in 1 .. Len(r) : r[j] = m
        BY DEF Has
    <2> QED
        BY <1>1, <1>2, <2>1
  <1>6. n < j /\ n \in Nat /\ j \in Nat /\ Len(r) \in Nat
      BY <1>1, <1>2, <1>3, <1>4, <1>5 DEF s
  <1>7. n \in 0 .. Len(r) /\ (n # 0 => n \in 1 .. Len(r) - 1)
      BY <1>5, <1>6
  <1>8. ASSUME NEW k \in n + 1 .. Len(r) PROVE r[k] # Plain("Unsubscribe")
    <2>1. CASE k = Len(r)
        BY <1>2, <2>1, SubscriptionKinds
    <2>2. CASE k # Len(r)
      <3>1. k \in 1 .. Len(r) - 1
          BY <1>6, <2>2
      <3>2. r[k] = s[k] /\ k \in n + 1 .. Len(s)
          BY <1>2, <1>6, <3>1 DEF s
      <3> QED
          BY <1>3, <3>2
    <2> QED
        BY <2>1, <2>2
  <1>9. ASSUME NEW k \in 1 .. n PROVE r[k] # m
    <2>1. k \in 1 .. Len(r) - 1
        BY <1>5, <1>6
    <2> QED
        BY <1>2, <1>3, <2>1 DEF s
  <1>10. IF n = 0 THEN was ELSE r[n] = Plain("Subscribe")
      BY <1>2, <1>3, <1>7 DEF s
  <1> QED
      BY <1>7, <1>8, <1>9, <1>10 DEF Covered

LEMMA PrecedesAppended ==
    ASSUME NEW s \in Seq(Message), NEW f \in Seq(Message), NEW e, NEW M
    PROVE  /\ Precedes(s, e, M) => Precedes(s \o f, e, M)
           /\ Has(s, {e}) /\ ~Has(s, M) => Precedes(s \o f, e, M)
  <1> DEFINE t == s \o f
  <1>1. /\ Len(s) \in Nat /\ Len(f) \in Nat /\ Len(t) = Len(s) + Len(f)
        /\ \A k \in 1 .. Len(s) : t[k] = s[k]
      BY ConcatEffect
  <1> HIDE DEF t
  <1>2. ASSUME NEW j \in 1 .. Len(s), s[j] = e, \A k \in 1 .. j : s[k] \notin M PROVE Precedes(t, e, M)
    <2>1. j \in 1 .. Len(t) /\ t[j] = e /\ \A k \in 1 .. j : k \in 1 .. Len(s)
        BY <1>1, <1>2
    <2>2. \A k \in 1 .. j : t[k] \notin M
        BY <1>1, <1>2, <2>1
    <2> QED
        BY <2>1, <2>2 DEF Precedes
  <1>3. Precedes(s, e, M) => Precedes(t, e, M)
      BY <1>2 DEF Precedes
  <1>4. ASSUME Has(s, {e}), ~Has(s, M) PROVE Precedes(t, e, M)
    <2>1. PICK j \in 1 .. Len(s) : s[j] = e
        BY <1>4 DEF Has
    <2>2. \A k \in 1 .. j : k \in 1 .. Len(s)
        BY <1>1
    <2>3. \A k \in 1 .. j : s[k] \notin M
        BY <1>4, <2>2 DEF Has
    <2> QED
        BY <1>2, <2>1, <2>3
  <1> QED
      BY <1>3, <1>4 DEF t

LEMMA PrecedesTail ==
    ASSUME NEW s \in Seq(Message), s # <<>>, NEW e, NEW M, Precedes(s, e, M)
    PROVE  Head(s) \notin M /\ (Head(s) # e => Precedes(Tail(s), e, M))
  <1>1. /\ Len(s) \in Nat /\ Len(s) >= 1 /\ Len(Tail(s)) = Len(s) - 1 /\ Head(s) = s[1]
        /\ \A k \in 1 .. Len(s) - 1 : Tail(s)[k] = s[k + 1]
      OBVIOUS
  <1> DEFINE t == Tail(s)
  <1>2. Len(t) = Len(s) - 1 /\ \A k \in 1 .. Len(s) - 1 : t[k] = s[k + 1]
      BY <1>1
  <1> HIDE DEF t
  <1>3. PICK j \in 1 .. Len(s) : s[j] = e /\ \A k \in 1 .. j : s[k] \notin M
      BY DEF Precedes
  <1>4. s[1] \notin M
      BY <1>1, <1>3
  <1>5. ASSUME s[1] # e PROVE Precedes(t, e, M)
    <2>1. j - 1 \in 1 .. Len(s) - 1 /\ j - 1 + 1 = j
        BY <1>1, <1>3, <1>5
    <2>2. ASSUME NEW k \in 1 .. j - 1 PROVE t[k] \notin M
      <3>1. k + 1 \in 1 .. j /\ k \in 1 .. Len(s) - 1
          BY <1>1, <2>1
      <3> QED
          BY <1>2, <1>3, <3>1
    <2> QED
        BY <1>2, <1>3, <2>1, <2>2 DEF Precedes
  <1> QED
      BY <1>1, <1>4, <1>5 DEF t

LEMMA PrecedesRemains ==
    ASSUME NEW ch \in Channel, NEW shut, NEW c \in Sockets, NEW r \in Remains(ch, shut, c),
           NEW e, NEW M, Close \notin M, Precedes(ch[c], e, M), Has(r, M)
    PROVE  Precedes(r, e, M)
  <1>1. r \in Seq(Message) /\ r # <<>>
      BY RemainsEffect DEF Has
  <1>2. /\ r[Len(r)] = Close
        /\ \A k \in 1 .. Len(r) - 1 : k \in 1 .. Len(ch[c]) /\ r[k] = ch[c][k]
      BY <1>1, RemainsPrefix
  <1>3. PICK j \in 1 .. Len(ch[c]) : ch[c][j] = e /\ \A k \in 1 .. j : ch[c][k] \notin M
      BY DEF Precedes
  <1>4. PICK n \in 1 .. Len(r) - 1 : r[n] \in M
    <2>1. PICK n \in 1 .. Len(r) : r[n] \in M
        BY DEF Has
    <2> QED
        BY <1>1, <1>2, <2>1
  <1>5. j < n /\ j \in Nat /\ j >= 1 /\ n \in Nat /\ Len(r) \in Nat
    <2>1. ch[c] \in Seq(Message)
        BY DEF Channel
    <2> QED
        BY <1>1, <1>2, <1>3, <1>4, <2>1
  <1>6. j \in 1 .. Len(r) /\ \A k \in 1 .. j : k \in 1 .. Len(r) - 1
      BY <1>4, <1>5
  <1>7. j \in 1 .. j
      BY <1>5
  <1> QED
      BY <1>2, <1>3, <1>6, <1>7 DEF Precedes

LEMMA IndexInit == Init => IndexInv /\ UsedInv
  BY DEF Init, IndexInv, UsedInv, Range

LEMMA SameIndex ==
    ASSUME IndexInv, UNCHANGED <<connSubs, index>>,
           \A c \in Sockets : \/ handlers'[c] = handlers[c]
                              \/ handlers'[c] = "gone"
                              \/ handlers'[c] = "pending" /\ handlers[c] = "none"
    PROVE  IndexInv'
  BY DEF IndexInv

LEMMA IndexProcessed ==
    ASSUME ServerTypeOK, IndexInv, NEW c \in Sockets, NEW ms \in Seq(Message), Process(c, ms), index' = IndexAfter(c, ms),
           c \in connSubs <=> c \in index
    PROVE  /\ \A d \in Sockets \ {c} : (d \in connSubs' <=> d \in connSubs) /\ (d \in index' <=> d \in index)
           /\ c \in connSubs' <=> Subscribed(c \in connSubs, ms)
           /\ c \in connSubs' <=> c \in index'
  <1>1. connSubs' = IF Subscribed(c \in connSubs, ms) THEN connSubs \cup {c} ELSE connSubs \ {c}
      BY DEF Process
  <1>2. index' \in {index \cup {c}, index \ {c}, index}
      BY DEF IndexAfter
  <1>3. CASE c \in connSubs
    <2>1. (c \in connSubs) = TRUE
        BY <1>3
    <2>2. Subscribed(c \in connSubs, ms) <=> Subscribed(TRUE, ms)
        BY <2>1
    <2>3. IF Subscribed(TRUE, ms) THEN index' = index ELSE index' = index \ {c}
        BY <1>3 DEF IndexAfter
    <2> QED
        BY <1>1, <1>2, <1>3, <2>2, <2>3
  <1>4. CASE c \notin connSubs
    <2>1. (c \in connSubs) = FALSE
        BY <1>4
    <2>2. Subscribed(c \in connSubs, ms) <=> Subscribed(FALSE, ms)
        BY <2>1
    <2>3. IF Subscribed(FALSE, ms) THEN index' = index \cup {c} ELSE index' = index
        BY <1>4 DEF IndexAfter
    <2> QED
        BY <1>1, <1>2, <1>4, <2>2, <2>3
  <1> QED
      BY <1>3, <1>4

LEMMA IndexStep ==
    ASSUME TypeOK, SocketInv, IndexInv, [Next]_vars
    PROVE  IndexInv'
  <1>1. NetTypeOK /\ ServerTypeOK
      BY TypeParts
  <1>2. up \in Channel /\ inbox \in Channel
      BY <1>1 DEF NetTypeOK, ServerTypeOK
  <1>3. CASE UNCHANGED vars
      BY <1>3, SameIndex DEF vars, serverVars
  <1>4. CASE Application
      BY <1>4, SameIndex DEF Application, Call, Dispose, On, Off, serverVars
  <1>5. CASE DialSucceeds \/ DialFails \/ BackoffElapses \/ CallbackReturns
      BY <1>5, SameIndex DEF DialSucceeds, DialFails, BackoffElapses, CallbackReturns, serverVars
  <1>6. ASSUME NEW c \in Sockets, SocketOpens(c) PROVE IndexInv'
    <2>1. handlers[c] = "none" /\ handlers' = [handlers EXCEPT ![c] = "pending"] /\ UNCHANGED <<connSubs, index>>
        BY <1>6 DEF SocketOpens, SocketInv
    <2>2. \A d \in Sockets : handlers'[d] = IF d = c THEN "pending" ELSE handlers[d]
        BY <1>1, <2>1 DEF ServerTypeOK
    <2> QED
        BY <2>1, <2>2, SameIndex
  <1>7. ASSUME NEW c \in Sockets,
               SocketFails(c) \/ ReceiveInit(c) \/ ReceiveResponse(c) \/ ReceiveError(c)
                  \/ ReceiveEvent(c) \/ ReceiveClose(c) \/ Discard(c)
        PROVE  IndexInv'
      BY <1>7, SameIndex DEF SocketFails, ReceiveInit, ReceiveResponse, ReceiveError, ReceiveEvent, ReceiveClose,
                             Discard, serverVars
  <1>8. ASSUME NEW c \in Sockets, ConnCreated(c) PROVE IndexInv'
    <2>1. /\ handlers[c] = "pending" /\ Process(c, inbox[c]) /\ index' = IndexAfter(c, inbox[c])
          /\ \E h \in {"live", "gone"} : handlers' = [handlers EXCEPT ![c] = h]
        BY <1>8 DEF ConnCreated
    <2>2. \A d \in Sockets : IF d = c THEN handlers'[d] \in {"live", "gone"} ELSE handlers'[d] = handlers[d]
        BY <1>1, <2>1 DEF ServerTypeOK
    <2>3. c \in connSubs <=> c \in index
        BY <2>1 DEF IndexInv
    <2>4. inbox[c] \in Seq(Message)
        BY <1>2 DEF Channel
    <2>5. /\ \A d \in Sockets \ {c} : (d \in connSubs' <=> d \in connSubs) /\ (d \in index' <=> d \in index)
          /\ c \in connSubs' <=> c \in index'
        BY <1>1, <2>1, <2>3, <2>4, IndexProcessed
    <2> QED
        BY <2>2, <2>5 DEF IndexInv
  <1>9. ASSUME NEW c \in Sockets, ConnRefused(c) PROVE IndexInv'
    <2>1. handlers' = [handlers EXCEPT ![c] = "gone"] /\ UNCHANGED <<connSubs, index>>
        BY <1>9 DEF ConnRefused
    <2>2. \A d \in Sockets : handlers'[d] = IF d = c THEN "gone" ELSE handlers[d]
        BY <1>1, <2>1 DEF ServerTypeOK
    <2> QED
        BY <2>1, <2>2, SameIndex
  <1>10. ASSUME NEW c \in Sockets, ServerReceives(c) PROVE IndexInv'
    <2>1. CASE UNCHANGED <<handlers, connSubs, index>>
        BY <2>1, SameIndex
    <2>2. CASE handlers[c] = "live" /\ handlers' = [handlers EXCEPT ![c] = "gone"] /\ index' = index \ {c} /\ UNCHANGED connSubs
      <3>1. \A d \in Sockets : handlers'[d] = IF d = c THEN "gone" ELSE handlers[d]
          BY <1>1, <2>2 DEF ServerTypeOK
      <3> QED
          BY <2>2, <3>1 DEF IndexInv
    <2>3. CASE handlers[c] = "live" /\ UNCHANGED handlers /\ Process(c, <<Head(up[c])>>) /\ index' = IndexAfter(c, <<Head(up[c])>>)
      <3>1. PICK ms \in Seq(Message) : ms = <<Head(up[c])>>
        <4>1. Head(up[c]) \in Message
            BY <1>2, <1>10, TailType DEF ServerReceives
        <4>2. <<Head(up[c])>> \in Seq(Message)
            BY <4>1
        <4> QED
            BY <4>2, Zenon
      <3>2. Process(c, ms) /\ index' = IndexAfter(c, ms) /\ (c \in connSubs <=> c \in index)
          BY <2>3, <3>1 DEF IndexInv
      <3>3. /\ \A d \in Sockets \ {c} : (d \in connSubs' <=> d \in connSubs) /\ (d \in index' <=> d \in index)
            /\ c \in connSubs' <=> c \in index'
          BY <1>1, <3>2, IndexProcessed
      <3> QED
          BY <2>3, <3>3 DEF IndexInv
    <2> QED
        BY <1>10, <2>1, <2>2, <2>3 DEF ServerReceives
  <1>11. ASSUME NEW c \in Sockets, Disconnect(c) \/ LinkLost(c) PROVE IndexInv'
      BY <1>11, SameIndex DEF Disconnect, LinkLost, serverVars
  <1>12. ASSUME NEW x \in executing, Broadcast(x) \/ ActionEnds(x) PROVE IndexInv'
      BY <1>12, SameIndex DEF Broadcast, ActionEnds, serverVars
  <1> QED
      BY <1>3, <1>4, <1>5, <1>6, <1>7, <1>8, <1>9, <1>10, <1>11, <1>12 DEF Next, ClientStep, ServerStep

(* Only on() and once() add a listener, and each is registered once.       *)
LEMMA ListenersStep ==
    ASSUME TypeOK, [Next]_vars
    PROVE  /\ used \subseteq used'
           /\ Range(listeners') \subseteq Range(listeners) \/ (~entry /\ \E l \in used' \ used : Range(listeners') \subseteq {l})
                 \/ (entry /\ up' = up /\ \E l \in used' \ used : Range(listeners') \subseteq Range(listeners) \cup {l})
           /\ owed' = owed \/ (Call /\ Range(listeners') = Range(listeners) /\ used' = used)
  <1>1. ListenerTypeOK /\ CallTypeOK
      BY TypeParts
  <1>2. ASSUME UNCHANGED <<listeners, used>> PROVE Range(listeners') = Range(listeners) /\ used \subseteq used'
      BY <1>2
  <1>3. CASE UNCHANGED <<listeners, used, owed>>
      BY <1>3
  <1>4. CASE Call
      BY <1>4 DEF Call, eventVars, history
  <1>5. ASSUME NEW l \in Listeners, On(l)
        PROVE  /\ owed' = owed /\ used \subseteq used'
               /\ \/ ~entry /\ \E k \in used' \ used : Range(listeners') \subseteq {k}
                  \/ entry /\ up' = up /\ \E k \in used' \ used : Range(listeners') \subseteq Range(listeners) \cup {k}
    <2>1. owed' = owed /\ l \in used' \ used /\ used \subseteq used'
        BY <1>5 DEF On, callVars
    <2>2. CASE entry
      <3>1. listeners' = Append(listeners, l) /\ up' = up
          BY <1>5, <2>2 DEF On
      <3>2. Range(listeners') \subseteq Range(listeners) \cup {l}
          BY <1>1, <3>1 DEF Range, ListenerTypeOK
      <3> QED
          BY <2>1, <2>2, <3>1, <3>2
    <2>3. CASE ~entry
      <3>1. Range(listeners') \subseteq {l}
          BY <1>5, <2>3 DEF On, Range
      <3> QED
          BY <2>1, <2>3, <3>1
    <2> QED
        BY <2>2, <2>3
  <1>6. ASSUME UNCHANGED <<used, owed>>, listeners' = <<>> \/ listeners' = listeners \/ \E l : listeners' = Without(listeners, l)
        PROVE  /\ owed' = owed /\ used \subseteq used'
               /\ Range(listeners') \subseteq Range(listeners)
    <2>1. \A l : Range(Without(listeners, l)) \subseteq Range(listeners)
        BY <1>1, WithoutEffect DEF ListenerTypeOK
    <2>2. Range(<<>>) = {}
        BY DEF Range
    <2> QED
        BY <1>6, <2>1, <2>2
  <1>7. CASE Dispose \/ DialSucceeds \/ DialFails \/ BackoffElapses
      BY <1>3, <1>7 DEF Dispose, DialSucceeds, DialFails, BackoffElapses, eventVars, callVars, history
  <1>8. ASSUME NEW l \in Listeners, Off(l) PROVE UNCHANGED <<used, owed>> /\ listeners' = Without(listeners, l)
      BY <1>8 DEF Off, callVars, history
  <1>9. CASE CallbackReturns
      BY <1>6, <1>9 DEF CallbackReturns, callVars, history
  <1>10. ASSUME NEW c \in Sockets, ClientStep(c) PROVE UNCHANGED <<listeners, used, owed>>
      BY <1>10 DEF ClientStep, SocketOpens, SocketFails, ReceiveInit, ReceiveResponse, ReceiveError, ReceiveEvent,
                   ReceiveClose, Discard, eventVars, callVars, history
  <1>11. ASSUME NEW c \in Sockets, ServerStep(c) PROVE UNCHANGED <<listeners, used, owed>>
      BY <1>11 DEF ServerStep, ConnCreated, ConnRefused, ServerReceives, Disconnect, LinkLost, eventVars, callVars
  <1>12. ASSUME NEW x \in executing, Broadcast(x) \/ ActionEnds(x) PROVE UNCHANGED <<listeners, used, owed>>
      BY <1>12 DEF Broadcast, ActionEnds, eventVars, callVars, history
  <1>13. CASE UNCHANGED vars
      BY <1>3, <1>13 DEF vars, eventVars, callVars, history
  <1> QED
      BY <1>3, <1>4, <1>5, <1>6, <1>7, <1>8, <1>9, <1>10, <1>11, <1>12, <1>13 DEF Next, Application

LEMMA UsedStep ==
    ASSUME TypeOK, UsedInv, [Next]_vars
    PROVE  UsedInv'
  <1>1. CallTypeOK
      BY TypeParts
  <1>2. Range(listeners') \subseteq used' /\ used \subseteq used'
      BY ListenersStep DEF UsedInv
  <1>3. CASE owed' = owed
      BY <1>2, <1>3 DEF UsedInv
  <1>4. CASE Call
    <2>1. \A i \in Ids : owed'[i] = owed[i] \/ owed'[i] = Range(listeners)
        BY <1>1, <1>4 DEF Call, CallTypeOK
    <2> QED
        BY <1>2, <2>1 DEF UsedInv
  <1> QED
      BY <1>3, <1>4, ListenersStep

(* What a step may do to a channel without disturbing the order.           *)
UpKept(s, t, i) ==
    /\ Has(t, {Request(i)}) => Has(s, {Request(i)})
    /\ Has(t, {Plain("Unsubscribe")}) => Has(s, {Plain("Unsubscribe")})
    /\ \A was \in BOOLEAN : Covered(was, s, Request(i)) /\ Has(t, {Request(i)}) => Covered(was, t, Request(i))

DownKept(s, t, i) ==
    /\ Has(t, Answers(i)) => Has(s, Answers(i))
    /\ Precedes(s, EventOf(i), Answers(i)) /\ Has(t, Answers(i)) => Precedes(t, EventOf(i), Answers(i))

EventStays(s, t, i) == Has(s, {EventOf(i)}) => Has(t, {EventOf(i)})

LEMMA EventKept ==
    ASSUME NEW i \in Ids, EventParts(i),
           \A c \in Sockets : \/ UpKept(up[c], up'[c], i)
                              \/ handlers'[c] # "live" /\ (Has(up'[c], {Request(i)}) => Has(up[c], {Request(i)})),
           \A c \in Sockets : DownKept(down[c], down'[c], i),
           \A c \in Sockets : c \notin downShut' => EventStays(down[c], down'[c], i),
           \A c \in Sockets : Has(inbox'[c], {Request(i)}) => Has(inbox[c], {Request(i)}),
           \A c \in Sockets : \/ handlers'[c] = handlers[c]
                              \/ handlers'[c] = "gone"
                              \/ handlers[c] \in {"none", "pending"} /\ <<c, i>> \notin executing,
           \A c \in Sockets : handlers[c] = "live" => (c \in connSubs' <=> c \in connSubs),
           \A c \in Sockets : <<c, i>> \in executing' => <<c, i>> \in executing,
           downShut \subseteq downShut', i \in broadcast' <=> i \in broadcast,
           outcome'[i] = "resolved" /\ i \in broadcast => outcome[i] = "resolved"
    PROVE  EventParts(i)'
  <1>1. ASSUME NEW c \in Sockets
        PROVE  /\ ~Has(inbox'[c], {Request(i)})
               /\ Has(up'[c], {Request(i)}) =>
                     handlers'[c] = "gone" \/ (handlers'[c] = "live" /\ Covered(c \in connSubs', up'[c], Request(i)))
    <2>1. ~Has(inbox'[c], {Request(i)})
        BY DEF EventParts, BehindSubscription
    <2>2. ASSUME Has(up'[c], {Request(i)}), handlers'[c] # "gone" PROVE handlers'[c] = "live" /\ Covered(c \in connSubs', up'[c], Request(i))
      <3>1. Has(up[c], {Request(i)})
          BY <2>2 DEF UpKept
      <3>2. handlers[c] \in {"live", "gone"} /\ (handlers[c] = "live" => Covered(c \in connSubs, up[c], Request(i)))
          BY <3>1 DEF EventParts, BehindSubscription
      <3>3. handlers'[c] = "live" /\ handlers[c] = "live"
          BY <2>2, <3>2
      <3>4. UpKept(up[c], up'[c], i)
          BY <3>3
      <3>5. (c \in connSubs') = (c \in connSubs)
          BY <3>3
      <3>6. (c \in connSubs) \in BOOLEAN
          OBVIOUS
      <3>7. Covered(c \in connSubs, up'[c], Request(i))
          BY <2>2, <3>2, <3>3, <3>4, <3>6, Zenon DEF UpKept
      <3> QED
          BY <3>3, <3>5, <3>7
    <2> QED
        BY <2>1, <2>2
  <1>2. BehindSubscription(i)'
      BY <1>1 DEF BehindSubscription, Request, About
  <1>3. ASSUME NEW c \in Sockets, <<c, i>> \in executing', handlers'[c] = "live", c \notin downShut'
        PROVE  IF i \in broadcast' THEN Has(down'[c], {EventOf(i)})
                                   ELSE c \in connSubs' /\ ~Has(up'[c], {Plain("Unsubscribe")})
    <2>1. <<c, i>> \in executing /\ c \notin downShut /\ handlers[c] = "live"
        BY <1>3
    <2>2. UpKept(up[c], up'[c], i) /\ EventStays(down[c], down'[c], i)
        BY <1>3
    <2>3. IF i \in broadcast THEN Has(down[c], {EventOf(i)})
                             ELSE c \in connSubs /\ ~Has(up[c], {Plain("Unsubscribe")})
        BY <2>1 DEF EventParts, EventPending
    <2> QED
        BY <2>1, <2>2, <2>3 DEF UpKept, EventStays
  <1>4. EventPending(i)'
      BY <1>3 DEF EventPending, EventOf, About, Plain
  <1>5. EventFirst(i)'
      BY DEF EventParts, EventFirst, DownKept, Answers, EventOf, About
  <1> QED
      BY <1>2, <1>4, <1>5 DEF EventParts

LEMMA KeptSame == \A s, i : UpKept(s, s, i) /\ DownKept(s, s, i) /\ EventStays(s, s, i)
  BY DEF UpKept, DownKept, EventStays

LEMMA UpKeptPut ==
    ASSUME NEW ch \in Channel, NEW shut, NEW c \in Sockets, NEW ms \in Seq(Message), NEW d \in Sockets, NEW i \in Ids,
           ~Has(ms, {Plain("Unsubscribe")}), ~Has(ms, {Request(i)})
    PROVE  UpKept(ch[d], Put(ch, shut, c, ms)[d], i)
  <1>1. Put(ch, shut, c, ms)[d] = IF d = c /\ c \notin shut THEN ch[d] \o ms ELSE ch[d]
      BY DEF Put, Channel
  <1>2. ch[d] \in Seq(Message)
      BY DEF Channel
  <1>3. UpKept(ch[d], ch[d] \o ms, i)
      BY <1>2, HasConcat, CoveredAppended DEF UpKept
  <1> QED
      BY <1>1, <1>3, KeptSame

LEMMA DownKeptPut ==
    ASSUME NEW ch \in Channel, NEW shut, NEW c \in Sockets, NEW ms \in Seq(Message), NEW d \in Sockets, NEW i \in Ids,
           ~Has(ms, Answers(i))
    PROVE  DownKept(ch[d], Put(ch, shut, c, ms)[d], i) /\ EventStays(ch[d], Put(ch, shut, c, ms)[d], i)
  <1>1. Put(ch, shut, c, ms)[d] = IF d = c /\ c \notin shut THEN ch[d] \o ms ELSE ch[d]
      BY DEF Put, Channel
  <1>2. ch[d] \in Seq(Message)
      BY DEF Channel
  <1>3. DownKept(ch[d], ch[d] \o ms, i) /\ EventStays(ch[d], ch[d] \o ms, i)
      BY <1>2, HasConcat, PrecedesAppended DEF DownKept, EventStays
  <1> QED
      BY <1>1, <1>3, KeptSame

(* Closing a channel, announcing a connection, and refusing one.           *)
LEMMA KeptSignals ==
    ASSUME NEW ch \in Channel, NEW shut, NEW c \in Sockets, NEW d \in Sockets, NEW i \in Ids
    PROVE  /\ UpKept(ch[d], Put(ch, shut, c, <<Close>>)[d], i)
           /\ DownKept(ch[d], Put(ch, shut, c, <<Close>>)[d], i) /\ EventStays(ch[d], Put(ch, shut, c, <<Close>>)[d], i)
           /\ DownKept(ch[d], Put(ch, shut, c, <<Plain("Init")>>)[d], i)
           /\ EventStays(ch[d], Put(ch, shut, c, <<Plain("Init")>>)[d], i)
           /\ DownKept(ch[d], Put(ch, shut, c, <<Plain("Error"), Close>>)[d], i)
           /\ EventStays(ch[d], Put(ch, shut, c, <<Plain("Error"), Close>>)[d], i)
  <1>1. PICK ms \in Seq(Message) : ms = <<Close>>
      BY Kinds, Zenon
  <1>2. PICK ns \in Seq(Message) : ns = <<Plain("Init")>>
      BY Kinds, Zenon
  <1>3. ~Has(ms, {Plain("Unsubscribe")}) /\ ~Has(ms, {Request(i)}) /\ ~Has(ms, Answers(i)) /\ ~Has(ns, Answers(i))
      BY <1>1, <1>2, HasSingle, AnswerKinds, Kinds
  <1>4. /\ UpKept(ch[d], Put(ch, shut, c, ms)[d], i)
        /\ DownKept(ch[d], Put(ch, shut, c, ms)[d], i) /\ EventStays(ch[d], Put(ch, shut, c, ms)[d], i)
        /\ DownKept(ch[d], Put(ch, shut, c, ns)[d], i) /\ EventStays(ch[d], Put(ch, shut, c, ns)[d], i)
      BY <1>3, UpKeptPut, DownKeptPut
  <1>5. PICK es \in Seq(Message) : es = <<Plain("Error"), Close>>
    <2>1. <<Plain("Error"), Close>> \in Seq(Message)
        BY MessageTypes DEF Close
    <2> QED
        BY <2>1, Zenon
  <1>6. ~Has(es, Answers(i))
    <2>1. Plain("Error") \notin Answers(i) /\ Close \notin Answers(i)
        BY AnswerKinds
    <2>2. \A k \in 1 .. Len(es) : es[k] \notin Answers(i)
        BY <1>5, <2>1
    <2> QED
        BY <2>2 DEF Has
  <1>7. DownKept(ch[d], Put(ch, shut, c, es)[d], i) /\ EventStays(ch[d], Put(ch, shut, c, es)[d], i)
      BY <1>6, DownKeptPut
  <1> QED
      BY <1>1, <1>2, <1>4, <1>5, <1>7

LEMMA DownKeptTaken ==
    ASSUME NEW ch \in Channel, NEW c \in Sockets, ch[c] # <<>>, NEW d \in Sockets, NEW i \in Ids, Head(ch[c]) # EventOf(i)
    PROVE  DownKept(ch[d], [ch EXCEPT ![c] = Tail(@)][d], i) /\ EventStays(ch[d], [ch EXCEPT ![c] = Tail(@)][d], i)
  <1>1. ch[c] \in Seq(Message) /\ [ch EXCEPT ![c] = Tail(@)][d] = IF d = c THEN Tail(ch[c]) ELSE ch[d]
      BY DEF Channel
  <1>2. DownKept(ch[c], Tail(ch[c]), i) /\ EventStays(ch[c], Tail(ch[c]), i)
      BY <1>1, HasTail, PrecedesTail DEF DownKept, EventStays
  <1> QED
      BY <1>1, <1>2, KeptSame

LEMMA KeptRemains ==
    ASSUME NEW ch \in Channel, NEW shut, NEW c \in Sockets, NEW r \in Remains(ch, shut, c), NEW d \in Sockets, NEW i \in Ids
    PROVE  UpKept(ch[d], [ch EXCEPT ![c] = r][d], i) /\ DownKept(ch[d], [ch EXCEPT ![c] = r][d], i)
  <1>1. [ch EXCEPT ![c] = r][d] = IF d = c THEN r ELSE ch[d]
      BY DEF Channel
  <1>2. Close \notin {Request(i)} /\ Close \notin Answers(i) /\ Close \notin {Plain("Unsubscribe")} /\ Request(i) # Close
      BY AnswerKinds, SubscriptionKinds
  <1>3. /\ Has(r, {Request(i)}) => Has(ch[c], {Request(i)})
        /\ Has(r, {Plain("Unsubscribe")}) => Has(ch[c], {Plain("Unsubscribe")})
        /\ Has(r, Answers(i)) => Has(ch[c], Answers(i))
      BY <1>2, HasRemains
  <1>4. UpKept(ch[c], r, i)
      BY <1>2, <1>3, CoveredRemains DEF UpKept
  <1>5. DownKept(ch[c], r, i)
      BY <1>2, <1>3, PrecedesRemains DEF DownKept
  <1> QED
      BY <1>1, <1>4, <1>5, KeptSame

LEMMA SingleType == \A S : \A m \in S : <<m>> \in Seq(S)
  OBVIOUS

LEMMA DownKeptSent ==
    ASSUME NEW C, NEW m \in Message, down \in Channel, SendTo(C, m), NEW d \in Sockets, NEW i \in Ids
    PROVE  /\ m \notin Answers(i) => DownKept(down[d], down'[d], i)
           /\ EventStays(down[d], down'[d], i)
           /\ m \in Answers(i) /\ Has(down[d], {EventOf(i)}) /\ ~Has(down[d], Answers(i)) /\ Has(down'[d], Answers(i))
                 => Precedes(down'[d], EventOf(i), Answers(i))
           /\ m = EventOf(i) /\ d \in C /\ handlers[d] = "live" /\ d \notin downShut => Has(down'[d], {EventOf(i)})
  <1>1. down[d] \in Seq(Message)
      BY DEF Channel
  <1>2. PICK f \in Seq(Message) : f = <<m>>
      BY SingleType, Zenon
  <1>3. (Has(f, Answers(i)) <=> m \in Answers(i)) /\ (Has(f, {EventOf(i)}) <=> m = EventOf(i))
      BY <1>2, HasSingle
  <1>4. down'[d] = IF d \in C /\ handlers[d] = "live" /\ d \notin downShut THEN Append(down[d], m) ELSE down[d]
      BY DEF SendTo
  <1>5. Append(down[d], m) = down[d] \o f
      BY <1>1, <1>2
  <1>6. CASE d \in C /\ handlers[d] = "live" /\ d \notin downShut
    <2>1. down'[d] = down[d] \o f
        BY <1>4, <1>5, <1>6
    <2>2. \A M : Has(down[d] \o f, M) <=> Has(down[d], M) \/ Has(f, M)
        BY <1>1, HasConcat
    <2>3. /\ Precedes(down[d], EventOf(i), Answers(i)) => Precedes(down[d] \o f, EventOf(i), Answers(i))
          /\ Has(down[d], {EventOf(i)}) /\ ~Has(down[d], Answers(i)) => Precedes(down[d] \o f, EventOf(i), Answers(i))
        BY <1>1, PrecedesAppended
    <2>4. m \notin Answers(i) => DownKept(down[d], down[d] \o f, i)
        BY <1>3, <2>2, <2>3 DEF DownKept
    <2>5. EventStays(down[d], down[d] \o f, i)
        BY <2>2 DEF EventStays
    <2>6. m = EventOf(i) => Has(down[d] \o f, {EventOf(i)})
        BY <1>3, <2>2
    <2> QED
        BY <2>1, <2>3, <2>4, <2>5, <2>6
  <1>7. CASE ~(d \in C /\ handlers[d] = "live" /\ d \notin downShut)
      BY <1>4, <1>7, KeptSame
  <1> QED
      BY <1>6, <1>7

(* A listener that waits after a step waited before, unless the step is    *)
(* the call itself; and then a listener is added or removed without a      *)
(* message.                                                                *)
LEMMA WantsStep ==
    ASSUME TypeOK, UsedInv, [Next]_vars, NEW i \in Ids, Wants(i)'
    PROVE  /\ ~disposed /\ ~disposed'
           /\ \/ Call /\ i = actionIdCounter
              \/ Wants(i) /\ ((\E l \in Listeners : On(l) \/ Off(l)) => up' = up)
  <1>1. ListenerTypeOK /\ CallTypeOK
      BY TypeParts
  <1>2. PICK l \in owed'[i] : l \in Range(listeners') /\ l \notin heard'[i]
      BY DEF Wants
  <1>3. ~disposed' /\ i \notin early'
      BY DEF Wants
  <1>4. disposed' = disposed \/ disposed'
      BY DEF Next, vars, Application, Call, Dispose, On, Off, DialSucceeds, DialFails, BackoffElapses, CallbackReturns,
             ClientStep, SocketOpens, SocketFails, ReceiveInit, ReceiveResponse, ReceiveError, ReceiveEvent, ReceiveClose,
             Discard, ServerStep, ConnCreated, ConnRefused, ServerReceives, Disconnect, LinkLost, Broadcast, ActionEnds,
             clientVars
  <1>5. CASE Call /\ i = actionIdCounter
      BY <1>3, <1>4, <1>5
  <1>6. CASE ~(Call /\ i = actionIdCounter)
    <2>1. owed'[i] = owed[i]
      <3>1. Call => owed'[i] = owed[i]
          BY <1>1, <1>6 DEF Call, CallTypeOK
      <3> QED
          BY <3>1, ListenersStep
    <2>2. early \subseteq early'
        BY DEF Next, vars, Application, Call, Dispose, On, Off, DialSucceeds, DialFails, BackoffElapses, CallbackReturns,
             ClientStep, SocketOpens, SocketFails, ReceiveInit, ReceiveResponse, ReceiveError, ReceiveEvent, ReceiveClose,
             Discard, ServerStep, ConnCreated, ConnRefused, ServerReceives, Disconnect, LinkLost, Broadcast, ActionEnds,
             callVars
    <2>3. heard[i] \subseteq heard'[i]
      <3>1. ASSUME NEW c \in Sockets, ReceiveEvent(c) PROVE heard[i] \subseteq heard'[i]
          BY <1>1, <3>1 DEF ReceiveEvent, ListenerTypeOK
      <3>2. heard' = heard \/ \E c \in Sockets : ReceiveEvent(c)
          BY DEF Next, vars, Application, Call, Dispose, On, Off, DialSucceeds, DialFails, BackoffElapses, CallbackReturns,
             ClientStep, SocketOpens, SocketFails, ReceiveInit, ReceiveResponse, ReceiveError, ReceiveClose,
             Discard, ServerStep, ConnCreated, ConnRefused, ServerReceives, Disconnect, LinkLost, Broadcast, ActionEnds,
             history
      <3> QED
          BY <3>1, <3>2
    <2>4. l \in used /\ l \in owed[i]
        BY <1>2, <2>1 DEF UsedInv
    <2>5. l \in Range(listeners)
        BY <1>2, <2>4, ListenersStep
    <2>6. Wants(i)
        BY <1>2, <1>3, <1>4, <2>2, <2>3, <2>4, <2>5 DEF Wants
    <2>7. ASSUME NEW k \in Listeners, On(k) PROVE up' = up
      <3>1. k \notin used /\ (~entry => listeners' = <<k>> \/ listeners' = <<>>)
          BY <2>7 DEF On
      <3>2. entry
          BY <1>2, <2>4, <3>1 DEF Range
      <3> QED
          BY <2>7, <3>2 DEF On
    <2>8. ASSUME NEW k \in Listeners, Off(k) PROVE up' = up
      <3>1. listeners' # <<>>
          BY <1>2 DEF Range
      <3> QED
          BY <2>8, <3>1 DEF Off
    <2> QED
        BY <1>3, <1>4, <2>6, <2>7, <2>8
  <1> QED
      BY <1>5, <1>6

(* Steps of the client but for calls and flushes.                          *)
LEMMA EventKeptByClient ==
    ASSUME TypeOK, SocketInv, NEW i \in Ids, EventParts(i), ~disposed, Wants(i)',
           \/ Call /\ i # actionIdCounter
           \/ up' = up /\ \E l \in Listeners : On(l) \/ Off(l)
           \/ DialSucceeds \/ DialFails \/ BackoffElapses \/ CallbackReturns
           \/ \E c \in Sockets : SocketOpens(c) \/ SocketFails(c) \/ ReceiveResponse(c) \/ ReceiveError(c)
                                    \/ ReceiveEvent(c) \/ ReceiveClose(c) \/ Discard(c)
    PROVE  EventParts(i)'
  <1>1. ClientTypeOK /\ ListenerTypeOK /\ NetTypeOK /\ ServerTypeOK /\ CallTypeOK
      BY TypeParts
  <1>2. up \in Channel /\ down \in Channel /\ transport \in Sockets \cup {0}
      BY <1>1 DEF NetTypeOK, ClientTypeOK
  <1>3. ASSUME UNCHANGED <<up, down, downShut, inbox, handlers, connSubs, executing, broadcast, outcome>>
        PROVE  EventParts(i)'
      BY <1>3, KeptSame, EventKept
  <1>4. CASE Call /\ i # actionIdCounter
    <2>1. Request(actionIdCounter) \in Message /\ actionIdCounter \in Ids
        BY <1>4, Kinds DEF Call
    <2>2. PICK ms \in Seq(Message) : ms = <<Request(actionIdCounter)>>
      <3>1. <<Request(actionIdCounter)>> \in Seq(Message)
          BY <2>1, SingleType
      <3> QED
          BY <3>1, Zenon
    <2>3. ~Has(ms, {Plain("Unsubscribe")}) /\ ~Has(ms, {Request(i)})
        BY <1>4, <2>1, <2>2, HasSingle, AnswerKinds, Kinds
    <2>4. up' = up \/ (transport \in Sockets /\ up' = Put(up, upShut, transport, ms))
        BY <1>2, <1>4, <2>2 DEF Call, SendNow, CanSend
    <2>5. \A c \in Sockets : transport \in Sockets => UpKept(up[c], Put(up, upShut, transport, ms)[c], i)
        BY <1>2, <2>3, UpKeptPut
    <2>6. \A c \in Sockets : UpKept(up[c], up'[c], i)
        BY <2>4, <2>5, KeptSame
    <2>7. UNCHANGED <<down, downShut, inbox, handlers, connSubs, executing, broadcast>> /\ outcome'[i] = outcome[i]
        BY <1>1, <1>4 DEF Call, serverVars, history, CallTypeOK
    <2> QED
        BY <2>6, <2>7, KeptSame, EventKept
  <1>5. CASE up' = up /\ \E l \in Listeners : On(l) \/ Off(l)
      BY <1>3, <1>5 DEF On, Off, serverVars, callVars, history
  <1>6. CASE DialSucceeds \/ DialFails \/ BackoffElapses \/ CallbackReturns
      BY <1>3, <1>6 DEF DialSucceeds, DialFails, BackoffElapses, CallbackReturns, netVars, serverVars, callVars, history
  <1>7. ASSUME NEW c \in Sockets, SocketOpens(c) PROVE EventParts(i)'
    <2>1. handlers[c] = "none" /\ handlers' = [handlers EXCEPT ![c] = "pending"]
        BY <1>7 DEF SocketOpens, SocketInv
    <2>2. \A d \in Sockets : handlers'[d] = IF d = c THEN "pending" ELSE handlers[d]
        BY <1>1, <2>1 DEF ServerTypeOK
    <2>3. UNCHANGED <<up, down, downShut, inbox, connSubs, executing, broadcast, outcome>>
        BY <1>7 DEF SocketOpens, callVars, history
    <2>4. BehindSubscription(i)'
      <3>1. ASSUME NEW d \in Sockets PROVE /\ ~Has(inbox[d], {Request(i)})
                                           /\ Has(up[d], {Request(i)}) => handlers'[d] = "gone" \/ (handlers'[d] = "live" /\ Covered(d \in connSubs, up[d], Request(i)))
          BY <2>1, <2>2 DEF EventParts, BehindSubscription
      <3> QED
          BY <2>3, <3>1 DEF BehindSubscription, Request, About
    <2>5. EventPending(i)'
        BY <2>2, <2>3 DEF EventParts, EventPending, EventOf, About, Plain
    <2>6. EventFirst(i)'
        BY <2>3 DEF EventParts, EventFirst, EventOf, About, Answers
    <2> QED
        BY <2>3, <2>4, <2>5, <2>6 DEF EventParts
  <1>8. ASSUME NEW c \in Sockets, SocketFails(c) PROVE EventParts(i)'
      BY <1>3, <1>8 DEF SocketFails, serverVars, callVars
  <1>9. ASSUME NEW c \in Sockets, ReceiveResponse(c) \/ ReceiveError(c) PROVE EventParts(i)'
    <2> DEFINE m == Head(down[c])
    <2>1. /\ UNCHANGED <<up, downShut, inbox, handlers, connSubs, executing, broadcast>>
          /\ down[c] # <<>> /\ down' = [down EXCEPT ![c] = Tail(@)] /\ m.tag \in {"Response", "Error"}
        BY <1>9 DEF ReceiveResponse, ReceiveError, Receive, serverVars, history
    <2>2. m \in Message /\ m.id \in Ids \cup {-1} /\ m = About(m.tag, m.id)
        BY <1>2, <2>1, TailType, MessageTypes
    <2>3. \A d \in Sockets : DownKept(down[d], down'[d], i) /\ EventStays(down[d], down'[d], i)
      <3>1. m # EventOf(i)
          BY <2>1, <2>2, MessageTypes DEF EventOf
      <3>2. \A d \in Sockets : /\ DownKept(down[d], [down EXCEPT ![c] = Tail(@)][d], i)
                               /\ EventStays(down[d], [down EXCEPT ![c] = Tail(@)][d], i)
          BY <1>2, <2>1, <3>1, DownKeptTaken
      <3> QED
          BY <2>1, <3>2
    <2>4. outcome'[i] = "resolved" /\ i \in broadcast => outcome[i] = "resolved"
      <3>1. SUFFICES ASSUME outcome'[i] = "resolved", outcome[i] # "resolved", i \in broadcast PROVE FALSE
          OBVIOUS
      <3>2. ReceiveResponse(c) /\ m.id = i
          BY <1>1, <1>9, <3>1 DEF ReceiveResponse, ReceiveError, Settle
      <3>3. m \in Answers(i)
          BY <1>9, <2>1, <2>2, <3>2, AnswerKinds
      <3>4. down[c] \in Seq(Message)
          BY <1>2 DEF Channel
      <3>5. Has(down[c], Answers(i))
          BY <2>1, <3>3, <3>4, HasTail
      <3>6. Precedes(down[c], EventOf(i), Answers(i))
          BY <3>1, <3>5 DEF EventParts, EventFirst
      <3> QED
          BY <2>1, <3>3, <3>4, <3>6, PrecedesTail
    <2> HIDE DEF m
    <2> QED
        BY <2>1, <2>3, <2>4, KeptSame, EventKept
  <1>10. ASSUME NEW c \in Sockets, ReceiveEvent(c) PROVE EventParts(i)'
    <2> DEFINE m == Head(down[c])
    <2>1. /\ UNCHANGED <<up, downShut, inbox, handlers, connSubs, executing, broadcast, outcome, listeners>>
          /\ down[c] # <<>> /\ down' = [down EXCEPT ![c] = Tail(@)] /\ m.tag = "Event"
          /\ heard' = [heard EXCEPT ![m.id] = @ \cup Range(listeners)]
        BY <1>10 DEF ReceiveEvent, Receive, serverVars, callVars
    <2>2. m # EventOf(i)
      <3>1. SUFFICES ASSUME m = EventOf(i) PROVE FALSE
          OBVIOUS
      <3>2. m.id = i
          BY <3>1 DEF EventOf, About
      <3>3. heard'[i] = heard[i] \cup Range(listeners)
          BY <1>1, <2>1, <3>2 DEF ListenerTypeOK
      <3> QED
          BY <2>1, <3>3 DEF Wants
    <2>3. \A d \in Sockets : /\ DownKept(down[d], [down EXCEPT ![c] = Tail(@)][d], i)
                             /\ EventStays(down[d], [down EXCEPT ![c] = Tail(@)][d], i)
        BY <1>2, <2>1, <2>2, DownKeptTaken
    <2> HIDE DEF m
    <2> QED
        BY <2>1, <2>3, KeptSame, EventKept
  <1>11. ASSUME NEW c \in Sockets, ReceiveClose(c) PROVE EventParts(i)'
    <2>1. /\ UNCHANGED <<downShut, inbox, handlers, connSubs, executing, broadcast, outcome>>
          /\ down[c] # <<>> /\ down' = [down EXCEPT ![c] = Tail(@)] /\ Head(down[c]).tag = "Close"
          /\ up' = Put(up, upShut, c, <<Close>>)
        BY <1>11 DEF ReceiveClose, Receive, serverVars, callVars, history
    <2>2. Head(down[c]) # EventOf(i)
        BY <2>1 DEF EventOf, About
    <2>3. \A d \in Sockets : /\ DownKept(down[d], [down EXCEPT ![c] = Tail(@)][d], i)
                             /\ EventStays(down[d], [down EXCEPT ![c] = Tail(@)][d], i)
                             /\ UpKept(up[d], Put(up, upShut, c, <<Close>>)[d], i)
        BY <1>2, <2>1, <2>2, DownKeptTaken, KeptSignals
    <2> QED
        BY <2>1, <2>3, EventKept
  <1>12. ASSUME NEW c \in Sockets, Discard(c) PROVE EventParts(i)'
      BY <1>12 DEF Discard, SocketInv
  <1> QED
      BY <1>4, <1>5, <1>6, <1>7, <1>8, <1>9, <1>10, <1>11, <1>12

LEMMA EventStepCall ==
    ASSUME TypeOK, SocketInv, GreetInv, SubsInv, NEW i \in Ids, StartInv(i), Wants(i)', Call, i = actionIdCounter
    PROVE  EventParts(i)'
  <1>1. ClientTypeOK /\ ListenerTypeOK /\ NetTypeOK /\ ServerTypeOK /\ CallTypeOK
      BY TypeParts
  <1>2. i \in Nat /\ Request(i) \in Message
      BY Constants, Kinds
  <1>3. Nowhere(i) /\ starts[i] = 0 /\ i \notin broadcast
      BY <1>2 DEF StartInv
  <1>4. /\ UNCHANGED <<disposed, listeners, down, downShut, inbox, handlers, connSubs, executing, broadcast>>
        /\ owed'[i] = Range(listeners)
      BY <1>1 DEF Call, eventVars, serverVars, history, ListenerTypeOK
  <1>5. ~disposed /\ i \notin early' /\ listeners # <<>>
      BY <1>4 DEF Wants, Range
  <1>6. entry
      BY <1>5 DEF SubsInv
  <1>7. \A c \in Sockets : /\ ~Has(up[c], {Request(i)}) /\ ~Has(inbox[c], {Request(i)})
                           /\ <<c, i>> \notin executing /\ ~Has(down[c], Answers(i))
      BY <1>3, AtParts DEF Nowhere
  <1>8. ASSUME NEW c \in Sockets, Has(up'[c], {Request(i)}) PROVE handlers[c] = "live" /\ Covered(c \in connSubs, up'[c], Request(i))
    <2>1. PICK ms \in Seq(Message) : ms = <<Request(i)>>
      <3>1. <<Request(i)>> \in Seq(Message)
          BY <1>2, SingleType
      <3> QED
          BY <3>1, Zenon
    <2>2. SendNow(ms)
        BY <1>5, <2>1 DEF Call
    <2>3. CanSend
        BY <1>7, <1>8, <2>2 DEF SendNow
    <2>4. up' = Put(up, upShut, transport, ms) /\ transport \in Sockets /\ retry = "idle"
        BY <1>1, <1>5, <2>2, <2>3 DEF SendNow, CanSend, Call, ClientTypeOK
    <2>5. c = transport /\ transport \notin upShut /\ up'[c] = up[c] \o ms
        BY <1>1, <1>7, <1>8, <2>4 DEF Put, NetTypeOK, Channel
    <2>6. Established
        BY <1>5, <2>4, Constants DEF Established
    <2>7. Subscribed(c \in connSubs, up[c]) /\ handlers[c] = "live"
        BY <1>6, <2>5, <2>6, EstablishedSocket DEF SubsInv, SubscriptionsRestored
    <2>8. ~Has(ms, {Plain("Unsubscribe")})
        BY <2>1, HasSingle, SubscriptionKinds
    <2>9. PICK was \in BOOLEAN : was = (c \in connSubs)
      <3>1. (c \in connSubs) \in BOOLEAN
          OBVIOUS
      <3> QED
          BY <3>1, Zenon
    <2>10. up[c] \in Seq(Message)
        BY <1>1 DEF NetTypeOK, Channel
    <2>11. Covered(was, up[c] \o ms, Request(i))
        BY <1>7, <2>7, <2>8, <2>9, <2>10, CoveredAppended
    <2> QED
        BY <2>5, <2>7, <2>9, <2>11
  <1>9. BehindSubscription(i)'
      BY <1>4, <1>7, <1>8 DEF BehindSubscription, Request, About
  <1>10. EventPending(i)' /\ EventFirst(i)'
      BY <1>3, <1>4, <1>7 DEF EventPending, EventFirst
  <1> QED
      BY <1>3, <1>4, <1>9, <1>10 DEF EventParts

LEMMA EventStepInit ==
    ASSUME TypeOK, SocketInv, GreetInv, SubsInv, NEW i \in Ids, OnePlace(i), EventParts(i), ~disposed, Wants(i)',
           NEW c \in Sockets, ReceiveInit(c)
    PROVE  EventParts(i)'
  <1>1. ClientTypeOK /\ NetTypeOK /\ ServerTypeOK
      BY TypeParts
  <1>2. up \in Channel /\ down \in Channel
      BY <1>1 DEF NetTypeOK
  <1>3. /\ UNCHANGED <<listeners, transport, downShut, inbox, handlers, connSubs, executing, broadcast, outcome>>
        /\ ready[c] \in {"open", "closing"} /\ down[c] # <<>> /\ Head(down[c]).tag = "Init"
        /\ down' = [down EXCEPT ![c] = Tail(@)] /\ SendNow(Flushed)
      BY DEF ReceiveInit, FlushQueue, Receive, eventVars, serverVars, callVars, history
  <1>4. c = transport /\ CanSend
      BY <1>3, Constants DEF SocketInv, Alive, CanSend
  <1>5. up' = Put(up, upShut, c, Flushed)
      BY <1>3, <1>4 DEF SendNow
  <1>6. \A d \in Sockets : DownKept(down[d], down'[d], i) /\ EventStays(down[d], down'[d], i)
    <2>1. Head(down[c]) # EventOf(i)
        BY <1>3 DEF EventOf, About
    <2>2. \A d \in Sockets : /\ DownKept(down[d], [down EXCEPT ![c] = Tail(@)][d], i)
                             /\ EventStays(down[d], [down EXCEPT ![c] = Tail(@)][d], i)
        BY <1>2, <1>3, <2>1, DownKeptTaken
    <2> QED
        BY <1>3, <2>2
  <1>7. Flushed \in Seq(Message) /\ ~Has(Flushed, {Plain("Unsubscribe")}) /\ (Has(Flushed, {Request(i)}) <=> Has(messageQueue, {i}))
      BY <1>1, FlushedEffect DEF ClientTypeOK
  <1>8. CASE ~Has(Flushed, {Request(i)}) \/ c \in upShut
    <2>1. \A d \in Sockets : UpKept(up[d], Put(up, upShut, c, Flushed)[d], i)
      <3>1. CASE ~Has(Flushed, {Request(i)})
          BY <1>2, <1>7, <3>1, UpKeptPut
      <3>2. CASE c \in upShut
          BY <3>2, KeptSame DEF Put
      <3> QED
          BY <1>8, <3>1, <3>2
    <2> QED
        BY <1>3, <1>5, <1>6, <2>1, EventKept
  <1>9. CASE Has(Flushed, {Request(i)}) /\ c \notin upShut
    <2>1. \A d \in Sockets : ~Has(up[d], {Request(i)}) /\ <<d, i>> \notin executing /\ ~Has(down[d], Answers(i))
        BY <1>7, <1>9, AtParts DEF OnePlace, Places
    <2>2. handlers[c] = "live"
      <3>1. Head(down[c]) \in Message
          BY <1>2, <1>3, TailType
      <3>2. Head(down[c]) \in {Plain("Init")}
          BY <1>3, <3>1, Kinds
      <3>3. Has(down[c], {Plain("Init")})
          BY <1>2, <1>3, <3>2, HasTaken
      <3> QED
          BY <1>9, <3>3 DEF GreetInv, Greeted
    <2>3. entry
        BY <1>3 DEF SubsInv, Wants, Range
    <2>4. Flushed # <<>> /\ Flushed[1] = Plain("Subscribe")
      <3>1. Resubscription = <<Plain("Subscribe")>> /\ Resubscription \in Seq(Message) /\ QueuedRequests \in Seq(Message)
          BY <1>1, <2>3, FlushedType DEF Resubscription, ClientTypeOK
      <3>2. PICK f \in Seq(Message) : f = Resubscription
          BY <3>1
      <3>3. Len(f) = 1 /\ f[1] = Plain("Subscribe")
          BY <3>1, <3>2
      <3>4. Flushed = f \o QueuedRequests
          BY <3>2 DEF Flushed
      <3>5. Len(Flushed) = 1 + Len(QueuedRequests) /\ Len(QueuedRequests) \in Nat /\ Flushed[1] = f[1]
          BY <3>1, <3>3, <3>4, ConcatEffect
      <3> QED
          BY <3>3, <3>5
    <2>5. up[c] \in Seq(Message)
        BY <1>2 DEF Channel
    <2>6. \A was \in BOOLEAN : Covered(was, up[c] \o Flushed, Request(i))
        BY <1>7, <2>1, <2>4, <2>5, SubscriptionKinds, CoveredAppended
    <2>7. \A d \in Sockets : up'[d] = IF d = c THEN up[c] \o Flushed ELSE up[d]
        BY <1>2, <1>5, <1>9 DEF Put, Channel
    <2>8. (c \in connSubs) \in BOOLEAN
        OBVIOUS
    <2>9. Covered(c \in connSubs, up'[c], Request(i))
        BY <2>6, <2>7, <2>8, Zenon
    <2>10. BehindSubscription(i)'
      <3>1. \A d \in Sockets : ~Has(inbox[d], {Request(i)})
          BY DEF EventParts, BehindSubscription
      <3>2. \A d \in Sockets : Has(up'[d], {Request(i)}) => d = c
          BY <2>1, <2>7
      <3> QED
          BY <1>3, <2>2, <2>9, <3>1, <3>2 DEF BehindSubscription, Request, About
    <2>11. \A d \in Sockets : ~Has(down'[d], Answers(i))
        BY <1>6, <2>1 DEF DownKept
    <2>12. EventPending(i)' /\ EventFirst(i)'
        BY <1>3, <2>1, <2>11 DEF EventPending, EventFirst, Answers, About
    <2> QED
        BY <1>3, <2>10, <2>12 DEF EventParts
  <1> QED
      BY <1>8, <1>9

(* Steps of the server that neither start nor end the action nor send its  *)
(* event.                                                                  *)
LEMMA EventKeptByServer ==
    ASSUME TypeOK, GreetInv, NEW i \in Ids, EventParts(i),
           \E c \in Sockets : ConnCreated(c) \/ ConnRefused(c) \/ Disconnect(c) \/ LinkLost(c)
    PROVE  EventParts(i)'
  <1>1. NetTypeOK /\ ServerTypeOK
      BY TypeParts
  <1>2. up \in Channel /\ down \in Channel /\ inbox \in Channel
      BY <1>1 DEF NetTypeOK, ServerTypeOK
  <1>3. \A c \in Sockets : handlers[c] = "pending" => <<c, i>> \notin executing
      BY DEF GreetInv
  <1>4. ASSUME NEW c \in Sockets, ConnCreated(c) PROVE EventParts(i)'
    <2>1. /\ handlers[c] = "pending" /\ Process(c, inbox[c]) /\ inbox' = [inbox EXCEPT ![c] = <<>>]
          /\ down' = Put(down, downShut, c, <<Plain("Init")>>)
          /\ \E h \in {"live", "gone"} : handlers' = [handlers EXCEPT ![c] = h]
          /\ UNCHANGED <<up, downShut, broadcast, outcome>>
        BY <1>4 DEF ConnCreated, callVars
    <2>2. \A d \in Sockets : inbox'[d] = (IF d = c THEN <<>> ELSE inbox[d]) /\ (d # c => handlers'[d] = handlers[d])
        BY <1>1, <1>2, <2>1 DEF ServerTypeOK, Channel
    <2>3. \A d \in Sockets : Has(inbox'[d], {Request(i)}) => Has(inbox[d], {Request(i)})
        BY <2>2, HasEmpty
    <2>4. \A d \in Sockets : handlers[d] = "live" => (d \in connSubs' <=> d \in connSubs)
        BY <2>1 DEF Process
    <2>5. \A d \in Sockets : <<d, i>> \in executing' => <<d, i>> \in executing
      <3>1. inbox[c] \in Seq(Message) /\ ~Has(inbox[c], {Request(i)})
          BY <1>2 DEF Channel, EventParts, BehindSubscription
      <3> QED
          BY <1>1, <2>1, <3>1, ProcessEffect
    <2>6. \A d \in Sockets : /\ DownKept(down[d], Put(down, downShut, c, <<Plain("Init")>>)[d], i)
                             /\ EventStays(down[d], Put(down, downShut, c, <<Plain("Init")>>)[d], i)
        BY <1>2, KeptSignals
    <2>7. \A d \in Sockets : DownKept(down[d], down'[d], i) /\ EventStays(down[d], down'[d], i) /\ UpKept(up[d], up'[d], i)
        BY <2>1, <2>6, KeptSame
    <2>8. \A d \in Sockets : handlers'[d] = handlers[d] \/ (handlers[d] = "pending" /\ <<d, i>> \notin executing)
        BY <1>3, <2>1, <2>2
    <2> QED
        BY <2>1, <2>3, <2>4, <2>5, <2>7, <2>8, EventKept
  <1>5. ASSUME NEW c \in Sockets, ConnRefused(c) PROVE EventParts(i)'
    <2>1. /\ handlers' = [handlers EXCEPT ![c] = "gone"] /\ inbox' = [inbox EXCEPT ![c] = <<>>]
          /\ downShut' = downShut \cup {c}
          /\ \/ down' = Put(down, downShut, c, <<Close>>)
             \/ down' = Put(down, downShut, c, <<Plain("Error"), Close>>)
          /\ UNCHANGED <<up, connSubs, executing, broadcast, outcome>>
        BY <1>5 DEF ConnRefused, callVars
    <2>2. \A d \in Sockets : /\ inbox'[d] = (IF d = c THEN <<>> ELSE inbox[d])
                             /\ handlers'[d] = IF d = c THEN "gone" ELSE handlers[d]
        BY <1>1, <1>2, <2>1 DEF ServerTypeOK, Channel
    <2>3. \A d \in Sockets : Has(inbox'[d], {Request(i)}) => Has(inbox[d], {Request(i)})
        BY <2>2, HasEmpty
    <2>4. \A d \in Sockets : DownKept(down[d], down'[d], i) /\ EventStays(down[d], down'[d], i)
      <3>1. \A d \in Sockets : /\ DownKept(down[d], Put(down, downShut, c, <<Close>>)[d], i)
                               /\ EventStays(down[d], Put(down, downShut, c, <<Close>>)[d], i)
                               /\ DownKept(down[d], Put(down, downShut, c, <<Plain("Error"), Close>>)[d], i)
                               /\ EventStays(down[d], Put(down, downShut, c, <<Plain("Error"), Close>>)[d], i)
          BY <1>2, KeptSignals
      <3> QED
          BY <2>1, <3>1
    <2> QED
        BY <2>1, <2>2, <2>3, <2>4, KeptSame, EventKept
  <1>6. ASSUME NEW c \in Sockets, Disconnect(c) PROVE EventParts(i)'
    <2>1. /\ down' = Put(down, downShut, c, <<Close>>) /\ downShut' = downShut \cup {c}
          /\ UNCHANGED <<up, inbox, handlers, connSubs, executing, broadcast, outcome>>
        BY <1>6 DEF Disconnect, serverVars, callVars
    <2>2. \A d \in Sockets : /\ DownKept(down[d], Put(down, downShut, c, <<Close>>)[d], i)
                             /\ EventStays(down[d], Put(down, downShut, c, <<Close>>)[d], i)
        BY <1>2, KeptSignals
    <2> QED
        BY <2>1, <2>2, KeptSame, EventKept
  <1>7. ASSUME NEW c \in Sockets, LinkLost(c) PROVE EventParts(i)'
    <2>1. PICK u \in Remains(up, upShut, c), v \in Remains(down, downShut, c) :
             up' = [up EXCEPT ![c] = u] /\ down' = [down EXCEPT ![c] = v]
        BY <1>7 DEF LinkLost
    <2>2. downShut' = downShut \cup {c} /\ UNCHANGED <<inbox, handlers, connSubs, executing, broadcast, outcome>>
        BY <1>7 DEF LinkLost, serverVars, callVars
    <2>3. \A d \in Sockets : UpKept(up[d], [up EXCEPT ![c] = u][d], i) /\ DownKept(down[d], [down EXCEPT ![c] = v][d], i)
        BY <1>2, KeptRemains
    <2>4. \A d \in Sockets : UpKept(up[d], up'[d], i) /\ DownKept(down[d], down'[d], i)
        BY <2>1, <2>3
    <2>5. \A d \in Sockets : d \notin downShut' => EventStays(down[d], down'[d], i)
      <3>1. \A d \in Sockets : d # c => [down EXCEPT ![c] = v][d] = down[d]
          BY <1>2 DEF Channel
      <3> QED
          BY <2>1, <2>2, <3>1, KeptSame
    <2> QED
        BY <2>2, <2>4, <2>5, EventKept
  <1> QED
      BY <1>4, <1>5, <1>6, <1>7

(* The request is processed: the subscription is in place.                 *)
LEMMA EventStepReceived ==
    ASSUME TypeOK, GreetInv, NEW i \in Ids, StartInv(i), EventParts(i), NEW c \in Sockets, ServerReceives(c)
    PROVE  EventParts(i)'
  <1>1. NetTypeOK /\ ServerTypeOK
      BY TypeParts
  <1>2. up \in Channel /\ down \in Channel /\ inbox \in Channel
      BY <1>1 DEF NetTypeOK, ServerTypeOK
  <1> DEFINE m == Head(up[c])
  <1>3. /\ up[c] # <<>> /\ up' = [up EXCEPT ![c] = Tail(@)] /\ UNCHANGED <<broadcast, outcome>>
        /\ \/ UNCHANGED <<down, downShut>>
           \/ down' = Put(down, downShut, c, <<Close>>) /\ downShut' = downShut \cup {c}
      BY DEF ServerReceives, callVars
  <1>4. up[c] \in Seq(Message) /\ m \in Message /\ \A d \in Sockets : up'[d] = IF d = c THEN Tail(up[c]) ELSE up[d]
      BY <1>2, <1>3, TailType DEF Channel
  <1>5. \A M : Has(up[c], M) <=> m \in M \/ Has(Tail(up[c]), M)
      BY <1>3, <1>4, HasTail
  <1>6. \A d \in Sockets : DownKept(down[d], down'[d], i) /\ EventStays(down[d], down'[d], i)
    <2>1. \A d \in Sockets : /\ DownKept(down[d], Put(down, downShut, c, <<Close>>)[d], i)
                             /\ EventStays(down[d], Put(down, downShut, c, <<Close>>)[d], i)
        BY <1>2, KeptSignals
    <2> QED
        BY <1>3, <2>1, KeptSame
  <1>7. downShut \subseteq downShut'
      BY <1>3
  <1>8. \A d \in Sockets : (Has(up'[d], {Request(i)}) => Has(up[d], {Request(i)})) /\ (d # c => UpKept(up[d], up'[d], i))
      BY <1>4, <1>5, KeptSame
  <1>9. CASE handlers[c] = "pending" /\ inbox' = [inbox EXCEPT ![c] = Append(@, m)] /\ UNCHANGED <<handlers, connSubs, executing>>
    <2>1. ~Has(up[c], {Request(i)})
        BY <1>9 DEF EventParts, BehindSubscription
    <2>2. m \notin {Request(i)}
        BY <1>5, <2>1
    <2>3. inbox[c] \in Seq(Message) /\ \A d \in Sockets : inbox'[d] = IF d = c THEN Append(inbox[c], m) ELSE inbox[d]
        BY <1>2, <1>9 DEF Channel
    <2>4. Has(Append(inbox[c], m), {Request(i)}) => Has(inbox[c], {Request(i)})
        BY <1>4, <2>2, <2>3, HasAppend
    <2>5. \A d \in Sockets : Has(inbox'[d], {Request(i)}) => Has(inbox[d], {Request(i)})
        BY <2>3, <2>4
    <2> HIDE DEF m
    <2> QED
        BY <1>3, <1>6, <1>7, <1>8, <1>9, <2>5, EventKept
  <1>10. CASE handlers[c] = "live" /\ handlers' = [handlers EXCEPT ![c] = "gone"] /\ UNCHANGED <<inbox, connSubs, executing>>
    <2>1. \A d \in Sockets : handlers'[d] = IF d = c THEN "gone" ELSE handlers[d]
        BY <1>1, <1>10 DEF ServerTypeOK
    <2> HIDE DEF m
    <2>2. \A d \in Sockets : \/ UpKept(up[d], up'[d], i)
                             \/ handlers'[d] # "live" /\ (Has(up'[d], {Request(i)}) => Has(up[d], {Request(i)}))
        BY <1>8, <2>1
    <2>3. \A d \in Sockets : handlers'[d] = handlers[d] \/ handlers'[d] = "gone"
        BY <2>1
    <2>4. UNCHANGED <<inbox, connSubs, executing, broadcast, outcome>>
        BY <1>3, <1>10
    <2> QED
        BY <1>6, <1>7, <2>2, <2>3, <2>4, EventKept
  <1>11. CASE handlers[c] = "gone" /\ UNCHANGED <<handlers, inbox, connSubs, executing>>
    <2> HIDE DEF m
    <2> QED
        BY <1>3, <1>6, <1>7, <1>8, <1>11, EventKept
  <1>12. CASE handlers[c] = "live" /\ m # Close /\ Process(c, <<m>>) /\ UNCHANGED <<handlers, inbox>>
    <2>1. UNCHANGED <<down, downShut>>
        BY <1>12 DEF ServerReceives
    <2>2. PICK was \in BOOLEAN : was = (c \in connSubs)
      <3>1. (c \in connSubs) \in BOOLEAN
          OBVIOUS
      <3> QED
          BY <3>1, Zenon
    <2>3. PICK now \in BOOLEAN : now = Subscribed(was, <<m>>)
        BY DEF Subscribed
    <2>4. \A d \in Sockets : d \in connSubs' <=> IF d = c THEN now ELSE d \in connSubs
        BY <1>12, <2>2, <2>3 DEF Process
    <2>5. now <=> (was /\ m # Plain("Unsubscribe")) \/ m = Plain("Subscribe")
        BY <2>3, SubscribedOne
    <2>6. \A d \in Sockets : <<d, i>> \in executing' <=> <<d, i>> \in executing \/ (d = c /\ m = Request(i))
      <3>1. PICK ms \in Seq(Message) : ms = <<m>>
        <4>1. <<m>> \in Seq(Message)
            BY <1>4, SingleType
        <4> QED
            BY <4>1, Zenon
      <3>2. Process(c, ms) /\ (Has(ms, {Request(i)}) <=> m = Request(i))
          BY <1>12, <3>1, HasSingle
      <3> QED
          BY <1>1, <3>2, ProcessEffect
    <2>7. Covered(was, up[c], Request(i)) => /\ Covered(now, Tail(up[c]), Request(i))
                                             /\ m = Request(i) => was /\ ~Has(up[c], {Plain("Unsubscribe")})
      <3>1. Covered(was, up[c], Request(i)) => /\ Covered(Subscribed(was, <<m>>), Tail(up[c]), Request(i))
                                               /\ m = Request(i) => was /\ ~Has(up[c], {Plain("Unsubscribe")})
          BY <1>3, <1>4, CoveredTail
      <3> QED
          BY <2>3, <3>1
    <2> HIDE DEF m
    <2>8. Has(up[c], {Request(i)}) => Covered(was, up[c], Request(i))
        BY <1>12, <2>2 DEF EventParts, BehindSubscription
    <2>9. Has(Tail(up[c]), {Request(i)}) => Covered(now, Tail(up[c]), Request(i))
        BY <1>5, <2>7, <2>8
    <2>10. BehindSubscription(i)'
      <3>1. ASSUME NEW d \in Sockets PROVE /\ ~Has(inbox[d], {Request(i)})
                                           /\ Has(up'[d], {Request(i)}) => handlers[d] = "gone" \/ (handlers[d] = "live" /\ Covered(d \in connSubs', up'[d], Request(i)))
        <4>1. ~Has(inbox[d], {Request(i)})
            BY DEF EventParts, BehindSubscription
        <4>2. CASE d = c
          <5>1. (c \in connSubs') = now
              BY <2>4
          <5> QED
              BY <1>4, <1>12, <2>9, <4>1, <4>2, <5>1
        <4>3. CASE d # c
          <5>1. (d \in connSubs') = (d \in connSubs) /\ up'[d] = up[d]
              BY <1>4, <2>4, <4>3
          <5> QED
              BY <5>1 DEF EventParts, BehindSubscription
        <4> QED
            BY <4>2, <4>3
      <3> QED
          BY <1>12, <3>1 DEF BehindSubscription, Request, About
    <2>11. ASSUME NEW d \in Sockets, <<d, i>> \in executing', handlers[d] = "live", d \notin downShut
           PROVE  IF i \in broadcast THEN Has(down[d], {EventOf(i)})
                                     ELSE d \in connSubs' /\ ~Has(up'[d], {Plain("Unsubscribe")})
      <3>1. CASE <<d, i>> \in executing
        <4>1. IF i \in broadcast THEN Has(down[d], {EventOf(i)}) ELSE d \in connSubs /\ ~Has(up[d], {Plain("Unsubscribe")})
            BY <2>11, <3>1 DEF EventParts, EventPending
        <4> QED
            BY <1>4, <1>5, <2>2, <2>4, <2>5, <4>1
      <3>2. CASE d = c /\ m = Request(i)
        <4>1. Has(up[c], {Request(i)})
            BY <1>5, <3>2
        <4>2. was /\ ~Has(up[c], {Plain("Unsubscribe")})
            BY <2>7, <2>8, <3>2, <4>1
        <4>3. i \notin broadcast
          <5>1. starts[i] = 0
              BY <4>1, AtParts DEF StartInv, Waits
          <5> QED
              BY <5>1 DEF StartInv
        <4> QED
            BY <1>4, <1>5, <2>4, <2>5, <3>2, <4>2, <4>3, SubscriptionKinds
      <3> QED
          BY <2>6, <2>11, <3>1, <3>2
    <2>12. EventPending(i)'
        BY <1>3, <1>12, <2>1, <2>11 DEF EventPending, EventOf, About, Plain
    <2>13. EventFirst(i)'
        BY <1>3, <2>1 DEF EventParts, EventFirst, Answers, EventOf, About
    <2> QED
        BY <1>3, <2>10, <2>12, <2>13 DEF EventParts
  <1> QED
      BY <1>9, <1>10, <1>11, <1>12 DEF ServerReceives

(* The event is sent to the caller, who is in the index.                   *)
LEMMA EventStepBroadcast ==
    ASSUME TypeOK, IndexInv, NEW i \in Ids, OnePlace(i), AnswerInv(i), EventParts(i), NEW x \in executing, Broadcast(x)
    PROVE  EventParts(i)'
  <1>1. NetTypeOK /\ ServerTypeOK /\ ListenerTypeOK
      BY TypeParts
  <1>2. down \in Channel /\ x[1] \in Sockets /\ x[2] \in Ids /\ x = <<x[1], x[2]>>
      BY <1>1 DEF NetTypeOK, ServerTypeOK
  <1>3. /\ UNCHANGED <<up, downShut, inbox, handlers, connSubs, index, executing, outcome>>
        /\ broadcast' = broadcast \cup {x[2]} /\ x[2] \notin broadcast /\ SendTo(index, EventOf(x[2]))
      BY DEF Broadcast, serverVars, callVars, EventOf
  <1>4. EventOf(x[2]) \in Message /\ EventOf(x[2]) \notin Answers(i)
      BY <1>2, MessageTypes, AnswerKinds DEF EventOf
  <1>5. \A d \in Sockets : DownKept(down[d], down'[d], i) /\ EventStays(down[d], down'[d], i)
      BY <1>2, <1>3, <1>4, DownKeptSent
  <1>6. CASE x[2] # i
      BY <1>3, <1>5, <1>6, KeptSame, EventKept
  <1>7. CASE x[2] = i
    <2>1. At("executing", x[1], i)
        BY <1>2, <1>7, AtParts
    <2>2. \A d \in Sockets : (<<d, i>> \in executing => d = x[1]) /\ ~Has(down[d], Answers(i))
        BY <2>1, <1>2, AtParts DEF OnePlace, Places
    <2>3. outcome[i] # "resolved"
        BY <2>1, AtParts DEF AnswerInv, Nowhere
    <2>4. ASSUME NEW d \in Sockets, <<d, i>> \in executing, handlers[d] = "live", d \notin downShut
          PROVE  Has(down'[d], {EventOf(i)})
      <3>1. d \in connSubs
          BY <1>3, <1>7, <2>4 DEF EventParts, EventPending
      <3>2. d \in index
          BY <2>4, <3>1 DEF IndexInv
      <3> QED
          BY <1>2, <1>3, <1>4, <1>7, <2>4, <3>2, DownKeptSent
    <2>5. EventPending(i)'
        BY <1>3, <1>7, <2>4 DEF EventPending, EventOf, About, Plain
    <2>6. \A d \in Sockets : ~Has(down'[d], Answers(i))
        BY <1>5, <2>2 DEF DownKept
    <2>7. EventFirst(i)'
        BY <2>6 DEF EventFirst, Answers, EventOf, About
    <2>8. BehindSubscription(i)'
        BY <1>3 DEF EventParts, BehindSubscription, Request, About
    <2> QED
        BY <1>3, <2>3, <2>5, <2>7, <2>8 DEF EventParts
  <1> QED
      BY <1>6, <1>7

(* The answer is sent after the event.                                     *)
LEMMA EventStepEnds ==
    ASSUME TypeOK, NEW i \in Ids, OnePlace(i), EventParts(i), NEW x \in executing, ActionEnds(x)
    PROVE  EventParts(i)'
  <1>1. NetTypeOK /\ ServerTypeOK
      BY TypeParts
  <1>2. down \in Channel /\ x[1] \in Sockets /\ x[2] \in Ids /\ x = <<x[1], x[2]>>
      BY <1>1 DEF NetTypeOK, ServerTypeOK
  <1>3. UNCHANGED <<up, downShut, inbox, handlers, connSubs, broadcast, outcome>> /\ executing' = executing \ {x}
      BY DEF ActionEnds, callVars, history
  <1>4. PICK m \in {About("Response", x[2]), About("Error", x[2])} : SendTo({x[1]}, m)
      BY DEF ActionEnds
  <1>5. m \in Message /\ (m \in Answers(i) <=> x[2] = i)
      BY <1>2, <1>4, MessageTypes, AnswerKinds
  <1>6. CASE x[2] # i
    <2>1. \A d \in Sockets : DownKept(down[d], down'[d], i) /\ EventStays(down[d], down'[d], i)
        BY <1>2, <1>4, <1>5, <1>6, DownKeptSent
    <2> QED
        BY <1>3, <2>1, KeptSame, EventKept
  <1>7. CASE x[2] = i
    <2>1. At("executing", x[1], i)
        BY <1>2, <1>7, AtParts
    <2>2. \A d \in Sockets : (<<d, i>> \in executing => d = x[1]) /\ ~Has(down[d], Answers(i))
        BY <2>1, <1>2, AtParts DEF OnePlace, Places
    <2>3. \A d \in Sockets : <<d, i>> \notin executing'
        BY <1>2, <1>3, <1>7, <2>2
    <2>4. ASSUME NEW d \in Sockets, i \in broadcast, Has(down'[d], Answers(i)) PROVE Precedes(down'[d], EventOf(i), Answers(i))
      <3>1. d = x[1] /\ handlers[d] = "live" /\ d \notin downShut
        <4>1. Has(down'[d], Answers(i)) => Has(down[d], Answers(i))
                 \/ (d \in {x[1]} /\ handlers[d] = "live" /\ d \notin downShut /\ m \in Answers(i))
            BY <1>2, <1>4, <1>5, HasSent
        <4> QED
            BY <2>2, <2>4, <4>1
      <3>2. Has(down[d], {EventOf(i)})
          BY <1>2, <1>7, <2>4, <3>1 DEF EventParts, EventPending
      <3> QED
          BY <1>2, <1>4, <1>5, <1>7, <2>2, <2>4, <3>2, DownKeptSent
    <2>5. EventFirst(i)'
        BY <1>3, <2>4 DEF EventFirst, Answers, EventOf, About
    <2>6. EventPending(i)'
        BY <2>3 DEF EventPending
    <2>7. BehindSubscription(i)'
        BY <1>3 DEF EventParts, BehindSubscription, Request, About
    <2> QED
        BY <1>3, <2>5, <2>6, <2>7 DEF EventParts
  <1> QED
      BY <1>6, <1>7

LEMMA EventInit == Init => EventInv
  <1> SUFFICES ASSUME Init, NEW i \in Ids, Wants(i) PROVE FALSE
      BY DEF EventInv
  <1> QED
      BY DEF Init, Wants

LEMMA EventStep ==
    ASSUME TypeOK, SocketInv, GreetInv, SubsInv, CallInv, IndexInv, UsedInv, EventInv, [Next]_vars
    PROVE  EventInv'
  <1> SUFFICES ASSUME NEW i \in Ids, Wants(i)' PROVE EventParts(i)'
      BY DEF EventInv
  <1>1. OnePlace(i) /\ StartInv(i) /\ AnswerInv(i)
      BY DEF CallInv
  <1>2. ~disposed /\ ~disposed'
      BY WantsStep
  <1>3. CASE Call /\ i = actionIdCounter
      BY <1>1, <1>3, EventStepCall
  <1>4. CASE Wants(i) /\ ~(Call /\ i = actionIdCounter) /\ ((\E l \in Listeners : On(l) \/ Off(l)) => up' = up)
    <2>1. EventParts(i)
        BY <1>4 DEF EventInv
    <2>2. CASE UNCHANGED vars
        BY <2>1, <2>2, KeptSame, EventKept DEF vars, netVars, serverVars, callVars, history
    <2>3. CASE Application
      <3>1. ~Dispose
          BY <1>2 DEF Dispose
      <3> QED
          BY <1>2, <1>4, <2>1, <2>3, <3>1, EventKeptByClient DEF Application
    <2>4. CASE DialSucceeds \/ DialFails \/ BackoffElapses \/ CallbackReturns
        BY <1>2, <2>1, <2>4, EventKeptByClient
    <2>5. ASSUME NEW c \in Sockets, ClientStep(c) PROVE EventParts(i)'
        BY <1>1, <1>2, <2>1, <2>5, EventKeptByClient, EventStepInit DEF ClientStep
    <2>6. ASSUME NEW c \in Sockets, ServerStep(c) PROVE EventParts(i)'
        BY <1>1, <2>1, <2>6, EventKeptByServer, EventStepReceived DEF ServerStep
    <2>7. ASSUME NEW x \in executing, Broadcast(x) \/ ActionEnds(x) PROVE EventParts(i)'
        BY <1>1, <2>1, <2>7, EventStepBroadcast, EventStepEnds
    <2> QED
        BY <2>2, <2>3, <2>4, <2>5, <2>6, <2>7 DEF Next
  <1> QED
      BY <1>3, <1>4, WantsStep

LEMMA EventsInvariant == Spec => [](TypeOK /\ EventInv)
  <1>1. Init => IndexInv /\ UsedInv /\ EventInv
      BY IndexInit, EventInit
  <1>2. (TypeOK /\ SocketInv /\ RetryInv /\ GreetInv /\ SubsInv) /\ (TypeOK /\ CallInv) /\ (IndexInv /\ UsedInv /\ EventInv)
           /\ [Next]_vars => (IndexInv /\ UsedInv /\ EventInv)'
      BY IndexStep, UsedStep, EventStep
  <1> QED
      BY <1>1, <1>2, ConnectionInvariant, CallsInvariant, PTL DEF Spec

(* When a call resolves, the listeners registered before the call have the *)
(* event its action broadcast: the subscription overtakes no request and   *)
(* the answer no event, through queueing and reconnects, unless the request *)
(* was sent between the opening of the socket and Init.                    *)
THEOREM EventsComeBeforeAnswers == Spec => []EventBeforeAnswer
  <1>1. EventInv => EventBeforeAnswer
    <2> SUFFICES ASSUME EventInv, NEW i \in Ids \ early, ~disposed, outcome[i] = "resolved", i \in broadcast,
                        NEW l \in owed[i] \cap Range(listeners), l \notin heard[i]
                 PROVE  FALSE
        BY DEF EventBeforeAnswer, HeardBeforeAnswer
    <2>1. Wants(i)
        BY DEF Wants
    <2> QED
        BY <2>1 DEF EventInv, EventParts
  <1> QED
      BY <1>1, EventsInvariant, PTL

=============================================================================
