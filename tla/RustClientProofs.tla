-------------------------- MODULE RustClientProofs --------------------------
(***************************************************************************)
(* Proofs about a connection of the Rust client, for any number of calls,  *)
(* events, messages under way and faults.                                  *)
(***************************************************************************)
EXTENDS RustClient, FiniteSetTheorems, TLAPS

-----------------------------------------------------------------------------
(* Where a message is in a sequence.                                       *)

Has(s, m)  == \E k \in 1 .. Len(s) : s[k] = m
Once(s, m) == \A j, k \in 1 .. Len(s) : s[j] = m /\ s[k] = m => j = k

LEMMA EmptyHas ==
    ASSUME NEW m PROVE ~Has(<<>>, m) /\ Once(<<>>, m)
  BY DEF Has, Once

LEMMA AppendHas ==
    ASSUME NEW S, NEW s \in Seq(S), NEW e \in S, NEW m
    PROVE  /\ Has(Append(s, e), m) <=> Has(s, m) \/ e = m
           /\ Once(s, m) /\ ~(e = m /\ Has(s, m)) => Once(Append(s, e), m)
  BY DEF Has, Once

LEMMA TailHas ==
    ASSUME NEW S, NEW s \in Seq(S), s # <<>>, NEW m
    PROVE  /\ Has(Tail(s), m) => Has(s, m)
           /\ Once(s, m) => Once(Tail(s), m)
           /\ Head(s) = m => Has(s, m)
           /\ Head(s) = m /\ Once(s, m) => ~Has(Tail(s), m)
  <1>1. Len(s) \in Nat \ {0} /\ Len(Tail(s)) = Len(s) - 1
      OBVIOUS
  <1>2. \A k \in 1 .. Len(s) - 1 : Tail(s)[k] = s[k + 1] /\ k + 1 \in 1 .. Len(s)
      BY <1>1
  <1>3. Head(s) = s[1] /\ 1 \in 1 .. Len(s)
      BY <1>1
  <1> QED
      BY <1>1, <1>2, <1>3 DEF Has, Once

(* A sequence of three parts has a message once if one of them does.       *)
LEMMA ConcatOnce ==
    ASSUME NEW S, NEW a \in Seq(S), NEW b \in Seq(S), NEW c \in Seq(S), NEW m,
           Once(a, m), Once(b, m), Once(c, m),
           ~(Has(a, m) /\ Has(b, m)), ~(Has(a, m) /\ Has(c, m)), ~(Has(b, m) /\ Has(c, m))
    PROVE  /\ Once(a \o b \o c, m)
           /\ Has(a \o b \o c, m) => Has(a, m) \/ Has(b, m) \/ Has(c, m)
  <1> DEFINE s == a \o b \o c
             A == Len(a)
             B == Len(b)
  <1>1. s \in Seq(S) /\ Len(s) = A + B + Len(c) /\ A \in Nat /\ B \in Nat /\ Len(c) \in Nat
      OBVIOUS
  <1>2. \A k \in 1 .. Len(s) : s[k] =
           IF k <= A THEN a[k] ELSE IF k <= A + B THEN b[k - A] ELSE c[k - A - B]
      OBVIOUS
  <1> HIDE DEF s, A, B
  <1>3. \A k \in 1 .. Len(s) : s[k] = m =>
           \/ k <= A /\ k \in 1 .. Len(a) /\ a[k] = m
           \/ k > A /\ k <= A + B /\ k - A \in 1 .. Len(b) /\ b[k - A] = m
           \/ k > A + B /\ k - A - B \in 1 .. Len(c) /\ c[k - A - B] = m
      BY <1>1, <1>2 DEF A, B
  <1>4. Has(s, m) => Has(a, m) \/ Has(b, m) \/ Has(c, m)
      BY <1>3 DEF Has
  <1>5. ASSUME NEW j \in 1 .. Len(s), NEW k \in 1 .. Len(s), s[j] = m, s[k] = m
        PROVE  j = k
    <2>1. j \in Int /\ k \in Int
        BY <1>1
    <2>2. CASE Has(a, m)
        BY <1>1, <1>3, <1>5, <2>1, <2>2 DEF Has, Once
    <2>3. CASE Has(b, m)
      <3>1. j - A \in 1 .. Len(b) /\ b[j - A] = m /\ k - A \in 1 .. Len(b) /\ b[k - A] = m
          BY <1>3, <1>5, <2>3 DEF Has
      <3>2. j - A = k - A
          BY <3>1 DEF Once
      <3> QED
          BY <1>1, <2>1, <3>2
    <2>4. CASE Has(c, m)
      <3>1. j - A - B \in 1 .. Len(c) /\ c[j - A - B] = m /\ k - A - B \in 1 .. Len(c) /\ c[k - A - B] = m
          BY <1>3, <1>5, <2>4 DEF Has
      <3>2. j - A - B = k - A - B
          BY <3>1 DEF Once
      <3> QED
          BY <1>1, <2>1, <3>2
    <2> QED
        BY <1>4, <1>5, <2>2, <2>3, <2>4 DEF Has
  <1>6. Once(s, m)
      BY <1>5 DEF Once
  <1> QED
      BY <1>4, <1>6 DEF s

(* Counting the places of a message that is in a sequence once at most.    *)
LEMMA OnceCount ==
    ASSUME NEW S, NEW s \in Seq(S), NEW m, Once(s, m)
    PROVE  LET n == Cardinality({k \in 1 .. Len(s) : s[k] = m})
           IN  n \in {0, 1} /\ (n = 1 => Has(s, m))
  <1> DEFINE K == {k \in 1 .. Len(s) : s[k] = m}
  <1>1. (Cardinality(K) = 0) \/ (Cardinality(K) = 1 /\ Has(s, m))
    <2>1. CASE K = {}
        BY <2>1, FS_EmptySet
    <2>2. CASE K # {}
      <3>1. PICK k \in 1 .. Len(s) : s[k] = m
          BY <2>2
      <3>2. K = {k}
          BY <3>1 DEF Once
      <3>3. Cardinality(K) = 1
          BY <3>2, FS_Singleton
      <3> QED
          BY <3>1, <3>3 DEF Has
    <2> QED
        BY <2>1, <2>2
  <1> QED
      BY <1>1

-----------------------------------------------------------------------------
(* What on_open copies out of event_subscriptions is a sequence of events. *)

LEMMA SubscriptionsInOrder ==
    ASSUME NEW S, IsFiniteSet(S)
    PROVE  SetToSeq(S) \in Seq(S)
  <1>1. Cardinality(S) \in Nat /\ ExistsBijection(1 .. Cardinality(S), S)
      BY FS_CardinalityType
  <1>2. PICK f \in [1 .. Cardinality(S) -> S] : IsInjective(f)
      BY <1>1 DEF ExistsBijection, Bijection, Injection
  <1>3. SetToSeq(S) \in [1 .. Cardinality(S) -> S]
      BY <1>2 DEF SetToSeq
  <1> QED
      BY <1>1, <1>3

LEMMA LoopIsNoCall == Loop \notin Calls
  BY DEF Loop, Calls, Call

-----------------------------------------------------------------------------
(* The inductive invariant.  The request of a call is in one place: with   *)
(* its caller in send_msg, in msg_queue, in what on_open has taken out of  *)
(* it, in the channel of the driver task, or with the server.  While       *)
(* on_open waits inside send_msg the message it sends is still the first   *)
(* of todo.                                                                *)
Messages == Calls \union Events

SendTypeOK ==
    /\ queue \in Seq(Messages) /\ todo \in Seq(Messages) /\ out \in Seq(Messages)
    /\ sm \in [Senders -> {"idle", "lock", "sending", "queueing"}]
    /\ ran \in [Calls -> Nat]
    /\ IsFiniteSet(subs) /\ subs \subseteq Events

LoopInv == sm[Loop] # "idle" => todo # <<>> /\ pc \in {"resubscribe", "flush"}

OnePlace(c) ==
    /\ Once(queue, c) /\ Once(todo, c) /\ Once(out, c) /\ ran[c] <= 1
    /\ Has(queue, c) => ~Has(todo, c) /\ ~Has(out, c) /\ ran[c] = 0
    /\ Has(todo, c) => ~Has(out, c) /\ ran[c] = 0
    /\ Has(out, c) => ran[c] = 0
    /\ sm[c] # "idle" \/ call[c] = "idle" =>
          ~Has(queue, c) /\ ~Has(todo, c) /\ ~Has(out, c) /\ ran[c] = 0
    /\ call[c] = "idle" => sm[c] = "idle"

CallInv == call \in [Calls -> {"idle", "open", "answered", "failed"}]

SendInv == SendTypeOK /\ CallInv /\ LoopInv /\ \A c \in Calls : OnePlace(c)

THEOREM SendInvInit == Init => SendInv
  <1> SUFFICES ASSUME Init PROVE SendInv
      OBVIOUS
  <1>1. Loop \in Senders /\ \A c \in Calls : c \in Senders
      BY DEF Senders
  <1>2. SendTypeOK
      BY FS_EmptySet DEF Init, SendTypeOK
  <1>3. \A c \in Calls : OnePlace(c)
      BY <1>1, EmptyHas DEF Init, OnePlace
  <1>4. CallInv /\ LoopInv
      BY <1>1 DEF Init, CallInv, LoopInv
  <1> QED
      BY <1>2, <1>3, <1>4 DEF SendInv

-----------------------------------------------------------------------------
(* Steps that move no request.                                             *)

LEMMA QuietStep ==
    ASSUME SendInv, UNCHANGED <<queue, todo, out, sm, ran, subs>>,
           sm[Loop] = "idle" \/ UNCHANGED pc,
           call' \in [Calls -> {"idle", "open", "answered", "failed"}],
           \A c \in Calls : call'[c] = "idle" => call[c] = "idle"
    PROVE  SendInv'
  <1>1. SendTypeOK' /\ CallInv' /\ LoopInv'
      BY DEF SendInv, SendTypeOK, CallInv, LoopInv
  <1>2. \A c \in Calls : OnePlace(c)'
      BY DEF SendInv, OnePlace
  <1> QED
      BY <1>1, <1>2 DEF SendInv

(* send_msg without its return: the caller goes on to wait for the queue   *)
(* or for room in the channel, or starts.                                  *)
LEMMA SenderWaits ==
    ASSUME SendInv, NEW p \in Senders, sm[p] # "idle",
           NEW v \in {"lock", "sending", "queueing"}, sm' = [sm EXCEPT ![p] = v],
           UNCHANGED <<queue, todo, out, ran, subs, call, pc>>
    PROVE  SendInv'
  <1>1. sm' \in [Senders -> {"idle", "lock", "sending", "queueing"}]
      BY DEF SendInv, SendTypeOK
  <1>2. \A q \in Senders : sm'[q] = "idle" <=> sm[q] = "idle"
      BY DEF SendInv, SendTypeOK
  <1>3. Loop \in Senders /\ \A c \in Calls : c \in Senders
      BY DEF Senders
  <1>4. SendTypeOK' /\ CallInv' /\ LoopInv'
      BY <1>1, <1>2, <1>3 DEF SendInv, SendTypeOK, CallInv, LoopInv
  <1>5. ASSUME NEW c \in Calls PROVE OnePlace(c)'
      BY <1>2, <1>3 DEF SendInv, OnePlace
  <1> QED
      BY <1>4, <1>5 DEF SendInv

(* The message of a sender: its own, or the next of on_open.               *)
LEMMA SenderMessage ==
    ASSUME SendInv, NEW p \in Senders, sm[p] # "idle"
    PROVE  /\ Message(p) \in Messages
           /\ p = Loop => todo # <<>> /\ Message(p) = Head(todo)
           /\ p # Loop => Message(p) = p
  <1>1. p = Loop => todo # <<>> /\ todo \in Seq(Messages)
      BY DEF SendInv, SendTypeOK, LoopInv
  <1>2. p = Loop => Head(todo) \in Messages
      BY <1>1
  <1> QED
      BY <1>1, <1>2 DEF Message, Messages, Senders

(* Where send_msg has put its message when it returns: in the channel of   *)
(* the driver, at the end of msg_queue, or nowhere when it was a           *)
(* subscription.                                                           *)
LEMMA SenderReturns ==
    ASSUME SendInv, NEW p \in Senders, sm[p] # "idle",
           Returns(p), UNCHANGED <<ran, subs, call, pc>>,
           \/ out' = Append(out, Message(p)) /\ queue' = queue
           \/ out' = out /\ queue' = Append(queue, Message(p))
           \/ out' = out /\ queue' = queue /\ Message(p) \in Events
    PROVE  SendInv'
  <1> DEFINE m == Message(p)
  <1>1. m \in Messages
      BY SenderMessage
  <1>2. p = Loop => todo # <<>> /\ m = Head(todo) /\ todo' = Tail(todo)
      BY SenderMessage DEF Returns
  <1>3. p # Loop => m = p /\ todo' = todo
      BY SenderMessage DEF Returns
  <1>4. queue \in Seq(Messages) /\ todo \in Seq(Messages) /\ out \in Seq(Messages)
      BY DEF SendInv, SendTypeOK
  <1>5. sm' = [sm EXCEPT ![p] = "idle"] /\ sm \in [Senders -> {"idle", "lock", "sending", "queueing"}]
      BY DEF SendInv, SendTypeOK, Returns
  <1>6. Loop \in Senders /\ \A c \in Calls : c \in Senders /\ c \notin Events /\ c # Loop
      BY RustClientAssumption, LoopIsNoCall DEF Senders
  <1> HIDE DEF m
  <1>7. SendTypeOK'
    <2>1. Append(out, m) \in Seq(Messages) /\ Append(queue, m) \in Seq(Messages)
        BY <1>1, <1>4
    <2>2. todo # <<>> => Tail(todo) \in Seq(Messages)
        BY <1>4
    <2>3. out' \in Seq(Messages) /\ queue' \in Seq(Messages)
        BY <1>4, <2>1 DEF m
    <2>4. todo' \in Seq(Messages)
        BY <1>2, <1>3, <1>4, <2>2
    <2>5. sm' \in [Senders -> {"idle", "lock", "sending", "queueing"}]
        BY <1>5
    <2> QED
        BY <2>3, <2>4, <2>5 DEF SendInv, SendTypeOK
  <1>8. CallInv'
      BY DEF SendInv, CallInv
  <1>9. LoopInv'
      BY <1>3, <1>5, <1>6 DEF SendInv, LoopInv
  <1>10. ASSUME NEW c \in Calls PROVE OnePlace(c)'
    <2>1. OnePlace(c)
        BY DEF SendInv
    <2>2. /\ Has(Append(out, m), c) <=> Has(out, c) \/ m = c
          /\ Once(out, c) /\ ~(m = c /\ Has(out, c)) => Once(Append(out, m), c)
          /\ Has(Append(queue, m), c) <=> Has(queue, c) \/ m = c
          /\ Once(queue, c) /\ ~(m = c /\ Has(queue, c)) => Once(Append(queue, m), c)
        BY <1>1, <1>4, AppendHas
    <2>3. todo # <<>> => /\ Has(Tail(todo), c) => Has(todo, c)
                         /\ Once(todo, c) => Once(Tail(todo), c)
                         /\ Head(todo) = c => Has(todo, c)
                         /\ Head(todo) = c /\ Once(todo, c) => ~Has(Tail(todo), c)
        BY <1>4, TailHas
    <2>4. \/ out' = Append(out, m) /\ queue' = queue
          \/ out' = out /\ queue' = Append(queue, m)
          \/ out' = out /\ queue' = queue /\ m # c
        BY <1>6 DEF m
    <2>5. sm'[c] = "idle" \/ (sm'[c] = sm[c] /\ c # p)
        BY <1>5, <1>6
    <2>6. CASE m # c
      <3>1. /\ Has(out', c) <=> Has(out, c) /\ Once(out', c)
            /\ Has(queue', c) <=> Has(queue, c)
            /\ Once(queue', c)
        BY <2>1, <2>2, <2>4, <2>6 DEF OnePlace
      <3>2. Has(todo', c) => Has(todo, c)
        BY <1>2, <1>3, <2>3
      <3>3. Once(todo', c)
        BY <1>2, <1>3, <2>1, <2>3 DEF OnePlace
      <3> QED
        BY <2>1, <2>2, <2>4, <2>5, <2>6, <3>1, <3>2, <3>3 DEF OnePlace
    <2>7. CASE m = c
      <3>1. ~Has(todo', c) /\ Once(todo', c) /\ ~Has(queue, c) /\ ~Has(out, c) /\ ran[c] = 0 /\ call[c] # "idle" /\ sm'[c] = "idle"
        <4>1. CASE p = Loop
          <5>1. Has(todo, c)
            BY <1>2, <2>3, <2>7, <4>1
          <5>2. sm[c] = "idle" /\ call[c] # "idle"
            BY <2>1, <5>1 DEF OnePlace
          <5> QED
            BY <1>2, <2>1, <2>3, <2>5, <2>7, <4>1, <5>1, <5>2 DEF OnePlace
        <4>2. CASE p # Loop
          <5>1. p = c
            BY <1>3, <2>7, <4>2
          <5> QED
            BY <1>3, <2>1, <2>5, <4>2, <5>1 DEF OnePlace
        <4> QED
          BY <4>1, <4>2
      <3>2. \/ Has(out', c) /\ ~Has(queue', c)
            \/ ~Has(out', c) /\ Has(queue', c)
        BY <2>2, <2>4, <2>7, <3>1
      <3>3. Once(out', c) /\ Once(queue', c)
        BY <2>1, <2>2, <2>4, <3>1 DEF OnePlace
      <3> QED
        BY <2>1, <3>1, <3>2, <3>3 DEF OnePlace
    <2> QED
        BY <2>6, <2>7
  <1> QED
      BY <1>7, <1>8, <1>9, <1>10 DEF SendInv

LEMMA SenderIsRefused ==
    ASSUME SendInv, NEW p \in Senders, sm[p] # "idle",
           NotSent(p), UNCHANGED <<queue, out, ran, subs, call, pc>>
    PROVE  SendInv'
  <1>1. CASE Ephemeral(p) /\ Returns(p)
      BY <1>1, SenderReturns DEF Ephemeral
  <1>2. CASE sm' = [sm EXCEPT ![p] = "queueing"] /\ UNCHANGED todo
      BY <1>2, SenderWaits
  <1> QED
      BY <1>1, <1>2 DEF NotSent

-----------------------------------------------------------------------------
(* Every step keeps the invariant: the steps of on_open, of send_msg, of   *)
(* the application and of the driver task that move requests.              *)

LEMMA OnOpenTakes ==
    ASSUME SendInv, OpenSubs \/ OpenQueue
    PROVE  SendInv'
  <1>1. /\ sm[Loop] = "idle" /\ UNCHANGED <<sm, out, ran, call, subs>>
        /\ \/ todo' = SetToSeq(subs) /\ queue' = queue
           \/ todo' = queue /\ queue' = <<>>
      BY DEF SendInv, LoopInv, OpenSubs, OpenQueue, conn, app, channel, wire
  <1>2. SetToSeq(subs) \in Seq(subs) /\ subs \subseteq Events
      BY SubscriptionsInOrder DEF SendInv, SendTypeOK
  <1>3. SetToSeq(subs) \in Seq(Messages)
      BY <1>2 DEF Messages
  <1>4. SendTypeOK' /\ CallInv' /\ LoopInv'
    <2>1. queue \in Seq(Messages) /\ <<>> \in Seq(Messages)
        BY DEF SendInv, SendTypeOK
    <2>3. todo' \in Seq(Messages)
        BY <1>1, <1>3, <2>1, Zenon
    <2>4. queue' \in Seq(Messages)
        BY <1>1, <2>1, Zenon
    <2>2. SendTypeOK'
        BY <1>1, <2>3, <2>4 DEF SendInv, SendTypeOK
    <2> QED
        BY <1>1, <2>2 DEF SendInv, CallInv, LoopInv
  <1>5. ASSUME NEW c \in Calls PROVE OnePlace(c)'
    <2>1. OnePlace(c)
        BY DEF SendInv
    <2>2. ~Has(SetToSeq(subs), c) /\ Once(SetToSeq(subs), c)
        BY <1>2, RustClientAssumption DEF Has, Once
    <2> QED
        BY <1>1, <2>1, <2>2, EmptyHas DEF OnePlace
  <1> QED
      BY <1>4, <1>5 DEF SendInv

LEMMA OnOpenGoesOn ==
    ASSUME SendInv, OnOpenSends
    PROVE  SendInv'
  <1>1. sm[Loop] = "idle" /\ UNCHANGED <<queue, todo, out, ran, call, subs>>
      BY DEF OnOpenSends, conn, app, channel, wire
  <1>2. CASE UNCHANGED sm
      BY <1>1, <1>2, QuietStep DEF SendInv, CallInv
  <1>3. CASE todo # <<>> /\ sm' = [sm EXCEPT ![Loop] = "lock"] /\ pc' = pc
    <2>1. Loop \in Senders /\ \A c \in Calls : c \in Senders /\ c # Loop
        BY LoopIsNoCall DEF Senders
    <2>2. SendTypeOK' /\ CallInv'
        BY <1>1, <1>3 DEF SendInv, SendTypeOK, CallInv
    <2>3. LoopInv'
        BY <1>1, <1>3 DEF LoopInv, OnOpenSends
    <2>4. ASSUME NEW c \in Calls PROVE OnePlace(c)'
      <3>1. sm'[c] = sm[c]
          BY <1>3, <2>1 DEF SendInv, SendTypeOK
      <3> QED
          BY <1>1, <3>1 DEF SendInv, OnePlace
    <2> QED
        BY <2>2, <2>3, <2>4 DEF SendInv
  <1> QED
      BY <1>2, <1>3 DEF OnOpenSends

LEMMA CallStarts ==
    ASSUME SendInv, NEW d \in Calls, Action(d)
    PROVE  SendInv'
  <1>1. /\ call[d] = "idle" /\ call' = [call EXCEPT ![d] = "open"] /\ sm' = [sm EXCEPT ![d] = "lock"]
        /\ UNCHANGED <<queue, todo, out, ran, subs, pc>>
      BY DEF Action, loop, channel, wire
  <1>2. /\ Loop \in Senders /\ d # Loop
        /\ \A c \in Calls : c \in Senders
      BY LoopIsNoCall DEF Senders
  <1>3. SendTypeOK' /\ CallInv'
      BY <1>1, <1>2 DEF SendInv, SendTypeOK, CallInv
  <1>4. LoopInv'
      BY <1>1, <1>2 DEF SendInv, SendTypeOK, LoopInv
  <1>5. ASSUME NEW c \in Calls PROVE OnePlace(c)'
    <2>1. OnePlace(c) /\ OnePlace(d)
        BY DEF SendInv
    <2>2. CASE c = d
      <3>1. call'[d] = "open"
          BY <1>1 DEF SendInv, CallInv
      <3> QED
          BY <1>1, <2>1, <2>2, <3>1 DEF OnePlace
    <2>3. CASE c # d
      <3>1. sm'[c] = sm[c] /\ call'[c] = call[c]
          BY <1>1, <1>2, <2>3 DEF SendInv, SendTypeOK, CallInv
      <3> QED
          BY <1>1, <2>1, <3>1 DEF OnePlace
    <2> QED
        BY <2>2, <2>3
  <1> QED
      BY <1>3, <1>4, <1>5 DEF SendInv

LEMMA SubscriptionStarts ==
    ASSUME SendInv, NEW e \in Events, OnEvent(e)
    PROVE  SendInv'
  <1>1. /\ subs' = subs \union {e} /\ sm' = [sm EXCEPT ![e] = "lock"]
        /\ UNCHANGED <<queue, todo, out, ran, call, pc>>
      BY DEF OnEvent, loop, app, channel, wire
  <1>2. /\ Loop \in Senders /\ e \in Senders /\ e # Loop
        /\ \A c \in Calls : c \in Senders /\ c # e
      BY RustClientAssumption DEF Senders
  <1>3. IsFiniteSet(subs') /\ subs' \subseteq Events
      BY <1>1, FS_AddElement DEF SendInv, SendTypeOK
  <1>4. SendTypeOK' /\ CallInv' /\ LoopInv'
      BY <1>1, <1>2, <1>3 DEF SendInv, SendTypeOK, CallInv, LoopInv
  <1>5. ASSUME NEW c \in Calls PROVE OnePlace(c)'
    <2>1. sm'[c] = sm[c]
        BY <1>1, <1>2 DEF SendInv, SendTypeOK
    <2> QED
        BY <1>1, <2>1 DEF SendInv, OnePlace
  <1> QED
      BY <1>4, <1>5 DEF SendInv

LEMMA RequestLeaves ==
    ASSUME SendInv, TaskSends
    PROVE  SendInv'
  <1>1. /\ out # <<>> /\ out' = Tail(out) /\ UNCHANGED <<queue, todo, sm, call, subs, pc>>
        /\ \/ Head(out) \in Calls /\ ran' = [ran EXCEPT ![Head(out)] = @ + 1]
           \/ ran' = ran
      BY DEF TaskSends, ActorReceives, conn, loop, app
  <1>2. out \in Seq(Messages) /\ Tail(out) \in Seq(Messages) /\ ran \in [Calls -> Nat]
      BY <1>1 DEF SendInv, SendTypeOK
  <1>3. ran' \in [Calls -> Nat]
      BY <1>1, <1>2
  <1>4. SendTypeOK' /\ CallInv' /\ LoopInv'
      BY <1>1, <1>2, <1>3 DEF SendInv, SendTypeOK, CallInv, LoopInv
  <1>5. ASSUME NEW c \in Calls PROVE OnePlace(c)'
    <2>1. OnePlace(c)
        BY DEF SendInv
    <2>2. /\ Has(Tail(out), c) => Has(out, c)
          /\ Once(out, c) => Once(Tail(out), c)
          /\ Head(out) = c => Has(out, c)
          /\ Head(out) = c /\ Once(out, c) => ~Has(Tail(out), c)
        BY <1>1, <1>2, TailHas
    <2>3. CASE ran'[c] = ran[c]
        BY <1>1, <2>1, <2>2, <2>3 DEF OnePlace
    <2>4. CASE Head(out) = c /\ ran'[c] = ran[c] + 1
        BY <1>1, <2>1, <2>2, <2>4 DEF OnePlace
    <2>5. ran'[c] = ran[c] \/ (Head(out) = c /\ ran'[c] = ran[c] + 1)
        BY <1>1, <1>2
    <2> QED
        BY <2>3, <2>4, <2>5
  <1> QED
      BY <1>4, <1>5 DEF SendInv

LEMMA ChannelDropped ==
    ASSUME SendInv, TaskEnds
    PROVE  SendInv'
  <1>1. out' = <<>> /\ UNCHANGED <<queue, todo, sm, call, subs, pc, ran>>
      BY DEF TaskEnds, conn, loop, app
  <1>2. SendTypeOK' /\ CallInv' /\ LoopInv'
      BY <1>1 DEF SendInv, SendTypeOK, CallInv, LoopInv
  <1>3. \A c \in Calls : OnePlace(c)'
      BY <1>1, EmptyHas DEF SendInv, OnePlace
  <1> QED
      BY <1>2, <1>3 DEF SendInv

THEOREM SendInvStep == SendInv /\ [Next]_vars => SendInv'
  <1> SUFFICES ASSUME SendInv, [Next]_vars PROVE SendInv'
      OBVIOUS
  <1>1. CASE UNCHANGED <<queue, todo, out, sm, ran, subs, call>> /\ (sm[Loop] = "idle" \/ UNCHANGED pc)
      BY <1>1, QuietStep DEF SendInv, CallInv
  <1>2. CASE UNCHANGED vars
      BY <1>1, <1>2 DEF vars, conn, loop, app, channel, wire
  <1>3. sm[Loop] = "idle" \/ pc \in {"resubscribe", "flush"}
      BY DEF SendInv, LoopInv
  <1>4. CASE LoopStep
    <2>1. CASE OpenSubs \/ OpenQueue
        BY <2>1, OnOpenTakes
    <2>2. CASE OnOpenSends
        BY <2>2, OnOpenGoesOn
    <2>3. CASE LoopStarts \/ DialSucceeds \/ StoreDriver
        BY <1>1, <1>3, <2>3 DEF LoopStarts, DialSucceeds, StoreDriver, conn, app, channel, wire
    <2>4. CASE LoopReceives
      <3>1. UNCHANGED <<queue, todo, out, sm, ran, subs>> /\ sm[Loop] = "idle"
          BY <1>3, <2>4 DEF LoopReceives, wire
      <3>2. call' = call \/ \E c \in Calls : call' = [call EXCEPT ![c] = "answered"]
          BY <2>4 DEF LoopReceives, OnAnswer
      <3>3. /\ call' \in [Calls -> {"idle", "open", "answered", "failed"}]
            /\ \A c \in Calls : call'[c] = "idle" => call[c] = "idle"
          BY <3>2 DEF SendInv, CallInv
      <3> QED
          BY <3>1, <3>3, QuietStep
    <2>5. CASE EventDispatched \/ TaskEndSeen
        BY <1>1, <1>3, <2>5 DEF EventDispatched, TaskEndSeen, conn, app, channel, wire
    <2>6. CASE DestroyDriver
        BY <1>1, <1>3, <2>6 DEF DestroyDriver, app, wire
    <2>7. CASE BackoffEnds \/ LoopStops
        BY <1>1, <1>3, <2>7 DEF BackoffEnds, LoopStops, conn, app, channel, wire
    <2> QED
        BY <1>4, <2>1, <2>2, <2>3, <2>4, <2>5, <2>6, <2>7 DEF LoopStep
  <1>5. ASSUME NEW p \in Senders, SendLocks(p) PROVE SendInv'
    <2>1. sm[p] # "idle" /\ UNCHANGED <<queue, out, ran, subs, call, pc>>
        BY <1>5 DEF SendLocks, conn, app, channel, wire
    <2>2. CASE NotSent(p)
        BY <2>1, <2>2, SenderIsRefused
    <2>3. CASE sm' = [sm EXCEPT ![p] = "sending"] /\ UNCHANGED todo
        BY <2>1, <2>3, SenderWaits
    <2> QED
        BY <1>5, <2>2, <2>3 DEF SendLocks
  <1>6. ASSUME NEW p \in Senders, DriverSends(p) PROVE SendInv'
    <2>1. sm[p] # "idle" /\ UNCHANGED <<queue, ran, subs, call, pc>>
        BY <1>6 DEF DriverSends, conn, app, wire
    <2>2. CASE NotSent(p) /\ UNCHANGED out
        BY <2>1, <2>2, SenderIsRefused
    <2>3. CASE out' = Append(out, Message(p)) /\ Returns(p)
        BY <2>1, <2>3, SenderReturns
    <2> QED
        BY <1>6, <2>2, <2>3 DEF DriverSends
  <1>7. ASSUME NEW p \in Senders, SendQueues(p) PROVE SendInv'
    <2>1. /\ sm[p] # "idle" /\ UNCHANGED <<out, ran, subs, call, pc>>
          /\ Returns(p) /\ queue' = Append(queue, Message(p))
        BY <1>7 DEF SendQueues, app, channel, wire
    <2> QED
        BY <2>1, SenderReturns
  <1>8. ASSUME NEW c \in Calls, ActionFails(c) PROVE SendInv'
    <2>1. UNCHANGED <<queue, todo, out, sm, ran, subs, pc>> /\ call' = [call EXCEPT ![c] = "failed"]
        BY <1>8 DEF ActionFails, conn, loop, channel, wire
    <2>2. /\ call' \in [Calls -> {"idle", "open", "answered", "failed"}]
          /\ \A d \in Calls : call'[d] = "idle" => call[d] = "idle"
        BY <2>1 DEF SendInv, CallInv
    <2> QED
        BY <2>1, <2>2, QuietStep
  <1>9. ASSUME NEW c \in Calls, ActorAnswers(c) PROVE SendInv'
      BY <1>1, <1>9 DEF ActorAnswers, conn, loop, app, channel
  <1>10. CASE DisconnectAborts \/ DisconnectReturned \/ Disconnect
      BY <1>1, <1>10 DEF DisconnectAborts, DisconnectReturned, Disconnect, conn, loop, channel, wire
  <1>11. CASE DisconnectClears
    <2>1. subs' = {} /\ UNCHANGED <<queue, todo, out, sm, ran, call, pc>>
        BY <1>11 DEF DisconnectClears, loop, channel, wire
    <2>2. SendTypeOK' /\ CallInv' /\ LoopInv'
        BY <2>1, FS_EmptySet DEF SendInv, SendTypeOK, CallInv, LoopInv
    <2>3. \A c \in Calls : OnePlace(c)'
        BY <2>1 DEF SendInv, OnePlace
    <2> QED
        BY <2>2, <2>3 DEF SendInv
  <1>12. CASE TaskSends
      BY <1>12, RequestLeaves
  <1>13. CASE TaskEnds
      BY <1>13, ChannelDropped
  <1>14. CASE TaskReads \/ TaskDelivers \/ PostEnds
      BY <1>1, <1>14 DEF TaskReads, TaskDelivers, PostEnds, conn, loop, app, wire
  <1>15. CASE ActorWelcomes \/ Broadcasts \/ LinkFails
      BY <1>1, <1>15 DEF ActorWelcomes, Broadcasts, LinkFails, conn, loop, app, channel
  <1>16. CASE DialFails
      BY <1>1, <1>3, <1>16 DEF DialFails, conn, app, channel, wire
  <1>17. ASSUME NEW c \in Calls, Action(c) PROVE SendInv'
      BY <1>17, CallStarts
  <1>18. ASSUME NEW e \in Events, OnEvent(e) PROVE SendInv'
      BY <1>18, SubscriptionStarts
  <1> QED
      BY <1>2, <1>4, <1>5, <1>6, <1>7, <1>8, <1>9, <1>10, <1>11, <1>12, <1>13, <1>14, <1>15,
         <1>16, <1>17, <1>18 DEF Next, Runs

(* Wherever a reconnect, a refused send or a full channel catches it, the  *)
(* request of a call is in one place of the client, or with the actor.     *)
THEOREM SendInvariant == Spec => []SendInv
  <1> QED
      BY SendInvInit, SendInvStep, PTL DEF Spec

(* ActorHandle::action sends its request once: send_msg, msg_queue, the    *)
(* flush of on_open and the driver's channel never hold it twice, nor once *)
(* more when the actor has it.                                             *)
THEOREM RequestsGoOutOnce == Spec => []RequestsSentOnce
  <1>1. SendInv => RequestsSentOnce
    <2> SUFFICES ASSUME SendInv, NEW c \in Calls
                 PROVE  LET sent == queue \o todo \o out
                        IN  ran[c] + Cardinality({k \in 1 .. Len(sent) : sent[k] = c}) <= 1
        BY DEF RequestsSentOnce
    <2> DEFINE sent == queue \o todo \o out
               n    == Cardinality({k \in 1 .. Len(sent) : sent[k] = c})
    <2>1. queue \in Seq(Messages) /\ todo \in Seq(Messages) /\ out \in Seq(Messages) /\ ran[c] \in Nat
        BY DEF SendInv, SendTypeOK
    <2>2. OnePlace(c)
        BY DEF SendInv
    <2>3. sent \in Seq(Messages)
        BY <2>1
    <2>4. Once(sent, c) /\ (Has(sent, c) => Has(queue, c) \/ Has(todo, c) \/ Has(out, c))
        BY <2>1, <2>2, ConcatOnce DEF OnePlace
    <2> HIDE DEF sent
    <2>5. n \in {0, 1} /\ (n = 1 => Has(sent, c))
        BY <2>3, <2>4, OnceCount
    <2> HIDE DEF n
    <2>6. ran[c] + n <= 1
        BY <2>1, <2>2, <2>4, <2>5 DEF OnePlace
    <2> QED
        BY <2>6 DEF n, sent
  <1> QED
      BY <1>1, SendInvariant, PTL

=============================================================================
