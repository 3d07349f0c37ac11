-------------------------- MODULE ActorConnsProofs --------------------------
(***************************************************************************)
(* Proofs about what keeps an instance awake, for any number of            *)
(* connections, raw requests and starts.                                   *)
(***************************************************************************)
EXTENDS ActorConns, TLAPS

Actors == [up : BOOLEAN, sleepCalled : BOOLEAN, stopCalled : BOOLEAN,
           conns : SUBSET Conns, connected : SUBSET Conns, old : SUBSET Conns,
           raw : SUBSET (Fetches \cup RawSockets), timer : BOOLEAN, starts : Nat]

TypeOK ==
  /\ actor \in Actors
  /\ stored \subseteq Conns /\ registry \subseteq Conns /\ failed \subseteq Conns
  /\ pc \in [Endpoints -> {"idle", "preparing", "connected", "done"}]
  /\ gen \in [Endpoints -> Nat]
  /\ sock \in [Endpoints -> {"none", "open", "closing", "closed"}]

(* Somebody uses connection c, and the actor has not disconnected it.      *)
Using(c) == /\ c \in actor.conns \ failed /\ Current(c)
            /\ pc[c] = "connected" /\ sock[c] = "open"

(* No endpoint refers to an instance that is still to be started.          *)
GenInv == \A e \in Endpoints : gen[e] <= actor.starts

(* Until _stop, a connection in use has the status "connected", and the    *)
(* driver finds its socket.                                                *)
UseInv == ~actor.stopCalled =>
  \A c \in Conns : Using(c) => /\ c \in actor.connected
                               /\ c \in HttpConns \/ c \in registry

(* Until then an armed timer means that nothing is in use.  (_stop takes   *)
(* the status of all connections away, and a removal may arm it again.)    *)
TimerInv == actor.timer /\ ~actor.stopCalled =>
  actor.raw = {} /\ \A c \in Conns : ~Using(c)

AwakeInv == GenInv /\ UseInv /\ TimerInv

-----------------------------------------------------------------------------
(* What the functions on an instance return.                               *)

(* Fields that stay when connections and raw requests come and go. *)
Kept(a, b) == /\ b.up = a.up /\ b.starts = a.starts
              /\ b.sleepCalled = a.sleepCalled /\ b.stopCalled = a.stopCalled

(* The timer is on only where nothing is connected, and never after _sleep. *)
Decided(b) == b.timer => ~b.sleepCalled /\ b.connected = {} /\ b.raw = {}

(* The timer is the only field that #resetSleepTimer changes. *)
LEMMA ResetEffect ==
    ASSUME NEW a \in Actors
    PROVE  LET b == resetSleepTimer(a) IN
           /\ b \in Actors /\ Kept(a, b) /\ Decided(b)
           /\ b.conns = a.conns /\ b.connected = a.connected /\ b.raw = a.raw
  BY DEF resetSleepTimer, canSleep, Actors, Kept, Decided

LEMMA AddEffect ==
    ASSUME NEW a \in Actors, NEW c \in Conns
    PROVE  LET b == addConn(a, c) IN
           /\ b \in Actors /\ Kept(a, b) /\ Decided(b) /\ b.raw = a.raw
           /\ b.conns = a.conns \cup {c} /\ b.connected = a.connected \cup {c}
  <1> DEFINE d == [a EXCEPT !.conns = @ \cup {c}, !.connected = @ \cup {c}]
  <1>1. d \in Actors /\ Kept(a, d) /\ d.raw = a.raw
        /\ d.conns = a.conns \cup {c} /\ d.connected = a.connected \cup {c}
      BY DEF Actors, Kept
  <1> HIDE DEF d
  <1>2. resetSleepTimer(d) \in Actors /\ Kept(a, resetSleepTimer(d))
        /\ Decided(resetSleepTimer(d)) /\ resetSleepTimer(d).raw = a.raw
        /\ resetSleepTimer(d).conns = d.conns
        /\ resetSleepTimer(d).connected = d.connected
      BY <1>1, ResetEffect DEF Kept
  <1> QED
      BY <1>1, <1>2 DEF addConn, d

LEMMA RemoveEffect ==
    ASSUME NEW a \in Actors, NEW c \in Conns
    PROVE  LET b == removeConn(a, c) IN
           /\ b \in Actors /\ Kept(a, b) /\ Decided(b) /\ b.raw = a.raw
           /\ b.conns = a.conns \ {c} /\ b.connected = a.connected \ {c}
  <1> DEFINE d == [a EXCEPT !.conns = @ \ {c}, !.connected = @ \ {c}, !.old = @ \ {c}]
  <1>1. d \in Actors /\ Kept(a, d) /\ d.raw = a.raw
        /\ d.conns = a.conns \ {c} /\ d.connected = a.connected \ {c}
      BY DEF Actors, Kept
  <1> HIDE DEF d
  <1>2. resetSleepTimer(d) \in Actors /\ Kept(a, resetSleepTimer(d))
        /\ Decided(resetSleepTimer(d)) /\ resetSleepTimer(d).raw = a.raw
        /\ resetSleepTimer(d).conns = d.conns
        /\ resetSleepTimer(d).connected = d.connected
      BY <1>1, ResetEffect DEF Kept
  <1> QED
      BY <1>1, <1>2 DEF removeConn, d

LEMMA RawEffect ==
    ASSUME NEW a \in Actors, NEW raw \in SUBSET (Fetches \cup RawSockets)
    PROVE  LET b == resetSleepTimer([a EXCEPT !.raw = raw]) IN
           /\ b \in Actors /\ Kept(a, b) /\ Decided(b) /\ b.raw = raw
           /\ b.conns = a.conns /\ b.connected = a.connected
  <1> DEFINE d == [a EXCEPT !.raw = raw]
  <1>1. d \in Actors /\ Kept(a, d) /\ d.raw = raw
        /\ d.conns = a.conns /\ d.connected = a.connected
      BY DEF Actors, Kept
  <1> HIDE DEF d
  <1>2. resetSleepTimer(d) \in Actors /\ Kept(a, resetSleepTimer(d))
        /\ Decided(resetSleepTimer(d)) /\ resetSleepTimer(d).raw = d.raw
        /\ resetSleepTimer(d).conns = d.conns
        /\ resetSleepTimer(d).connected = d.connected
      BY <1>1, ResetEffect DEF Kept
  <1> QED
      BY <1>1, <1>2 DEF d

(* The check leaves exactly the connections found alive connected.  It arms *)
(* the timer only if no connection that was connected is alive.             *)
LEMMA CheckedEffect ==
    ASSUME NEW a \in Actors, NEW unvisited \in SUBSET Conns
    PROVE  LET b == Checked(a, unvisited) IN
           /\ b \in Actors /\ Kept(a, b) /\ b.raw = a.raw /\ b.conns \subseteq a.conns
           /\ b.connected = {c \in a.conns : Alive(c)}
           /\ b.timer => \/ a.timer
                         \/ /\ ~a.sleepCalled /\ a.raw = {}
                            /\ \A c \in a.conns \cap a.connected : ~Alive(c)
  <1> DEFINE alive == {c \in a.conns : Alive(c)}
             removed == (a.conns \ alive) \cap a.old
             seen == (alive \ unvisited) \cup ((a.connected \cap unvisited) \ removed)
             before == [a EXCEPT !.conns = @ \ removed, !.old = @ \ (alive \cup removed),
                          !.connected = (alive \ unvisited) \cup ((@ \cap unvisited) \ removed)]
             then == IF removed = {} THEN before ELSE resetSleepTimer(before)
  <1>1. a.conns \subseteq Conns /\ a.connected \subseteq Conns /\ a.old \subseteq Conns
      BY DEF Actors
  <1>2. alive \subseteq Conns /\ seen \subseteq Conns
        /\ \A c \in alive \cap a.connected : c \in seen
      BY <1>1
  <1>3. before \in Actors /\ Kept(a, before) /\ before.raw = a.raw
        /\ before.conns \subseteq a.conns /\ before.connected = seen
        /\ before.timer = a.timer
      BY <1>1, <1>2 DEF Actors, Kept
  <1> HIDE DEF before
  <1>4. /\ then \in Actors /\ Kept(a, then) /\ then.raw = a.raw
        /\ then.conns \subseteq a.conns
        /\ then.timer => a.timer \/ (~a.sleepCalled /\ a.raw = {} /\ seen = {})
    <2>1. CASE removed = {}
        BY <2>1, <1>3
    <2>2. CASE removed # {}
      <3>1. then = resetSleepTimer(before)
          BY <2>2
      <3> HIDE DEF then, removed, seen
      <3>2. /\ then \in Actors /\ Kept(before, then) /\ then.raw = before.raw
            /\ then.conns = before.conns
            /\ then.timer => ~before.sleepCalled /\ before.connected = {} /\ before.raw = {}
          BY <1>3, <3>1, ResetEffect DEF Kept, Decided
      <3> QED
          BY <1>3, <3>2 DEF Kept
    <2> QED
        BY <2>1, <2>2
  <1>5. Checked(a, unvisited) = [then EXCEPT !.connected = alive]
      BY DEF Checked, before
  <1> HIDE DEF then, seen
  <1>6. PICK b : b = Checked(a, unvisited)
      OBVIOUS
  <1>7. /\ b \in Actors /\ Kept(then, b) /\ b.raw = then.raw
        /\ b.conns = then.conns /\ b.connected = alive /\ b.timer = then.timer
      BY <1>2, <1>4, <1>5, <1>6 DEF Actors, Kept
  <1>8. b.timer => \/ a.timer
                   \/ /\ ~a.sleepCalled /\ a.raw = {}
                      /\ \A c \in a.conns \cap a.connected : ~Alive(c)
      BY <1>2, <1>4, <1>7
  <1> HIDE DEF alive
  <1> QED
      BY <1>4, <1>6, <1>7, <1>8 DEF Kept, alive

(* A start takes the connections from storage. *)
Restarted(n, conns, old) ==
  [Down EXCEPT !.up = TRUE, !.starts = n, !.conns = conns, !.connected = conns,
               !.old = old]

LEMMA RestartEffect ==
    ASSUME NEW n \in Nat, NEW conns \in SUBSET Conns, NEW old \in SUBSET Conns
    PROVE  LET b == Restarted(n, conns, old) IN
           b \in Actors /\ b.starts = n /\ ~b.stopCalled
  <1>1. Down \in Actors /\ ~Down.stopCalled
      BY DEF Down, Actors
  <1>2. ASSUME NEW a \in Actors, ~a.stopCalled
        PROVE  LET b == [a EXCEPT !.up = TRUE, !.starts = n, !.conns = conns,
                           !.connected = conns, !.old = old] IN
               b \in Actors /\ b.starts = n /\ ~b.stopCalled
      BY <1>2 DEF Actors
  <1> QED
      BY <1>1, <1>2 DEF Restarted

-----------------------------------------------------------------------------
(* The end of an endpoint keeps the types of its progress. *)
LEMMA DoneType ==
    ASSUME TypeOK, NEW e \in Endpoints, Done(e)
    PROVE  /\ pc' \in [Endpoints -> {"idle", "preparing", "connected", "done"}]
           /\ gen' \in [Endpoints -> Nat]
           /\ failed' \subseteq Conns
  BY DEF TypeOK, Done

LEMMA RemoveByType ==
    ASSUME TypeOK, NEW c \in Conns, RemoveBy(c)
    PROVE  actor' \in Actors
  BY RemoveEffect DEF TypeOK, RemoveBy

LEMMA TypeStep == TypeOK /\ [Next]_vars => TypeOK'
  <1> SUFFICES ASSUME TypeOK, [Next]_vars PROVE TypeOK'
      OBVIOUS
  <1>0. Conns \subseteq Endpoints /\ Fetches \subseteq Endpoints
        /\ RawSockets \subseteq Endpoints /\ WsConns \subseteq Conns
        /\ SseConns \subseteq Conns /\ HttpConns \subseteq Conns
      BY DEF Conns, Endpoints
  <1>00. actor.starts \in Nat /\ actor.conns \subseteq Conns
         /\ actor.connected \subseteq Conns /\ actor.old \subseteq Conns
         /\ actor.raw \subseteq Fetches \cup RawSockets
      BY DEF TypeOK, Actors
  <1>1. ASSUME NEW c \in Conns, Open(c) PROVE TypeOK'
      BY <1>0, <1>00, <1>1 DEF Open, TypeOK
  <1>2. ASSUME NEW c \in Conns, prepareConnFails(c) PROVE TypeOK'
      BY <1>0, <1>2, DoneType DEF prepareConnFails, TypeOK
  <1>3. ASSUME NEW c \in Conns, createConn(c) PROVE TypeOK'
      BY <1>0, <1>3, AddEffect DEF createConn, Registers, TypeOK
  <1>4. ASSUME NEW c \in Conns, createConnRefused(c) PROVE TypeOK'
      BY <1>0, <1>4, DoneType DEF createConnRefused, Registers, TypeOK
  <1>5. ASSUME NEW c \in Conns, disconnect(c) PROVE TypeOK'
    <2>1. actor' \in Actors
        BY <1>5 DEF disconnect, TypeOK, Actors
    <2>2. sock' \in [Endpoints -> {"none", "open", "closing", "closed"}]
        BY <1>0, <1>5 DEF disconnect, Disconnected, TypeOK
    <2> QED
        BY <1>5, <2>1, <2>2 DEF disconnect, TypeOK
  <1>6. ASSUME NEW c \in Conns, SocketCloses(c) PROVE TypeOK'
      BY <1>0, <1>6, DoneType, RemoveByType DEF SocketCloses, TypeOK
  <1>7. ASSUME NEW c \in Conns, WsClosed(c) PROVE TypeOK'
      BY <1>0, <1>7, DoneType, RemoveByType DEF WsClosed, TypeOK
  <1>8. ASSUME NEW c \in Conns, ActionEnds(c) PROVE TypeOK'
      BY <1>0, <1>8, DoneType, RemoveByType DEF ActionEnds, TypeOK
  <1>9. ASSUME NEW c \in Conns, LastSeenAges(c) PROVE TypeOK'
    <2>1. actor' \in Actors
        BY <1>9 DEF LastSeenAges, TypeOK, Actors
    <2> QED
        BY <1>9, <2>1 DEF LastSeenAges, TypeOK
  <1>10. ASSUME NEW e \in Endpoints, handleFetch(e) \/ handleWebSocket(e) PROVE TypeOK'
    <2>1. e \in Fetches \cup RawSockets /\ handleRaw(e)
        BY <1>10 DEF handleFetch, handleWebSocket
    <2>2. actor.raw \cup {e} \in SUBSET (Fetches \cup RawSockets)
        BY <1>00, <2>1
    <2>3. actor' \in Actors
        BY <2>1, <2>2, RawEffect DEF handleRaw, TypeOK
    <2> QED
        BY <1>00, <2>1, <2>3 DEF handleRaw, TypeOK
  <1>11. ASSUME NEW e \in Endpoints, RawEnds(e) PROVE TypeOK'
    <2>1. actor.raw \ {e} \in SUBSET (Fetches \cup RawSockets)
        BY <1>00
    <2>2. actor' \in Actors
        BY <1>11, <2>1, RawEffect DEF RawEnds, TypeOK
    <2> QED
        BY <1>11, <2>2, DoneType DEF RawEnds, TypeOK
  <1>12. CASE SleepTimerFires
    <2>1. actor' \in Actors
        BY <1>12 DEF SleepTimerFires, TypeOK, Actors
    <2> QED
        BY <1>12, <2>1 DEF SleepTimerFires, TypeOK
  <1>13. CASE sleep
    <2>1. actor' \in Actors
        BY <1>13 DEF sleep, TypeOK, Actors
    <2> QED
        BY <1>13, <2>1 DEF sleep, TypeOK
  <1>14. CASE checkConnectionsLiveness
      BY <1>00, <1>14, CheckedEffect DEF checkConnectionsLiveness, TypeOK
  <1>15. CASE stop
    <2>1. actor' \in Actors
        BY <1>15 DEF stop, TypeOK, Actors
    <2>2. sock' \in [Endpoints -> {"none", "open", "closing", "closed"}]
        BY <1>15 DEF stop, Disconnected, TypeOK
    <2> QED
        BY <1>15, <2>1, <2>2 DEF stop, TypeOK
  <1>19. CASE StopClearsTimer
    <2>1. actor' \in Actors
        BY <1>19 DEF StopClearsTimer, TypeOK, Actors
    <2> QED
        BY <1>19, <2>1 DEF StopClearsTimer, TypeOK
  <1>16. CASE StopEnds \/ Crash
    <2>1. actor' = [Down EXCEPT !.starts = actor.starts] /\ stored' \subseteq Conns
          /\ registry' = {}
        BY <1>00, <1>16 DEF StopEnds, Crash, SomeSave, TypeOK
    <2>2. actor' \in Actors
        BY <1>00, <2>1 DEF Down, Actors
    <2> QED
        BY <1>16, <2>1, <2>2 DEF StopEnds, Crash, TypeOK
  <1>17. CASE start
    <2>1. PICK old \in SUBSET (stored \ HttpConns), unvisited \in SUBSET stored :
            actor' = Checked(resetSleepTimer(Restarted(actor.starts + 1, stored, old)), unvisited)
        BY <1>17 DEF start, Restarted
    <2>2. actor.starts + 1 \in Nat /\ stored \in SUBSET Conns /\ old \in SUBSET Conns
          /\ unvisited \in SUBSET Conns
        BY <1>00 DEF TypeOK
    <2>3. resetSleepTimer(Restarted(actor.starts + 1, stored, old)) \in Actors
        BY <2>2, RestartEffect, ResetEffect
    <2>4. actor' \in Actors
        BY <2>1, <2>2, <2>3, CheckedEffect
    <2> QED
        BY <1>17, <2>4 DEF start, TypeOK
  <1>18. CASE UNCHANGED vars
      BY <1>18 DEF vars, TypeOK
  <1> QED
      BY <1>1, <1>2, <1>3, <1>4, <1>5, <1>6, <1>7, <1>8, <1>9, <1>10, <1>11, <1>12,
         <1>13, <1>14, <1>15, <1>16, <1>17, <1>18, <1>19 DEF Next

-----------------------------------------------------------------------------
(* Steps of one instance: it suffices that the connections still in use    *)
(* keep their status and their socket, or are new with both, and that the  *)
(* timer is armed only where nothing in use has a status.                  *)
LEMMA StillAwake ==
    ASSUME TypeOK, TypeOK', AwakeInv, Kept(actor, actor'),
           \A e \in Endpoints : gen'[e] \in {gen[e], 0, actor.starts},
           \A c \in Conns : Using(c)' =>
             \/ /\ Using(c)
                /\ ~actor.stopCalled /\ c \in actor.connected => c \in actor'.connected
                /\ c \in registry => c \in registry'
             \/ /\ c \in actor'.connected /\ (c \in HttpConns \/ c \in registry')
                /\ ~actor'.timer,
           actor'.timer /\ ~actor.stopCalled =>
             /\ actor'.raw = {}
             /\ actor.timer \/ /\ ~actor.sleepCalled
                               /\ \A c \in Conns : Using(c)' => c \notin actor'.connected
    PROVE  AwakeInv'
  <1>0. actor.starts \in Nat /\ gen \in [Endpoints -> Nat]
      BY DEF TypeOK, Actors
  <1>1. GenInv'
    <2> SUFFICES ASSUME NEW e \in Endpoints PROVE gen'[e] <= actor'.starts
        BY DEF GenInv
    <2>1. gen'[e] \in {gen[e], 0, actor.starts} /\ actor'.starts = actor.starts
        BY DEF Kept
    <2> QED
        BY <1>0, <2>1 DEF AwakeInv, GenInv
  <1>3. UseInv'
    <2> SUFFICES ASSUME ~actor'.stopCalled, NEW c \in Conns, Using(c)'
                 PROVE  /\ c \in actor'.connected
                        /\ c \in HttpConns \/ c \in registry'
        BY DEF UseInv
    <2>1. ~actor.stopCalled
        BY DEF Kept
    <2> QED
        BY <2>1 DEF AwakeInv, UseInv
  <1>4. TimerInv'
    <2> SUFFICES ASSUME actor'.timer, ~actor'.stopCalled
                 PROVE  actor'.raw = {} /\ \A c \in Conns : ~Using(c)'
        BY DEF TimerInv
    <2>0. ~actor.stopCalled
        BY DEF Kept
    <2>1. CASE actor.timer
        BY <2>0, <2>1 DEF AwakeInv, TimerInv
    <2>2. CASE ~actor.timer
      <3>1. ~actor.sleepCalled /\ \A c \in Conns : Using(c)' => c \notin actor'.connected
          BY <2>0, <2>2
      <3> QED
          BY <1>3, <2>0, <2>2, <3>1 DEF UseInv
    <2> QED
        BY <2>1, <2>2
  <1> QED
      BY <1>1, <1>3, <1>4 DEF AwakeInv

(* A connection taken out of the instance is in use no longer. *)
LEMMA RemovalStaysAwake ==
    ASSUME TypeOK, TypeOK', AwakeInv, NEW c \in Conns, RemoveBy(c), Done(c),
           registry' \in {registry, registry \ {c}},
           \A d \in Conns : sock'[d] = "open" => sock[d] = "open"
    PROVE  AwakeInv'
  <1>1. /\ actor' \in Actors /\ Kept(actor, actor') /\ actor'.raw = actor.raw
        /\ actor'.timer => Decided(actor') \/ actor'.timer = actor.timer
        /\ \A d \in Conns \ {c} : /\ d \in actor'.conns <=> d \in actor.conns
                                  /\ d \in actor'.connected <=> d \in actor.connected
      BY RemoveEffect DEF RemoveBy, TypeOK, Kept
  <1>2. /\ pc'[c] = "done"
        /\ \A e \in Endpoints : gen'[e] \in {gen[e], 0}
        /\ \A d \in Conns \ {c} : pc'[d] = pc[d] /\ gen'[d] = gen[d] /\ (d \in failed' <=> d \in failed)
      BY DEF Done, TypeOK, Endpoints
  <1>3. ASSUME NEW d \in Conns, Using(d)'
        PROVE  /\ Using(d) /\ d # c
               /\ d \in actor.connected => d \in actor'.connected
               /\ d \in registry => d \in registry'
      BY <1>1, <1>2, <1>3 DEF Using, Current, Kept
  <1>4. actor'.timer /\ ~actor.stopCalled =>
             /\ actor'.raw = {}
             /\ actor.timer \/ /\ ~actor.sleepCalled
                               /\ \A d \in Conns : Using(d)' => d \notin actor'.connected
      BY <1>1 DEF Decided, Kept, AwakeInv, TimerInv
  <1> QED
      BY <1>1, <1>2, <1>3, <1>4, StillAwake

LEMMA AwakeStep == TypeOK /\ TypeOK' /\ AwakeInv /\ [Next]_vars => AwakeInv'
  <1> SUFFICES ASSUME TypeOK, TypeOK', AwakeInv, [Next]_vars PROVE AwakeInv'
      OBVIOUS
  <1>0. Conns \subseteq Endpoints
      BY DEF Endpoints
  <1>1. ASSUME NEW c \in Conns, Open(c) PROVE AwakeInv'
    <2>1. /\ actor' = actor /\ registry' = registry /\ failed' = failed
          /\ pc'[c] = "preparing" /\ \A e \in Endpoints : gen'[e] \in {gen[e], actor.starts}
          /\ \A d \in Conns \ {c} : pc'[d] = pc[d] /\ gen'[d] = gen[d] /\ sock'[d] = sock[d]
        BY <1>0, <1>1 DEF Open, TypeOK
    <2>2. \A d \in Conns : Using(d)' => Using(d)
        BY <2>1 DEF Using, Current
    <2> QED
        BY <2>1, <2>2, StillAwake DEF Kept, AwakeInv, TimerInv
  <1>2. ASSUME NEW c \in Conns, prepareConnFails(c) \/ createConnRefused(c) PROVE AwakeInv'
    <2>1. /\ actor' = actor /\ registry \subseteq registry'
          /\ pc'[c] = "done" /\ \A e \in Endpoints : gen'[e] \in {gen[e], 0}
          /\ \A d \in Conns \ {c} : /\ pc'[d] = pc[d] /\ gen'[d] = gen[d] /\ sock'[d] = sock[d]
                                    /\ d \in failed' <=> d \in failed
        BY <1>0, <1>2 DEF prepareConnFails, createConnRefused, Done, Registers, TypeOK
    <2>2. ASSUME NEW d \in Conns, Using(d)' PROVE Using(d)
      <3>1. d # c /\ d \notin failed'
          BY <2>1, <2>2 DEF Using
      <3>2. d \notin failed /\ pc'[d] = pc[d] /\ gen'[d] = gen[d] /\ sock'[d] = sock[d]
          BY <2>1, <3>1
      <3> QED
          BY <2>1, <2>2, <3>2 DEF Using, Current
    <2> QED
        BY <2>1, <2>2, StillAwake DEF Kept, AwakeInv, TimerInv
  <1>3. ASSUME NEW c \in Conns, createConn(c) PROVE AwakeInv'
    <2>1. /\ Kept(actor, actor') /\ Decided(actor') /\ actor'.raw = actor.raw
          /\ actor'.conns = actor.conns \cup {c}
          /\ actor'.connected = actor.connected \cup {c}
        BY <1>3, AddEffect DEF createConn, TypeOK
    <2>2. /\ registry \subseteq registry' /\ (c \in HttpConns \/ c \in registry')
          /\ gen' = gen /\ sock' = sock /\ failed' = failed
          /\ \A d \in Conns \ {c} : pc'[d] = pc[d]
        BY <1>0, <1>3 DEF createConn, Registers, TypeOK
    <2>3. ~actor'.timer
        BY <2>1 DEF Decided
    <2>4. ASSUME NEW d \in Conns, Using(d)', d # c PROVE Using(d)
        BY <2>1, <2>2, <2>4 DEF Using, Current, Kept
    <2> QED
        BY <2>1, <2>2, <2>3, <2>4, StillAwake
  <1>4. ASSUME NEW c \in Conns, disconnect(c) PROVE AwakeInv'
    <2>1. /\ Kept(actor, actor') /\ actor'.raw = actor.raw /\ actor'.timer = actor.timer
          /\ actor'.conns = actor.conns /\ actor'.connected = actor.connected \ {c}
        BY <1>4 DEF disconnect, TypeOK, Actors, Kept
    <2>2. /\ registry' = registry /\ gen' = gen /\ pc' = pc /\ failed' = failed \cup {c}
          /\ \A d \in Conns \ {c} : sock'[d] = sock[d]
        BY <1>0, <1>4 DEF disconnect, TypeOK
    <2>3. \A d \in Conns : Using(d)' => Using(d) /\ d # c
        BY <2>1, <2>2 DEF Using, Current, Kept
    <2> QED
        BY <2>1, <2>2, <2>3, StillAwake DEF AwakeInv, TimerInv
  <1>5. ASSUME NEW c \in Conns, SocketCloses(c) PROVE AwakeInv'
    <2>1. /\ \A d \in Conns : sock'[d] = "open" => sock[d] = "open"
        BY <1>0, <1>5 DEF SocketCloses, TypeOK
    <2>2. CASE RemoveBy(c) /\ Done(c) /\ registry' = registry \ {c}
        BY <2>1, <2>2, RemovalStaysAwake
    <2>3. CASE UNCHANGED <<actor, registry, pc, gen, failed>>
      <3>1. \A d \in Conns : Using(d)' => Using(d)
          BY <2>1, <2>3 DEF Using, Current
      <3> QED
          BY <2>3, <3>1, StillAwake DEF Kept, AwakeInv, TimerInv
    <2> QED
        BY <1>5, <2>2, <2>3 DEF SocketCloses
  <1>6. ASSUME NEW c \in Conns, WsClosed(c) \/ ActionEnds(c) PROVE AwakeInv'
    <2>1. \A d \in Conns : sock'[d] = "open" => sock[d] = "open"
        BY <1>0, <1>6 DEF WsClosed, ActionEnds, TypeOK
    <2> QED
        BY <1>6, <2>1, RemovalStaysAwake DEF WsClosed, ActionEnds
  <1>7. ASSUME NEW c \in Conns, LastSeenAges(c) PROVE AwakeInv'
    <2>1. /\ Kept(actor, actor') /\ actor'.raw = actor.raw /\ actor'.timer = actor.timer
          /\ actor'.conns = actor.conns /\ actor'.connected = actor.connected
          /\ UNCHANGED <<registry, pc, gen, sock, failed>>
        BY <1>7 DEF LastSeenAges, TypeOK, Actors, Kept
    <2>2. \A d \in Conns : Using(d)' => Using(d)
        BY <2>1 DEF Using, Current, Kept
    <2> QED
        BY <2>1, <2>2, StillAwake DEF AwakeInv, TimerInv
  <1>8. ASSUME NEW e \in Endpoints, handleFetch(e) \/ handleWebSocket(e) PROVE AwakeInv'
    <2>1. /\ handleRaw(e) /\ actor.raw \cup {e} \in SUBSET (Fetches \cup RawSockets)
        BY <1>8 DEF handleFetch, handleWebSocket, TypeOK, Actors
    <2>2. /\ Kept(actor, actor') /\ Decided(actor') /\ e \in actor'.raw
          /\ actor'.conns = actor.conns /\ actor'.connected = actor.connected
        BY <2>1, RawEffect DEF handleRaw, TypeOK
    <2>3. /\ ~actor'.timer /\ UNCHANGED <<registry, sock, failed>>
          /\ \A f \in Endpoints : gen'[f] \in {gen[f], actor.starts}
          /\ \A d \in Conns : pc'[d] = pc[d] /\ gen'[d] = gen[d]
        BY <1>0, <2>1, <2>2, ConnsAssumption DEF Decided, handleRaw, TypeOK
    <2>4. ASSUME NEW d \in Conns, Using(d)' PROVE Using(d)
        BY <2>2, <2>3, <2>4 DEF Using, Current, Kept
    <2> QED
        BY <2>2, <2>3, <2>4, StillAwake
  <1>9. ASSUME NEW e \in Endpoints, RawEnds(e) PROVE AwakeInv'
    <2>1. /\ Kept(actor, actor') /\ actor'.raw \subseteq actor.raw
          /\ actor'.timer => Decided(actor') \/ actor'.timer = actor.timer
          /\ actor'.conns = actor.conns /\ actor'.connected = actor.connected
      <3>1. actor.raw \ {e} \in SUBSET (Fetches \cup RawSockets)
          BY DEF TypeOK, Actors
      <3> QED
          BY <1>9, <3>1, RawEffect DEF RawEnds, TypeOK, Kept
    <2>2. /\ e \notin Conns /\ UNCHANGED <<registry, sock>>
          /\ \A f \in Endpoints : gen'[f] \in {gen[f], 0}
          /\ \A d \in Conns : pc'[d] = pc[d] /\ gen'[d] = gen[d] /\ (d \in failed' <=> d \in failed)
        BY <1>0, <1>9, ConnsAssumption DEF RawEnds, Done, TypeOK
    <2>3. ASSUME NEW d \in Conns, Using(d)' PROVE Using(d)
        BY <2>1, <2>2, <2>3 DEF Using, Current, Kept
    <2>4. actor'.timer /\ ~actor.stopCalled =>
             /\ actor'.raw = {}
             /\ actor.timer \/ /\ ~actor.sleepCalled
                               /\ \A d \in Conns : Using(d)' => d \notin actor'.connected
        BY <2>1 DEF Decided, Kept, AwakeInv, TimerInv
    <2> QED
        BY <2>1, <2>2, <2>3, <2>4, StillAwake
  <1>10. CASE SleepTimerFires \/ sleep
    <2>1. /\ actor'.timer => actor.timer
          /\ actor'.up = actor.up /\ actor'.starts = actor.starts /\ actor'.raw = actor.raw
          /\ actor'.conns = actor.conns /\ actor'.connected = actor.connected
          /\ actor'.stopCalled = actor.stopCalled
      <3>1. CASE SleepTimerFires
          BY <3>1 DEF SleepTimerFires, TypeOK, Actors
      <3>2. CASE sleep
          BY <3>2 DEF sleep, TypeOK, Actors
      <3> QED
          BY <1>10, <3>1, <3>2
    <2>2. actor'.sleepCalled /\ UNCHANGED <<registry, pc, gen, sock, failed>>
        BY <1>10 DEF SleepTimerFires, sleep, TypeOK, Actors
    <2>3. \A d \in Conns : Using(d)' <=> Using(d)
        BY <2>1, <2>2 DEF Using, Current
    <2>4. GenInv'
        BY <2>1, <2>2 DEF AwakeInv, GenInv
    <2>5. UseInv' /\ TimerInv'
        BY <2>1, <2>2, <2>3 DEF AwakeInv, UseInv, TimerInv
    <2> QED
        BY <2>4, <2>5 DEF AwakeInv
  <1>11. CASE checkConnectionsLiveness
    <2>1. PICK unvisited \in SUBSET actor.conns : actor' = Checked(actor, unvisited)
        BY <1>11 DEF checkConnectionsLiveness
    <2>2. unvisited \in SUBSET Conns /\ actor \in Actors
        BY DEF TypeOK, Actors
    <2>3. /\ Kept(actor, actor') /\ actor'.raw = actor.raw /\ actor'.conns \subseteq actor.conns
          /\ actor'.connected = {c \in actor.conns : Alive(c)}
          /\ actor'.timer => \/ actor.timer
                             \/ /\ ~actor.sleepCalled /\ actor.raw = {}
                                /\ \A c \in actor.conns \cap actor.connected : ~Alive(c)
        BY <2>1, <2>2, CheckedEffect
    <2>4. UNCHANGED <<registry, pc, gen, sock, failed>>
        BY <1>11 DEF checkConnectionsLiveness
    <2>5. ASSUME NEW d \in Conns, Using(d)' PROVE Using(d)
        BY <2>3, <2>4, <2>5 DEF Using, Current, Kept
    <2>6. ASSUME NEW d \in Conns, Using(d), ~actor.stopCalled
          PROVE  d \in actor.conns \cap actor.connected /\ Alive(d)
        BY <2>6 DEF AwakeInv, UseInv, Using, Alive
    <2>7. actor'.timer /\ ~actor.stopCalled =>
             /\ actor'.raw = {}
             /\ actor.timer \/ /\ ~actor.sleepCalled
                               /\ \A d \in Conns : Using(d)' => d \notin actor'.connected
      <3> SUFFICES ASSUME actor'.timer, ~actor.stopCalled, ~actor.timer
                   PROVE  /\ actor'.raw = {} /\ ~actor.sleepCalled
                          /\ \A d \in Conns : ~Using(d)'
          BY <2>3 DEF AwakeInv, TimerInv
      <3> QED
          BY <2>3, <2>5, <2>6
    <2>8. ASSUME NEW d \in Conns, Using(d)', ~actor.stopCalled PROVE d \in actor'.connected
        BY <2>3, <2>5, <2>6, <2>8
    <2> QED
        BY <2>3, <2>4, <2>5, <2>7, <2>8, StillAwake
  <1>16. CASE StopClearsTimer
    <2>1. /\ actor'.stopCalled
          /\ actor'.starts = actor.starts /\ gen' = gen
        BY <1>16 DEF StopClearsTimer, TypeOK, Actors
    <2> QED
        BY <2>1 DEF AwakeInv, GenInv, UseInv, TimerInv
  <1>12. CASE stop
    <2>1. /\ actor'.stopCalled
          /\ actor'.starts = actor.starts /\ gen' = gen
        BY <1>12 DEF stop, TypeOK, Actors
    <2> QED
        BY <2>1 DEF AwakeInv, GenInv, UseInv, TimerInv
  <1>13. CASE StopEnds \/ Crash
    <2>1. /\ actor' = [Down EXCEPT !.starts = actor.starts]
          /\ \A e \in Endpoints : gen'[e] \in {gen[e], 0}
        BY <1>13 DEF StopEnds, Crash
    <2>2. /\ ~actor'.up /\ ~actor'.stopCalled /\ ~actor'.timer
          /\ actor'.starts = actor.starts /\ actor.starts \in Nat
        BY <2>1 DEF Down, TypeOK, Actors
    <2>3. \A c \in Conns : ~Using(c)'
        BY <2>2 DEF Using, Current
    <2> QED
        BY <2>1, <2>2, <2>3 DEF AwakeInv, GenInv, UseInv, TimerInv
  <1>14. CASE start
    <2>1. PICK old \in SUBSET (stored \ HttpConns), unvisited \in SUBSET stored :
            actor' = Checked(resetSleepTimer(Restarted(actor.starts + 1, stored, old)), unvisited)
        BY <1>14 DEF start, Restarted
    <2>2. actor.starts + 1 \in Nat /\ stored \in SUBSET Conns /\ old \in SUBSET Conns
          /\ unvisited \in SUBSET Conns
        BY DEF TypeOK, Actors
    <2> DEFINE a == resetSleepTimer(Restarted(actor.starts + 1, stored, old))
    <2>3. a \in Actors /\ a.starts = actor.starts + 1 /\ ~a.stopCalled
          /\ (a.timer => ~a.sleepCalled /\ a.raw = {})
        BY <2>2, RestartEffect, ResetEffect DEF Kept, Decided
    <2> HIDE DEF a
    <2>4. /\ actor'.starts = actor.starts + 1 /\ ~actor'.stopCalled
          /\ actor'.timer => ~a.sleepCalled /\ actor'.raw = {}
        BY <2>1, <2>2, <2>3, CheckedEffect DEF a, Kept
    <2>5. \A e \in Endpoints : gen'[e] <= actor.starts /\ gen'[e] \in Nat
        BY <1>14 DEF start, AwakeInv, GenInv, TypeOK
    <2>6. \A c \in Conns : ~Using(c)'
        BY <1>0, <2>2, <2>4, <2>5 DEF Using, Current, TypeOK, Actors
    <2> QED
        BY <2>2, <2>4, <2>5, <2>6 DEF AwakeInv, GenInv, UseInv, TimerInv, TypeOK, Actors
  <1>15. CASE UNCHANGED vars
      BY <1>15 DEF vars, AwakeInv, GenInv, UseInv, TimerInv, Using, Current
  <1> QED
      BY <1>1, <1>2, <1>3, <1>4, <1>5, <1>6, <1>7, <1>8, <1>9, <1>10, <1>11, <1>12,
         <1>13, <1>14, <1>15, <1>16 DEF Next

-----------------------------------------------------------------------------
(* The types and the inductive invariant hold in every reachable state, in  *)
(* whatever order connections, checks, requests, sleeps, stops and crashes  *)
(* come, and however often the actor is started.                            *)
THEOREM AwakeInvariant == Spec => [](TypeOK /\ AwakeInv)
  <1>1. Init => TypeOK
      BY DEF Init, TypeOK, Down, Actors
  <1>2. Init => AwakeInv
      BY DEF Init, AwakeInv, GenInv, UseInv, TimerInv, Using, Current, Down
  <1>3. TypeOK /\ AwakeInv /\ [Next]_vars => (TypeOK /\ AwakeInv)'
      BY TypeStep, AwakeStep
  <1> QED
      BY <1>1, <1>2, <1>3, PTL DEF Spec

(* Until _stop is called, the sleep timer of an instance that is in use is  *)
(* never running: nothing arms it or leaves it armed (#resetSleepTimer and  *)
(* its callers).                                                            *)
THEOREM NeverSleepsInUse == Spec => []NoSleepInUse
  <1>1. TypeOK /\ AwakeInv => NoSleepInUse
      BY DEF TypeOK, Actors, AwakeInv, TimerInv, Using, NoSleepInUse, InUse
  <1> QED
      BY <1>1, AwakeInvariant, PTL
=============================================================================
