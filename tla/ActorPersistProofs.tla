------------------------- MODULE ActorPersistProofs -------------------------
(***************************************************************************)
(* Proofs about ActorPersist for any set of requests, any number of state  *)
(* changes, crashes, rejected writes and stops.                            *)
(***************************************************************************)
EXTENDS ActorPersist, TLAPS

-----------------------------------------------------------------------------
(* What the operations of a SinglePromiseQueue return, for any operations   *)
(* and callers: the proofs about the write queue cite these.                *)

(* enqueue on an idle queue starts a loop for this caller alone. *)
LEMMA EnqueueIdle ==
    ASSUME NEW op, NEW c
    PROVE  EnqueueOp(EmptyQueue, op, c) =
             [queuedOp |-> {}, pending |-> {},
              loops |-> {[ops |-> {op}, cycle |-> {c}]}]
  BY DEF EnqueueOp, RunningDrainLoop, StartCycle, Join, EmptyQueue

(* enqueue on a busy queue replaces the queued op and joins its cycle. *)
LEMMA EnqueueBusy ==
    ASSUME NEW Ops, NEW Callers, NEW q \in Queues(Ops, Callers), NEW op, NEW c,
           q.loops # {}
    PROVE  EnqueueOp(q, op, c) =
             [queuedOp |-> {op}, pending |-> q.pending \union {c},
              loops |-> q.loops]
  BY DEF EnqueueOp, RunningDrainLoop, Join, Queues

(* When its op settles and nothing is queued, a loop ends. *)
LEMMA SettleLast ==
    ASSUME NEW Ops, NEW Callers, NEW q \in Queues(Ops, Callers),
           NEW l \in q.loops, q.queuedOp = {}
    PROVE  SettleOp(q, l) =
             [queuedOp |-> {}, pending |-> q.pending, loops |-> q.loops \ {l}]
  BY DEF SettleOp, Queues

(* Otherwise it takes the queued op and everyone who waits for it. *)
LEMMA SettleNext ==
    ASSUME NEW Ops, NEW Callers, NEW q \in Queues(Ops, Callers),
           NEW l \in q.loops, q.queuedOp # {}
    PROVE  SettleOp(q, l) =
             [queuedOp |-> {}, pending |-> {},
              loops |-> (q.loops \ {l})
                            \union {[ops |-> q.queuedOp, cycle |-> q.pending]}]
  BY DEF SettleOp, StartCycle, Queues

(* A queue's fields keep their types under enqueue. *)
LEMMA EnqueueType ==
    ASSUME NEW Ops, NEW Callers, NEW q \in Queues(Ops, Callers),
           NEW op \in Ops, NEW c \in Callers
    PROVE  EnqueueOp(q, op, c) \in Queues(Ops, Callers)
  <1>1. CASE q.loops # {}
      BY <1>1, EnqueueBusy DEF Queues
  <1>2. CASE q.loops = {}
    <2> DEFINE l == [ops |-> {op}, cycle |-> q.pending \union {c}]
    <2>1. EnqueueOp(q, op, c) = [queuedOp |-> {}, pending |-> {}, loops |-> {l}]
        BY <1>2 DEF EnqueueOp, RunningDrainLoop, StartCycle, Join, Queues
    <2>2. l \in Loops(Ops, Callers)
        BY DEF Queues, Loops
    <2> HIDE DEF l
    <2> QED
        BY <2>1, <2>2 DEF Queues
  <1> QED
      BY <1>1, <1>2

(* A queue's fields keep their types when an op settles. *)
LEMMA SettleType ==
    ASSUME NEW Ops, NEW Callers, NEW q \in Queues(Ops, Callers),
           NEW l \in q.loops
    PROVE  SettleOp(q, l) \in Queues(Ops, Callers)
  <1>1. CASE q.queuedOp = {}
      BY <1>1, SettleLast DEF Queues
  <1>2. CASE q.queuedOp # {}
    <2> DEFINE n == [ops |-> q.queuedOp, cycle |-> q.pending]
    <2>1. n \in Loops(Ops, Callers)
        BY DEF Queues, Loops
    <2>2. SettleOp(q, l) = [queuedOp |-> {}, pending |-> {},
                            loops |-> (q.loops \ {l}) \union {n}]
        BY <1>2, SettleNext
    <2> HIDE DEF n
    <2> QED
        BY <2>1, <2>2 DEF Queues
  <1> QED
      BY <1>1, <1>2

-----------------------------------------------------------------------------
(* The part of the type invariant that #savePersistInner assigns. *)
SaveFieldsOK ==
    /\ inThrottleWindow \in BOOLEAN
    /\ persistChanged \in BOOLEAN
    /\ onPersistSaved \in {"undefined", "pending", "resolved"}
    /\ writeQueue \in Queues({"write"}, Waiters)
    /\ snapshot \in [state : Nat, aux : Nat]

TimeoutOK == pendingSaveTimeout \in {"undefined", "armed", "cleared"}

(* SavePersistInner keeps the types of what it assigns. *)
LEMMA SavePersistInnerType ==
    ASSUME TypeOK, NEW w \in Waiters,
           NEW promise \in {"undefined", "pending", "resolved"},
           UNCHANGED state, aux' \in Nat, SavePersistInner(w, promise)
    PROVE  SaveFieldsOK'
  <1>1. writeQueue \in Queues({"write"}, Waiters)
      BY DEF TypeOK
  <1>2. EnqueueOp(writeQueue, "write", w) \in Queues({"write"}, Waiters)
      BY <1>1, EnqueueType
  <1>3. onPersistSaved' \in {"undefined", "pending", "resolved"}
      BY DEF SavePersistInner, Resolved
  <1>4. writeQueue' \in Queues({"write"}, Waiters)
      BY <1>1, <1>2 DEF SavePersistInner
  <1>5. persistChanged' \in BOOLEAN /\ inThrottleWindow' \in BOOLEAN
      BY DEF SavePersistInner, WriteStarts, TypeOK
  <1>6. snapshot' \in [state : Nat, aux : Nat]
      BY DEF SavePersistInner, WriteStarts, TypeOK
  <1> QED
      BY <1>3, <1>4, <1>5, <1>6 DEF SaveFieldsOK

LEMMA SavePersistThrottledType ==
    ASSUME TypeOK, NEW promise \in {"undefined", "pending", "resolved"},
           UNCHANGED state, aux' \in Nat, SavePersistThrottled(promise)
    PROVE  SaveFieldsOK' /\ TimeoutOK'
  <1>1. CASE inThrottleWindow
      BY <1>1 DEF SavePersistThrottled, TypeOK, SaveFieldsOK, TimeoutOK
  <1>2. CASE ~inThrottleWindow
    <2>1. SavePersistInner(Unawaited, promise) /\ UNCHANGED pendingSaveTimeout
        BY <1>2 DEF SavePersistThrottled
    <2>2. Unawaited \in Waiters
        BY DEF Waiters
    <2> QED
        BY <2>1, <2>2, SavePersistInnerType DEF TypeOK, TimeoutOK
  <1> QED
      BY <1>1, <1>2

(* Every step keeps the types. *)
LEMMA TypeStep == TypeOK /\ [Next]_vars => TypeOK'
  <1> SUFFICES ASSUME TypeOK, [Next]_vars PROVE TypeOK'
      OBVIOUS
  <1> USE DEF Phases, PCs, Stops, mem, saves, hist, storage
  <1>0. Unawaited \in Waiters /\ Stopper \in Waiters
      BY DEF Waiters
  <1>1. ASSUME NEW r \in Requests, RequestStep(r) PROVE TypeOK'
    <2>0. r \in Waiters
        BY DEF Waiters
    <2>1. CASE BeginAction(r)
        BY <2>1 DEF BeginAction, TypeOK
    <2>2. CASE RequestChangesState(r)
        BY <2>2 DEF RequestChangesState, StateChanges, TypeOK
    <2>3. CASE SaveStateImmediate(r)
      <3>1. CASE persistChanged
        <4>1. SavePersistInner(r, onPersistSaved) /\ UNCHANGED <<state, aux>>
            BY <2>3, <3>1 DEF SaveStateImmediate
        <4>2. SaveFieldsOK'
            BY <2>0, <4>1, SavePersistInnerType DEF TypeOK
        <4> QED
            BY <2>3, <4>2 DEF SaveStateImmediate, TypeOK, SaveFieldsOK
      <3>2. CASE ~persistChanged
          BY <2>3, <3>2 DEF SaveStateImmediate, TypeOK
      <3> QED
          BY <3>1, <3>2
    <2>4. CASE SaveStateReturns(r)
        BY <2>4 DEF SaveStateReturns, Resolved, TypeOK
    <2>5. CASE SaveStateThrottled(r)
      <3> DEFINE p == IF onPersistSaved = "undefined" THEN "pending" ELSE onPersistSaved
      <3>1. SavePersistThrottled(p) /\ UNCHANGED <<state, aux>>
          BY <2>5 DEF SaveStateThrottled
      <3>2. p \in {"undefined", "pending", "resolved"} /\ aux' \in Nat
          BY <3>1 DEF TypeOK
      <3> HIDE DEF p
      <3>3. SaveFieldsOK' /\ TimeoutOK'
          BY <3>1, <3>2, SavePersistThrottledType
      <3> QED
          BY <2>5, <3>3 DEF SaveStateThrottled, TypeOK, SaveFieldsOK, TimeoutOK
    <2>6. CASE PersistSavedPromiseReturns(r)
        BY <2>6 DEF PersistSavedPromiseReturns, TypeOK
    <2>7. CASE ActionEnds(r)
      <3>1. /\ SavePersistThrottled(onPersistSaved) /\ UNCHANGED <<state, aux>>
            /\ aux' \in Nat /\ onPersistSaved \in {"undefined", "pending", "resolved"}
          BY <2>7 DEF ActionEnds, TypeOK
      <3>2. SaveFieldsOK' /\ TimeoutOK'
          BY <3>1, SavePersistThrottledType
      <3> QED
          BY <2>7, <3>2 DEF ActionEnds, TypeOK, SaveFieldsOK, TimeoutOK
    <2>8. CASE BeginWebSocket(r)
        BY <2>8 DEF BeginWebSocket, TypeOK
    <2>9. CASE WebSocketHandlerReturns(r)
      <3>1. /\ UNCHANGED <<state, aux>> /\ aux' \in Nat
            /\ onPersistSaved \in {"undefined", "pending", "resolved"}
          BY <2>9 DEF WebSocketHandlerReturns, TypeOK
      <3>2. \/ SavePersistThrottled(onPersistSaved)
            \/ SavePersistInner(r, onPersistSaved) /\ UNCHANGED pendingSaveTimeout
          BY <2>9 DEF WebSocketHandlerReturns
      <3>3. SaveFieldsOK' /\ TimeoutOK'
        <4>1. CASE SavePersistThrottled(onPersistSaved)
            BY <3>1, <4>1, SavePersistThrottledType
        <4>2. CASE SavePersistInner(r, onPersistSaved) /\ UNCHANGED pendingSaveTimeout
            BY <2>0, <3>1, <4>2, SavePersistInnerType DEF TypeOK, TimeoutOK
        <4> QED
            BY <3>2, <4>1, <4>2
      <3> QED
          BY <2>9, <3>3 DEF WebSocketHandlerReturns, TypeOK, SaveFieldsOK, TimeoutOK
    <2>10. CASE WebSocketEnds(r)
      <3>1. /\ SavePersistThrottled(Resolved(onPersistSaved))
            /\ UNCHANGED <<state, aux>> /\ aux' \in Nat
            /\ Resolved(onPersistSaved) \in {"undefined", "pending", "resolved"}
          BY <2>10 DEF WebSocketEnds, TypeOK, Resolved
      <3>2. SaveFieldsOK' /\ TimeoutOK'
          BY <3>1, SavePersistThrottledType
      <3> QED
          BY <2>10, <3>2 DEF WebSocketEnds, TypeOK, SaveFieldsOK, TimeoutOK
    <2> QED
        BY <1>1, <2>1, <2>2, <2>3, <2>4, <2>5, <2>6, <2>7, <2>8, <2>9, <2>10
        DEF RequestStep
  <1>2. CASE StartNew
      BY <1>2 DEF StartNew, TypeOK
  <1>3. ASSUME NEW ok \in BOOLEAN, InitWriteSettles(ok) PROVE TypeOK'
    <2>1. CASE ok = TRUE
      <3>1. /\ durable' = [init |-> TRUE, state |-> state, aux |-> aux]
            /\ phase' = "creating"
            /\ UNCHANGED <<mem, overwritten, leftover, saves, pc, stop, need,
                           acked, answered, flushTarget, rejected, crashes>>
          BY <1>3, <2>1 DEF InitWriteSettles
      <3> QED
          BY <3>1 DEF TypeOK
    <2>2. CASE ok = FALSE
      <3>1. /\ phase' = "wedged" /\ UNCHANGED durable
            /\ UNCHANGED <<mem, overwritten, leftover, saves, pc, stop, need,
                           acked, answered, flushTarget, rejected, crashes>>
          BY <1>3, <2>2 DEF InitWriteSettles
      <3> QED
          BY <3>1 DEF TypeOK
    <2> QED
        BY <1>3, <2>1, <2>2
  <1>4. CASE StartRestored
      BY <1>4 DEF StartRestored, TypeOK
  <1>5. CASE OnCreateReturns \/ StartReturns \/ StartFails
      BY <1>5 DEF OnCreateReturns, StartReturns, StartFails, TypeOK
  <1>6. CASE DetachedChange
      BY <1>6 DEF DetachedChange, StateChanges, TypeOK
  <1>7. ASSUME NEW andSave \in BOOLEAN, AuxChange(andSave) PROVE TypeOK'
    <2>1. /\ UNCHANGED state /\ aux' \in Nat
          /\ onPersistSaved \in {"undefined", "pending", "resolved"}
        BY <1>7 DEF AuxChange, TypeOK
    <2>2. CASE andSave /\ persistChanged
      <3>1. SavePersistInner(Unawaited, onPersistSaved)
          BY <1>7, <2>2 DEF AuxChange
      <3>2. SaveFieldsOK'
          BY <1>0, <2>1, <3>1, SavePersistInnerType
      <3> QED
          BY <1>7, <2>1, <3>2 DEF AuxChange, TypeOK, SaveFieldsOK
    <2>3. CASE ~(andSave /\ persistChanged)
        BY <1>7, <2>3 DEF AuxChange, TypeOK
    <2> QED
        BY <2>2, <2>3
  <1>8. CASE WindowElapses
    <2>1. inThrottleWindow' \in BOOLEAN
        BY <1>8 DEF WindowElapses
    <2>2. UNCHANGED <<phase, mem, storage, persistChanged, pendingSaveTimeout,
                      onPersistSaved, writeQueue, snapshot, unawaitedResumes,
                      pc, stop, hist>>
        BY <1>8 DEF WindowElapses
    <2> QED
        BY <2>1, <2>2 DEF TypeOK
  <1>9. CASE SaveTimeoutFires
    <2>1. /\ UNCHANGED state /\ aux' \in Nat
          /\ onPersistSaved \in {"undefined", "pending", "resolved"}
          /\ SavePersistInner(Unawaited, onPersistSaved)
        BY <1>9 DEF SaveTimeoutFires, TypeOK
    <2>2. SaveFieldsOK'
        BY <1>0, <2>1, SavePersistInnerType
    <2> QED
        BY <1>9, <2>2 DEF SaveTimeoutFires, TypeOK, SaveFieldsOK
  <1>10. ASSUME NEW ok \in BOOLEAN, WriteSettles(ok) PROVE TypeOK'
    <2>1. PICK l \in writeQueue.loops : writeQueue' = SettleOp(writeQueue, l)
        BY <1>10 DEF WriteSettles
    <2>2. writeQueue' \in Queues({"write"}, Waiters)
        BY <2>1, SettleType DEF TypeOK
    <2>3. persistChanged' \in BOOLEAN
        BY <1>10 DEF WriteSettles, WriteStarts, TypeOK
    <2>7. snapshot' \in [state : Nat, aux : Nat]
        BY <1>10 DEF WriteSettles, WriteStarts, TypeOK
    <2>5. durable' \in [init : BOOLEAN, state : Nat, aux : Nat]
        BY <1>10 DEF WriteSettles, TypeOK
    <2>6. unawaitedResumes' \in BOOLEAN /\ overwritten' \in BOOLEAN
        BY <1>10, Zenon DEF WriteSettles
    <2>8. rejected' \in Nat /\ leftover' = leftover
        BY <1>10 DEF WriteSettles, TypeOK
    <2>4. pc' \in [Requests -> PCs] /\ stop' \in Stops
        BY <1>10 DEF WriteSettles, TypeOK
    <2> QED
        BY <1>10, <2>2, <2>3, <2>4, <2>5, <2>6, <2>7, <2>8 DEF WriteSettles, TypeOK
  <1>11. CASE UnawaitedSaveResumes
    <2>1. unawaitedResumes' \in BOOLEAN
        BY <1>11 DEF UnawaitedSaveResumes
    <2>2. onPersistSaved' \in {"undefined", "pending", "resolved"}
        BY <1>11 DEF UnawaitedSaveResumes, Resolved, TypeOK
    <2>3. UNCHANGED <<phase, mem, storage, persistChanged, inThrottleWindow,
                      pendingSaveTimeout, writeQueue, snapshot, pc, stop, hist>>
        BY <1>11 DEF UnawaitedSaveResumes
    <2> QED
        BY <2>1, <2>2, <2>3 DEF TypeOK
  <1>12. CASE SleepCalled \/ StopCalled \/ StopDrains
      BY <1>12 DEF SleepCalled, StopCalled, StopDrains, TypeOK
  <1>13. CASE StopFlushes
    <2>1. /\ UNCHANGED <<state, aux>> /\ aux' \in Nat
          /\ onPersistSaved \in {"undefined", "pending", "resolved"}
        BY <1>13 DEF StopFlushes, TypeOK
    <2>2. CASE persistChanged
      <3>1. SaveFieldsOK'
          BY <1>0, <1>13, <2>1, <2>2, SavePersistInnerType DEF StopFlushes
      <3> QED
          BY <1>13, <3>1 DEF StopFlushes, TypeOK, SaveFieldsOK
    <2>3. CASE ~persistChanged
        BY <1>13, <2>3 DEF StopFlushes, TypeOK
    <2> QED
        BY <2>2, <2>3
  <1>14. CASE StopFlushReturns
      BY <1>14 DEF StopFlushReturns, Resolved, TypeOK
  <1>15. ASSUME InstanceGone, durable' \in [init : BOOLEAN, state : Nat, aux : Nat],
                crashes' \in Nat, overwritten' \in BOOLEAN,
                leftover' \subseteq [state : Nat, aux : Nat]
         PROVE  TypeOK'
      BY <1>15 DEF InstanceGone, TypeOK, EmptyQueue, Queues
  <1>16. CASE Released
    <2>1. leftover' \subseteq [state : Nat, aux : Nat]
      <3>1. [state |-> state, aux |-> aux] \in [state : Nat, aux : Nat]
          BY DEF TypeOK
      <3>2. \/ leftover' = leftover
            \/ \E d \in [state : Nat, aux : Nat] : leftover' = leftover \union {d}
          BY <1>16, <3>1 DEF Released, TypeOK
      <3> QED
          BY <3>2 DEF TypeOK
    <2> QED
        BY <1>15, <1>16, <2>1 DEF Released, TypeOK
  <1>19. CASE LateChange
    <2>1. leftover' \subseteq [state : Nat, aux : Nat]
        BY <1>19 DEF LateChange, TypeOK
    <2> QED
        BY <1>19, <2>1 DEF LateChange, TypeOK
  <1>20. CASE LateWrite
    <2>1. durable' \in [init : BOOLEAN, state : Nat, aux : Nat]
        BY <1>20 DEF LateWrite, TypeOK
    <2> QED
        BY <1>20, <2>1 DEF LateWrite, TypeOK
  <1>17. CASE Crash
    <2>1. InstanceGone /\ crashes' \in Nat /\ leftover' = {}
        BY <1>17 DEF Crash, TypeOK
    <2>4. overwritten' \in BOOLEAN
        BY <1>17, Zenon DEF Crash, TypeOK
    <2>2. \/ durable' = durable
          \/ durable' = [init |-> TRUE, state |-> state, aux |-> aux]
          \/ durable' = [init |-> TRUE, state |-> snapshot.state,
                         aux |-> snapshot.aux]
        BY <1>17 DEF Crash
    <2>3. durable' \in [init : BOOLEAN, state : Nat, aux : Nat]
      <3>1. state \in Nat /\ aux \in Nat /\ snapshot.state \in Nat /\ snapshot.aux \in Nat
          BY DEF TypeOK
      <3>2. \A s, a \in Nat : [init |-> TRUE, state |-> s, aux |-> a]
                                \in [init : BOOLEAN, state : Nat, aux : Nat]
          OBVIOUS
      <3>3. CASE durable' = durable
          BY <3>3 DEF TypeOK
      <3>4. CASE durable' = [init |-> TRUE, state |-> state, aux |-> aux]
          BY <3>1, <3>2, <3>4
      <3>5. CASE durable' = [init |-> TRUE, state |-> snapshot.state,
                             aux |-> snapshot.aux]
          BY <3>1, <3>2, <3>5
      <3> QED
          BY <2>2, <3>3, <3>4, <3>5
    <2> QED
        BY <1>15, <2>1, <2>3, <2>4
  <1>18. CASE UNCHANGED vars
      BY <1>18 DEF vars, TypeOK
  <1> QED
      BY <1>1, <1>2, <1>3, <1>4, <1>5, <1>6, <1>7, <1>8, <1>9, <1>10, <1>11,
         <1>12, <1>13, <1>14, <1>16, <1>17, <1>18, <1>19, <1>20
      DEF Next

(* The type invariant holds initially and in every reachable state. *)
THEOREM PersistTypeOK == Spec => []TypeOK
  <1>1. Init => TypeOK
    <2> SUFFICES ASSUME Init PROVE TypeOK
        OBVIOUS
    <2>1. writeQueue \in Queues({"write"}, Waiters)
        BY DEF Init, EmptyQueue, Queues
    <2>2. pc \in [Requests -> PCs] /\ need \in [Requests -> Nat]
        BY DEF Init, PCs
    <2> QED
        BY <2>1, <2>2 DEF Init, TypeOK, Phases, Stops
  <1> QED
      BY <1>1, TypeStep, PTL DEF Spec

-----------------------------------------------------------------------------
(* What a save that reaches the queue, or finds nothing to save, does to    *)
(* the queue, the flag and the snapshot.                                    *)
SaveEffect(w) ==
    \/ UNCHANGED <<persistChanged, writeQueue, snapshot>>
    \/ /\ writeQueue.loops # {}
       /\ writeQueue' = [queuedOp |-> {"write"},
                         pending  |-> writeQueue.pending \union {w},
                         loops    |-> writeQueue.loops]
       /\ UNCHANGED <<persistChanged, snapshot>>
    \/ /\ writeQueue.loops = {}
       /\ writeQueue' = [queuedOp |-> {}, pending |-> {},
                         loops |-> {[ops |-> {"write"}, cycle |-> {w}]}]
       /\ snapshot'.state = state

LEMMA SavePersistInnerEffect ==
    ASSUME TypeOK, QueueInv, NEW w, NEW promise,
           UNCHANGED state, SavePersistInner(w, promise)
    PROVE  SaveEffect(w)
  <1>0. writeQueue \in Queues({"write"}, Waiters)
      BY DEF TypeOK
  <1>1. CASE ~persistChanged
      BY <1>1 DEF SavePersistInner, SaveEffect
  <1>2. CASE persistChanged /\ writeQueue.loops # {}
    <2>1. writeQueue' = EnqueueOp(writeQueue, "write", w)
          /\ UNCHANGED <<persistChanged, snapshot>>
        BY <1>2 DEF SavePersistInner, RunningDrainLoop
    <2> QED
        BY <1>0, <1>2, <2>1, EnqueueBusy DEF SaveEffect
  <1>3. CASE persistChanged /\ writeQueue.loops = {}
    <2>1. /\ writeQueue' = EnqueueOp(EmptyQueue, "write", w)
          /\ snapshot' = [state |-> state, aux |-> aux']
        BY <1>3 DEF SavePersistInner, RunningDrainLoop, WriteStarts, QueueInv
    <2> QED
        BY <1>3, <2>1, EnqueueIdle DEF SaveEffect
  <1> QED
      BY <1>1, <1>2, <1>3

LEMMA SavePersistThrottledEffect ==
    ASSUME TypeOK, QueueInv, NEW promise,
           UNCHANGED state, SavePersistThrottled(promise)
    PROVE  SaveEffect(Unawaited)
  <1>1. CASE inThrottleWindow
      BY <1>1 DEF SavePersistThrottled, SaveEffect
  <1>2. CASE ~inThrottleWindow
      BY <1>2, SavePersistInnerEffect DEF SavePersistThrottled
  <1> QED
      BY <1>1, <1>2

(* Such a step keeps the queue consistent and changes nothing for the       *)
(* others who wait.                                                         *)
LEMMA SaveEffectQueue ==
    ASSUME TypeOK, QueueInv, NEW w, SaveEffect(w)
    PROVE  /\ \A l1, l2 \in writeQueue'.loops : l1 = l2
           /\ writeQueue'.loops = {} => writeQueue' = EmptyQueue
           /\ writeQueue.loops # {} =>
                 writeQueue'.loops = writeQueue.loops /\ snapshot' = snapshot
           /\ \A v : v # w =>
                 /\ v \in writeQueue'.pending => v \in writeQueue.pending
                 /\ (InCycle(v))' => InCycle(v) /\ snapshot' = snapshot
           /\ (InCycle(w))' => \/ InCycle(w) /\ snapshot' = snapshot
                               \/ snapshot'.state = state
           /\ w \in writeQueue'.pending /\ (InCycle(w))' => InCycle(w)
           /\ writeQueue'.queuedOp = {} => writeQueue'.pending = {}
  <1>1. CASE UNCHANGED <<persistChanged, writeQueue, snapshot>>
    <2>1. writeQueue' = writeQueue /\ snapshot' = snapshot
        BY <1>1
    <2>2. \A v : (InCycle(v))' <=> InCycle(v)
        BY <2>1 DEF InCycle
    <2> QED
        BY <2>1, <2>2 DEF QueueInv
  <1>2. CASE /\ writeQueue.loops # {}
             /\ writeQueue' = [queuedOp |-> {"write"},
                               pending  |-> writeQueue.pending \union {w},
                               loops    |-> writeQueue.loops]
             /\ UNCHANGED <<persistChanged, snapshot>>
    <2>1. /\ writeQueue'.loops = writeQueue.loops
          /\ writeQueue'.pending = writeQueue.pending \union {w}
          /\ writeQueue'.queuedOp # {}
          /\ snapshot' = snapshot
        BY <1>2
    <2>2. \A v : (InCycle(v))' <=> InCycle(v)
        BY <2>1 DEF InCycle
    <2> QED
        BY <1>2, <2>1, <2>2 DEF QueueInv
  <1>3. CASE /\ writeQueue.loops = {}
             /\ writeQueue' = [queuedOp |-> {}, pending |-> {},
                               loops |-> {[ops |-> {"write"}, cycle |-> {w}]}]
             /\ snapshot'.state = state
    <2> PICK l : l = [ops |-> {"write"}, cycle |-> {w}]
        OBVIOUS
    <2>1. /\ writeQueue'.loops = {l} /\ writeQueue'.pending = {}
          /\ l.cycle = {w}
        BY <1>3
    <2>2. \A v : (InCycle(v))' => v = w
        BY <2>1 DEF InCycle
    <2> QED
        BY <1>3, <2>1, <2>2
  <1> QED
      BY <1>1, <1>2, <1>3 DEF SaveEffect

(* Kept(v) after the step, for a version v of before or after it. *)
KeptNext(v) ==
    \/ v <= rejected'
    \/ /\ Live' => v <= state'
       /\ writeQueue'.loops # {} => v <= snapshot'.state
       /\ v <= durable'.state \/ overwritten'

LEMMA CoverNext ==
    ASSUME \A r \in Requests : (Covered(r, need[r]))',
           (Covered(Stopper, flushTarget.state))',
           KeptNext(acked'),
           \A r \in Requests :
                pc'[r] \in {"saved", "wsSaved"} => KeptNext(need'[r]),
           stop' \in {"flushed", "done"} => KeptNext(flushTarget'.state),
           stop' \in {"closing", "draining"} =>
                \/ KeptNext(flushTarget'.state)
                \/ writeQueue'.loops # {} /\ flushTarget'.state <= snapshot'.state
    PROVE  CoverInv'
  <1>1. (Kept(acked))'
      BY DEF Kept, KeptNext, Lost
  <1>2. \A r \in Requests : pc'[r] \in {"saved", "wsSaved"} => (Kept(need[r]))'
      BY DEF Kept, KeptNext, Lost
  <1>3. KeptNext(flushTarget'.state) => (Kept(flushTarget.state))'
      BY DEF Kept, KeptNext, Lost
  <1> QED
      BY <1>1, <1>2, <1>3 DEF CoverInv

(* A save keeps what is kept: the write it starts carries the newest.       *)
LEMMA SaveEffectKept ==
    ASSUME NEW w, SaveEffect(w), phase = "ready",
           UNCHANGED <<phase, state, durable, overwritten, rejected>>,
           NEW v, Kept(v)
    PROVE  KeptNext(v)
  <1>1. Live /\ Live'
      BY DEF Live
  <1>2. CASE Lost(v)
      BY <1>2 DEF Lost, KeptNext
  <1>3. CASE ~Lost(v)
    <2>1. /\ v <= state /\ (v <= durable.state \/ overwritten)
          /\ writeQueue.loops # {} => v <= snapshot.state
        BY <1>1, <1>3 DEF Kept
    <2>2. writeQueue'.loops # {} => v <= snapshot'.state
      <3>1. CASE UNCHANGED <<persistChanged, writeQueue, snapshot>>
          BY <2>1, <3>1
      <3>2. CASE /\ writeQueue.loops # {}
                 /\ UNCHANGED <<persistChanged, snapshot>>
          BY <2>1, <3>2
      <3>3. CASE snapshot'.state = state
          BY <2>1, <3>3
      <3> QED
          BY <3>1, <3>2, <3>3 DEF SaveEffect
    <2> QED
        BY <2>1, <2>2 DEF KeptNext
  <1> QED
      BY <1>2, <1>3

LEMMA SaveEffectVersions ==
    ASSUME TypeOK, QueueInv, VersionInv, NEW w, SaveEffect(w), Live,
           UNCHANGED <<phase, state, storage, rejected>>
    PROVE  VersionInv'
  <1> USE DEF storage, Lost
  <1>1. Live'
      BY DEF Live
  <1>2. CASE UNCHANGED <<persistChanged, writeQueue, snapshot>>
      BY <1>1, <1>2 DEF VersionInv
  <1>3. CASE /\ writeQueue.loops # {}
             /\ writeQueue' = [queuedOp |-> {"write"},
                               pending  |-> writeQueue.pending \union {w},
                               loops    |-> writeQueue.loops]
             /\ UNCHANGED <<persistChanged, snapshot>>
    <2>1. writeQueue'.loops = writeQueue.loops
        BY <1>3
    <2> QED
        BY <1>1, <1>3, <2>1 DEF VersionInv
  <1>4. CASE /\ writeQueue.loops = {}
             /\ writeQueue' = [queuedOp |-> {}, pending |-> {},
                               loops |-> {[ops |-> {"write"}, cycle |-> {w}]}]
             /\ snapshot'.state = state
    <2> PICK l : l = [ops |-> {"write"}, cycle |-> {w}]
        OBVIOUS
    <2>1. writeQueue'.loops = {l}
        BY <1>4
    <2>2. (durable.state <= state \/ overwritten) /\ state <= state
        BY DEF VersionInv, TypeOK
    <2> QED
        BY <1>1, <1>4, <2>1, <2>2 DEF VersionInv, Live
  <1> QED
      BY <1>2, <1>3, <1>4 DEF SaveEffect

(* A step of a ready instance whose only effect on the queue is a save by w  *)
(* preserves the invariant, if it leaves the requests that wait alone.       *)
Saved(r) == pc[r] \in {"saved", "wsSaved"}
Waiting(r) == pc[r] \in {"saving", "wsSaving"}

LEMMA SaveStepInv ==
    ASSUME TypeOK, PersistInv, NEW w \in Waiters, SaveEffect(w),
           phase = "ready", UNCHANGED <<phase, state, storage, rejected>>,
           \A r \in Requests : r # w /\ Waiting(r) =>
                pc'[r] = pc[r] /\ need'[r] = need[r],
           \A r \in Requests : Saved(r)' => Saved(r) /\ need'[r] = need[r],
           w \in Requests => Waiting(w)' /\ ~Waiting(w) /\ need'[w] = state,
           acked' = acked \/ \E r \in Requests : Saved(r) /\ acked' = need[r],
           \/ w # Stopper /\ UNCHANGED <<stop, flushTarget>>
           \/ /\ w = Stopper /\ stop = "hooks"
              /\ stop' = "flushing" /\ flushTarget'.state = state
    PROVE  PersistInv'
  <1> USE DEF PersistInv, storage
  <1>1. /\ \A l1, l2 \in writeQueue'.loops : l1 = l2
        /\ writeQueue'.loops = {} => writeQueue' = EmptyQueue
        /\ writeQueue.loops # {} =>
              writeQueue'.loops = writeQueue.loops /\ snapshot' = snapshot
        /\ \A v : v # w =>
              /\ v \in writeQueue'.pending => v \in writeQueue.pending
              /\ (InCycle(v))' => InCycle(v) /\ snapshot' = snapshot
        /\ (InCycle(w))' => \/ InCycle(w) /\ snapshot' = snapshot
                            \/ snapshot'.state = state
        /\ w \in writeQueue'.pending /\ (InCycle(w))' => InCycle(w)
        /\ writeQueue'.queuedOp = {} => writeQueue'.pending = {}
      BY SaveEffectQueue
  <1>2. QueueInv'
      BY <1>1 DEF QueueInv
  <1>3. WaitInv'
    <2>1. ASSUME NEW r \in Requests,
                 r \in writeQueue'.pending \/ (InCycle(r))'
          PROVE  pc'[r] \in {"saving", "wsSaving"}
      <3>1. CASE r = w
          BY <3>1 DEF Waiting
      <3>2. CASE r # w
          BY <1>1, <2>1, <3>2 DEF WaitInv, Waiting
      <3> QED
          BY <3>1, <3>2
    <2>2. ASSUME Stopper \in writeQueue'.pending \/ (InCycle(Stopper))'
          PROVE  stop' = "flushing"
      <3>1. CASE w # Stopper
          BY <1>1, <2>2, <3>1 DEF WaitInv
      <3>2. CASE w = Stopper
          BY <3>2
      <3> QED
          BY <3>1, <3>2
    <2>3. ASSUME NEW v \in Requests \union {Stopper}
          PROVE  ~(v \in writeQueue'.pending /\ (InCycle(v))')
      <3>1. CASE v = w
          BY <1>1, <3>1 DEF WaitInv, Waiting
      <3>2. CASE v # w
          BY <1>1, <3>2 DEF WaitInv
      <3> QED
          BY <3>1, <3>2
    <2> QED
        BY <2>1, <2>2, <2>3 DEF WaitInv
  <1>4. VersionInv'
      BY SaveEffectVersions DEF Live
  <1>5. state \in Nat /\ snapshot.state \in Nat /\ durable.state \in Nat
      BY DEF TypeOK
  <1>6. \A r \in Requests : (Covered(r, need[r]))'
    <2> SUFFICES ASSUME NEW r \in Requests
                 PROVE  /\ (InCycle(r))' => need'[r] <= snapshot'.state
                        /\ r \in writeQueue'.pending => need'[r] <= state'
        BY DEF Covered
    <2>1. CASE r = w
      <3>1. need'[r] = state /\ ~InCycle(w)
          BY <2>1 DEF WaitInv, Waiting
      <3> QED
          BY <1>1, <1>5, <2>1, <3>1
    <2>2. CASE r # w
      <3>1. (InCycle(r))' => InCycle(r) /\ snapshot' = snapshot /\ need'[r] = need[r]
          BY <1>1, <2>2 DEF WaitInv, Waiting
      <3>2. r \in writeQueue'.pending => r \in writeQueue.pending /\ need'[r] = need[r]
          BY <1>1, <2>2 DEF WaitInv, Waiting
      <3> QED
          BY <3>1, <3>2 DEF CoverInv, Covered
    <2> QED
        BY <2>1, <2>2
  <1>7. (Covered(Stopper, flushTarget.state))'
    <2>1. CASE w = Stopper
      <3>1. Stopper \notin Requests
          BY PersistAssumption
      <3>2. flushTarget'.state = state /\ ~InCycle(Stopper)
          BY <2>1 DEF WaitInv
      <3> QED
          BY <1>1, <1>5, <2>1, <3>2 DEF Covered
    <2>2. CASE w # Stopper
        BY <1>1, <2>2 DEF CoverInv, Covered
    <2> QED
        BY <2>1, <2>2
  <1>8. \A v : Kept(v) => KeptNext(v)
      BY SaveEffectKept
  <1>9. KeptNext(acked')
      BY <1>8 DEF CoverInv, Saved
  <1>10. \A r \in Requests : pc'[r] \in {"saved", "wsSaved"} => KeptNext(need'[r])
      BY <1>8 DEF CoverInv, Saved
  <1>11. /\ stop' \in {"flushed", "done"} => KeptNext(flushTarget'.state)
         /\ stop' \in {"closing", "draining"} =>
               \/ KeptNext(flushTarget'.state)
               \/ writeQueue'.loops # {} /\ flushTarget'.state <= snapshot'.state
      BY <1>1, <1>8 DEF CoverInv
  <1>12. CoverInv'
      BY <1>6, <1>7, <1>9, <1>10, <1>11, CoverNext
  <1> QED
      BY <1>2, <1>3, <1>4, <1>12

(* Every step of a request preserves the invariant: it saves, or it leaves  *)
(* the queue alone and, if it changes the state, raises the flag.           *)
LEMMA StateChangesInv ==
    ASSUME TypeOK, PersistInv, Live, StateChanges,
           UNCHANGED <<phase, storage, rejected, writeQueue, snapshot, stop,
                       flushTarget, acked, pendingSaveTimeout>>,
           \/ UNCHANGED <<pc, need>>
           \/ /\ phase = "ready"
              /\ \A r \in Requests :
                    \/ pc'[r] = pc[r] /\ need'[r] = need[r]
                    \/ ~Waiting(r) /\ ~Saved(r)'
    PROVE  PersistInv'
  <1> USE DEF PersistInv, storage
  <1>1. state' = state + 1 /\ persistChanged' = TRUE /\ state \in Nat
      BY DEF StateChanges, TypeOK
  <1>2. \A v : (InCycle(v))' <=> InCycle(v)
      BY DEF InCycle
  <1>3. QueueInv'
      BY DEF QueueInv
  <1>4. WaitInv'
      BY <1>2 DEF WaitInv, Waiting
  <1>5. VersionInv'
    <2>1. ~(~persistChanged')
        BY <1>1
    <2>2. Live' <=> Live
        BY DEF Live
    <2>3. durable.state \in Nat /\ snapshot.state \in Nat
        BY DEF TypeOK
    <2> QED
        BY <1>1, <2>1, <2>2, <2>3 DEF VersionInv
  <1>6. CoverInv'
    <2>1. \A r \in Requests : (Covered(r, need[r]))'
      <3> SUFFICES ASSUME NEW r \in Requests
                   PROVE  /\ (InCycle(r))' => need'[r] <= snapshot'.state
                          /\ r \in writeQueue'.pending => need'[r] <= state'
          BY DEF Covered
      <3>1. r \in writeQueue.pending \/ InCycle(r) => need'[r] = need[r]
          BY DEF WaitInv, Waiting
      <3>2. need[r] \in Nat
          BY DEF TypeOK
      <3> QED
          BY <1>1, <1>2, <3>1, <3>2 DEF CoverInv, Covered
    <2>2. (Covered(Stopper, flushTarget.state))'
      <3>1. flushTarget.state \in Nat
          BY DEF TypeOK
      <3> QED
          BY <1>1, <1>2, <3>1 DEF CoverInv, Covered
    <2>3. ASSUME NEW v \in Nat, Kept(v) PROVE KeptNext(v)
      <3>1. v <= state => v <= state'
          BY <1>1
      <3> QED
          BY <2>3, <3>1 DEF Kept, KeptNext, Lost, Live
    <2>4. acked \in Nat /\ flushTarget.state \in Nat /\ \A r \in Requests : need[r] \in Nat
        BY DEF TypeOK
    <2>5. KeptNext(acked')
        BY <2>3, <2>4 DEF CoverInv
    <2>6. \A r \in Requests : pc'[r] \in {"saved", "wsSaved"} => KeptNext(need'[r])
        BY <2>3, <2>4 DEF CoverInv, Saved
    <2>7. /\ stop' \in {"flushed", "done"} => KeptNext(flushTarget'.state)
          /\ stop' \in {"closing", "draining"} =>
                \/ KeptNext(flushTarget'.state)
                \/ writeQueue'.loops # {} /\ flushTarget'.state <= snapshot'.state
        BY <2>3, <2>4 DEF CoverInv
    <2> QED
        BY <2>1, <2>2, <2>5, <2>6, <2>7, CoverNext
  <1> QED
      BY <1>3, <1>4, <1>5, <1>6

LEMMA RequestStepInv ==
    ASSUME TypeOK, PersistInv, NEW r \in Requests, RequestStep(r)
    PROVE  PersistInv'
  <1> USE DEF mem, saves, hist, storage
  <1>0. /\ Unawaited \in Waiters /\ r \in Waiters
        /\ Unawaited \notin Requests /\ Unawaited # Stopper
        /\ Stopper \notin Requests /\ r # Stopper
        /\ pc \in [Requests -> PCs] /\ need \in [Requests -> Nat]
        /\ QueueInv
      BY PersistAssumption DEF Waiters, TypeOK, PersistInv, Unawaited, Stopper
  <1>1. pc[r] # "idle" => phase = "ready"
      BY DEF PersistInv, QueueInv
  <1>2. CASE BeginAction(r)
    <2>1. SaveEffect(Unawaited) /\ phase = "ready"
        BY <1>2 DEF BeginAction, SaveEffect
    <2>2. \A q \in Requests : \/ pc'[q] = pc[q] /\ need'[q] = need[q]
                              \/ ~Waiting(q) /\ ~Saved(q)'
        BY <1>0, <1>2 DEF BeginAction, Waiting, Saved
    <2> QED
        BY <1>0, <1>2, <2>1, <2>2, SaveStepInv DEF BeginAction, Saved
  <1>3. CASE RequestChangesState(r)
    <2>1. phase = "ready" /\ StateChanges
        BY <1>1, <1>3 DEF RequestChangesState, InBody
    <2>2. \A q \in Requests : \/ pc'[q] = pc[q] /\ need'[q] = need[q]
                              \/ ~Waiting(q) /\ ~Saved(q)'
        BY <1>0, <1>3 DEF RequestChangesState, InBody, Waiting, Saved
    <2> QED
        BY <1>3, <2>1, <2>2, StateChangesInv DEF RequestChangesState, Live
  <1>4. CASE SaveStateImmediate(r)
    <2>1. phase = "ready" /\ ~Waiting(r) /\ UNCHANGED <<state, aux>>
        BY <1>1, <1>4 DEF SaveStateImmediate, InBody, Waiting
    <2>2. \A q \in Requests : q # r => pc'[q] = pc[q] /\ need'[q] = need[q]
        BY <1>0, <1>4 DEF SaveStateImmediate
    <2>3. ~Saved(r)' /\ need'[r] = state
        BY <1>0, <1>4 DEF SaveStateImmediate, Saved
    <2>4. CASE persistChanged
      <3>1. SaveEffect(r)
          BY <1>0, <1>4, <2>1, <2>4, SavePersistInnerEffect DEF SaveStateImmediate
      <3>2. Waiting(r)'
          BY <1>0, <1>4, <2>4 DEF SaveStateImmediate, Waiting
      <3> QED
          BY <1>0, <1>4, <2>1, <2>2, <2>3, <3>1, <3>2, SaveStepInv
          DEF SaveStateImmediate, Saved
    <2>5. CASE ~persistChanged
      <3>1. SaveEffect(Unawaited)
          BY <1>4, <2>5 DEF SaveStateImmediate, SaveEffect
      <3> QED
          BY <1>0, <1>4, <2>1, <2>2, <2>3, <3>1, SaveStepInv
          DEF SaveStateImmediate, Saved, Waiting
    <2> QED
        BY <2>4, <2>5
  <1>5. CASE SaveStateReturns(r)
    <2>1. phase = "ready" /\ Saved(r) /\ ~Waiting(r) /\ SaveEffect(Unawaited)
        BY <1>1, <1>5 DEF SaveStateReturns, Saved, Waiting, SaveEffect
    <2>2. \A q \in Requests : need'[q] = need[q] /\ (q # r => pc'[q] = pc[q])
        BY <1>0, <1>5 DEF SaveStateReturns
    <2>3. ~Saved(r)' /\ (acked' = acked \/ acked' = need[r])
        BY <1>0, <1>5 DEF SaveStateReturns, Saved
    <2> QED
        BY <1>0, <1>5, <2>1, <2>2, <2>3, SaveStepInv
        DEF SaveStateReturns, Saved, Waiting
  <1>6. CASE SaveStateThrottled(r)
    <2>1. phase = "ready" /\ ~Waiting(r) /\ SaveEffect(Unawaited)
        BY <1>0, <1>1, <1>6, SavePersistThrottledEffect
        DEF SaveStateThrottled, InBody, Waiting
    <2>2. \A q \in Requests : q # r => pc'[q] = pc[q] /\ need'[q] = need[q]
        BY <1>0, <1>6 DEF SaveStateThrottled
    <2>3. ~Saved(r)'
        BY <1>0, <1>6 DEF SaveStateThrottled, Saved
    <2> QED
        BY <1>0, <1>6, <2>1, <2>2, <2>3, SaveStepInv
        DEF SaveStateThrottled, Saved, Waiting
  <1>7. CASE PersistSavedPromiseReturns(r)
    <2>1. phase = "ready" /\ ~Waiting(r) /\ SaveEffect(Unawaited)
        BY <1>1, <1>7 DEF PersistSavedPromiseReturns, Waiting, SaveEffect
    <2>2. \A q \in Requests : need'[q] = need[q] /\ (q # r => pc'[q] = pc[q])
        BY <1>0, <1>7 DEF PersistSavedPromiseReturns
    <2>3. ~Saved(r)'
        BY <1>0, <1>7 DEF PersistSavedPromiseReturns, Saved
    <2> QED
        BY <1>0, <1>7, <2>1, <2>2, <2>3, SaveStepInv
        DEF PersistSavedPromiseReturns, Saved, Waiting
  <1>8. CASE ActionEnds(r)
    <2>1. phase = "ready" /\ ~Waiting(r) /\ SaveEffect(Unawaited)
        BY <1>0, <1>1, <1>8, SavePersistThrottledEffect
        DEF ActionEnds, InBody, Waiting
    <2>2. \A q \in Requests : q # r => pc'[q] = pc[q] /\ need'[q] = need[q]
        BY <1>0, <1>8 DEF ActionEnds
    <2>3. ~Saved(r)'
        BY <1>0, <1>8 DEF ActionEnds, Saved
    <2> QED
        BY <1>0, <1>8, <2>1, <2>2, <2>3, SaveStepInv DEF ActionEnds, Saved, Waiting
  <1>9. CASE BeginWebSocket(r)
    <2>1. phase = "ready" /\ ~Waiting(r) /\ SaveEffect(Unawaited)
        BY <1>9 DEF BeginWebSocket, AssertReady, Waiting, SaveEffect
    <2>2. \A q \in Requests : need'[q] = need[q] /\ (q # r => pc'[q] = pc[q])
        BY <1>0, <1>9 DEF BeginWebSocket
    <2>3. ~Saved(r)'
        BY <1>0, <1>9 DEF BeginWebSocket, Saved
    <2> QED
        BY <1>0, <1>9, <2>1, <2>2, <2>3, SaveStepInv
        DEF BeginWebSocket, Saved, Waiting
  <1>10. CASE WebSocketHandlerReturns(r)
    <2>1. phase = "ready" /\ ~Waiting(r) /\ UNCHANGED <<state, aux>>
        BY <1>1, <1>10 DEF WebSocketHandlerReturns, Waiting
    <2>2. \A q \in Requests : q # r => pc'[q] = pc[q] /\ need'[q] = need[q]
        BY <1>0, <1>10 DEF WebSocketHandlerReturns
    <2>3. ~Saved(r)'
        BY <1>0, <1>10 DEF WebSocketHandlerReturns, Saved
    <2>4. CASE pc[r] = "wsClean" /\ persistChanged /\ AssertReady
      <3>1. SaveEffect(r)
          BY <1>0, <1>10, <2>1, <2>4, SavePersistInnerEffect
          DEF WebSocketHandlerReturns
      <3>2. Waiting(r)' /\ need'[r] = state
          BY <1>0, <1>10, <2>4 DEF WebSocketHandlerReturns, Waiting
      <3> QED
          BY <1>0, <1>10, <2>1, <2>2, <2>3, <3>1, <3>2, SaveStepInv
          DEF WebSocketHandlerReturns, Saved
    <2>5. CASE ~(pc[r] = "wsClean" /\ persistChanged /\ AssertReady)
      <3>1. SaveEffect(Unawaited)
          BY <1>0, <1>10, <2>1, <2>5, SavePersistThrottledEffect
          DEF WebSocketHandlerReturns
      <3> QED
          BY <1>0, <1>10, <2>1, <2>2, <2>3, <3>1, SaveStepInv
          DEF WebSocketHandlerReturns, Saved, Waiting
    <2> QED
        BY <2>4, <2>5
  <1>11. CASE WebSocketEnds(r)
    <2>1. phase = "ready" /\ Saved(r) /\ ~Waiting(r) /\ SaveEffect(Unawaited)
        BY <1>0, <1>1, <1>11, SavePersistThrottledEffect
        DEF WebSocketEnds, Saved, Waiting
    <2>2. \A q \in Requests : q # r => pc'[q] = pc[q] /\ need'[q] = need[q]
        BY <1>0, <1>11 DEF WebSocketEnds
    <2>3. ~Saved(r)' /\ (acked' = acked \/ acked' = need[r])
        BY <1>0, <1>11 DEF WebSocketEnds, Saved
    <2> QED
        BY <1>0, <1>11, <2>1, <2>2, <2>3, SaveStepInv
        DEF WebSocketEnds, Saved, Waiting
  <1> QED
      BY <1>2, <1>3, <1>4, <1>5, <1>6, <1>7, <1>8, <1>9, <1>10, <1>11
      DEF RequestStep

(* The end of a write preserves the invariant: storage catches up with the  *)
(* snapshot, the cycle's awaiters resume, and the next write, if one is     *)
(* queued, covers everyone who waits for it.                                *)
LEMMA WriteSettlesInv ==
    ASSUME TypeOK, PersistInv, NEW ok \in BOOLEAN, WriteSettles(ok)
    PROVE  PersistInv'
  <1> USE DEF PersistInv
  <1>1. PICK l \in writeQueue.loops :
          /\ durable' = IF ok THEN [init |-> TRUE, state |-> snapshot.state,
                                    aux |-> snapshot.aux]
                        ELSE durable
          /\ overwritten' = (overwritten /\ ~ok)
          /\ rejected' = IF ~ok /\ snapshot.state > rejected THEN snapshot.state
                         ELSE rejected
          /\ writeQueue' = SettleOp(writeQueue, l)
          /\ IF writeQueue.queuedOp # {} THEN WriteStarts
             ELSE UNCHANGED <<persistChanged, snapshot>>
          /\ pc' = [r \in Requests |->
                      IF r \notin l.cycle THEN pc[r]
                      ELSE IF pc[r] = "wsSaving" THEN "wsSaved" ELSE "saved"]
          /\ stop' = IF Stopper \in l.cycle THEN "flushed"
                     ELSE IF stop = "draining" /\ ~RunningDrainLoop(writeQueue')
                     THEN "done" ELSE stop
          /\ UNCHANGED <<phase, state, aux, pendingSaveTimeout, need, acked,
                         flushTarget, leftover>>
      BY DEF WriteSettles, mem
  <1>2. phase = "ready" /\ writeQueue.loops = {l} /\ Live /\ Live'
      BY <1>1 DEF QueueInv, Live
  <1>3. writeQueue \in Queues({"write"}, Waiters) /\ state \in Nat
        /\ snapshot.state \in Nat /\ durable.state \in Nat
        /\ flushTarget.state \in Nat /\ acked \in Nat /\ rejected \in Nat
        /\ \A r \in Requests : need[r] \in Nat
      BY DEF TypeOK
  <1>4. /\ durable.state <= snapshot.state \/ overwritten
        /\ snapshot.state <= state /\ durable.init
      BY <1>2 DEF VersionInv
  <1>5. \A v : v \in l.cycle <=> InCycle(v)
      BY <1>2 DEF InCycle
  <1>6. /\ snapshot.state <= rejected' \/ (durable'.state = snapshot.state /\ ~overwritten')
        /\ rejected <= rejected' /\ rejected' \in Nat
    <2>1. CASE ok = TRUE
      <3>1. ~overwritten'
          BY <1>1, <2>1, Zenon
      <3>2. durable'.state = snapshot.state /\ rejected' = rejected
          BY <1>1, <2>1
      <3> QED
          BY <1>3, <3>1, <3>2
    <2>2. CASE ok = FALSE
        BY <1>1, <1>3, <2>2
    <2> QED
        BY <2>1, <2>2
  <1>7. /\ durable'.state <= snapshot.state \/ overwritten'
        /\ durable'.state \in Nat /\ durable'.init
    <2>1. CASE ok = TRUE
        BY <1>1, <1>3, <1>4, <2>1
    <2>2. CASE ok = FALSE
        BY <1>1, <1>3, <1>4, <2>2
    <2> QED
        BY <2>1, <2>2
  <1>8. \A r \in Requests :
            pc'[r] = IF r \notin l.cycle THEN pc[r]
                     ELSE IF pc[r] = "wsSaving" THEN "wsSaved" ELSE "saved"
      BY <1>1
  <1>14. writeQueue'.loops # {} => snapshot'.state = state
    <2>1. CASE writeQueue.queuedOp = {}
        BY <1>1, <1>2, <1>3, <2>1, SettleLast
    <2>2. CASE writeQueue.queuedOp # {}
        BY <1>1, <2>2 DEF WriteStarts
    <2> QED
        BY <2>1, <2>2
  <1>15. ASSUME NEW v \in Nat, v <= snapshot.state PROVE KeptNext(v)
    <2>1. v <= state
        BY <1>3, <1>4, <1>15
    <2>2. CASE snapshot.state <= rejected'
        BY <1>3, <1>6, <1>15, <2>2 DEF KeptNext
    <2>3. CASE durable'.state = snapshot.state
        BY <1>1, <1>14, <1>15, <2>1, <2>3 DEF KeptNext
    <2> QED
        BY <1>6, <2>2, <2>3
  <1>16. ASSUME NEW v \in Nat, Kept(v) PROVE KeptNext(v)
    <2>1. CASE Lost(v)
        BY <1>3, <1>6, <2>1 DEF Lost, KeptNext
    <2>2. CASE ~Lost(v)
        BY <1>2, <1>15, <1>16, <2>2 DEF Kept
    <2> QED
        BY <2>1, <2>2
  <1>9. \A r \in Requests : pc'[r] \in {"saved", "wsSaved"} => KeptNext(need'[r])
    <2> SUFFICES ASSUME NEW r \in Requests, pc'[r] \in {"saved", "wsSaved"}
                 PROVE  KeptNext(need[r])
        BY <1>1
    <2>1. CASE r \in l.cycle
        BY <1>3, <1>5, <1>15, <2>1 DEF CoverInv, Covered
    <2>2. CASE r \notin l.cycle
        BY <1>3, <1>8, <1>16, <2>2 DEF CoverInv
    <2> QED
        BY <2>1, <2>2
  <1>10. KeptNext(acked')
      BY <1>1, <1>3, <1>16 DEF CoverInv
  <1>11. stop' \in {"flushed", "closing", "draining", "done"} =>
            KeptNext(flushTarget'.state)
    <2> SUFFICES ASSUME stop' \in {"flushed", "closing", "draining", "done"}
                 PROVE  KeptNext(flushTarget.state)
        BY <1>1
    <2>1. CASE Stopper \in l.cycle
        BY <1>3, <1>5, <1>15, <2>1 DEF CoverInv, Covered
    <2>2. CASE Stopper \notin l.cycle
      <3>1. stop \in {"flushed", "closing", "draining", "done"}
          BY <1>1, <2>2
      <3>2. Kept(flushTarget.state) \/ flushTarget.state <= snapshot.state
          BY <3>1 DEF CoverInv
      <3> QED
          BY <1>3, <1>15, <1>16, <3>2
    <2> QED
        BY <2>1, <2>2
  <1>12. CASE writeQueue.queuedOp = {}
    <2>1. writeQueue' = [queuedOp |-> {}, pending |-> writeQueue.pending, loops |-> {}]
        BY <1>1, <1>2, <1>3, <1>12, SettleLast
    <2>2. writeQueue' = EmptyQueue
        BY <1>12, <2>1 DEF QueueInv, EmptyQueue
    <2>3. \A v : v \notin writeQueue'.pending /\ ~(InCycle(v))'
        BY <2>2 DEF InCycle, EmptyQueue
    <2>4. UNCHANGED <<persistChanged, snapshot>>
        BY <1>1, <1>12
    <2>5. QueueInv'
        BY <1>1, <1>2, <2>2 DEF QueueInv, EmptyQueue
    <2>6. WaitInv'
        BY <2>3 DEF WaitInv
    <2>7. VersionInv'
      <3>1. ~persistChanged' => state = snapshot.state
          BY <1>2, <2>4 DEF VersionInv
      <3>2. durable'.state <= state \/ overwritten'
          BY <1>3, <1>4, <1>7
      <3>3. ~persistChanged' => state <= durable'.state \/ state <= rejected'
          BY <1>3, <1>6, <3>1
      <3>4. writeQueue'.loops = {}
          BY <2>2 DEF EmptyQueue
      <3> QED
          BY <1>1, <1>2, <1>7, <3>2, <3>3, <3>4 DEF VersionInv, Lost
    <2>8. CoverInv'
        BY <1>9, <1>10, <1>11, <2>3, CoverNext DEF Covered
    <2> QED
        BY <2>5, <2>6, <2>7, <2>8
  <1>13. CASE writeQueue.queuedOp # {}
    <2> PICK n : n = [ops |-> writeQueue.queuedOp, cycle |-> writeQueue.pending]
        OBVIOUS
    <2>1. writeQueue' = [queuedOp |-> {}, pending |-> {}, loops |-> {n}]
        BY <1>1, <1>2, <1>3, <1>13, SettleNext
    <2>2. writeQueue'.loops = {n} /\ writeQueue'.pending = {}
          /\ n.cycle = writeQueue.pending
        BY <2>1
    <2>3. \A v : (InCycle(v))' <=> v \in writeQueue.pending
        BY <2>2 DEF InCycle
    <2>4. persistChanged' = FALSE /\ snapshot'.state = state
        BY <1>1, <1>13 DEF WriteStarts
    <2>5. QueueInv'
        BY <1>1, <1>2, <2>2 DEF QueueInv
    <2>6. WaitInv'
      <3>1. ASSUME NEW r \in Requests, r \in writeQueue.pending
            PROVE  pc'[r] \in {"saving", "wsSaving"}
          BY <1>5, <1>8, <3>1 DEF WaitInv
      <3>2. ASSUME Stopper \in writeQueue.pending PROVE stop' = "flushing"
          BY <1>1, <1>5, <3>2 DEF WaitInv
      <3> QED
          BY <2>2, <2>3, <3>1, <3>2 DEF WaitInv
    <2>7. VersionInv'
      <3>1. (durable'.state <= state \/ overwritten') /\ state <= state
          BY <1>3, <1>4, <1>7
      <3> QED
          BY <1>1, <1>2, <1>7, <2>2, <2>4, <3>1 DEF VersionInv
    <2>8. \A r \in Requests : (Covered(r, need[r]))'
        BY <1>1, <2>2, <2>3, <2>4 DEF CoverInv, Covered
    <2>9. (Covered(Stopper, flushTarget.state))'
        BY <1>1, <2>2, <2>3, <2>4 DEF CoverInv, Covered
    <2>10. CoverInv'
        BY <1>9, <1>10, <1>11, <2>8, <2>9, CoverNext
    <2> QED
        BY <2>5, <2>6, <2>7, <2>10
  <1> QED
      BY <1>12, <1>13

(* A step that leaves the queue, memory, storage and the requests alone     *)
(* preserves the parts of the invariant that are about waiting.             *)
LEMMA QuietStepInv ==
    ASSUME TypeOK, PersistInv,
           UNCHANGED <<phase, state, durable, overwritten, writeQueue, snapshot,
                       pc, need, acked, flushTarget, rejected>>
    PROVE  /\ \A r \in Requests : (Covered(r, need[r]))'
           /\ (Covered(Stopper, flushTarget.state))'
           /\ KeptNext(acked')
           /\ \A r \in Requests :
                   pc'[r] \in {"saved", "wsSaved"} => KeptNext(need'[r])
           /\ \A v : Kept(v) => KeptNext(v)
           /\ stop' = stop => WaitInv' /\ CoverInv'
  <1> USE DEF PersistInv
  <1>1. \A v : (InCycle(v))' <=> InCycle(v)
      BY DEF InCycle
  <1>2. \A v : Kept(v) => KeptNext(v)
      BY DEF Kept, KeptNext, Lost, Live
  <1>3. \A r \in Requests : (Covered(r, need[r]))'
      BY <1>1 DEF CoverInv, Covered
  <1>4. (Covered(Stopper, flushTarget.state))'
      BY <1>1 DEF CoverInv, Covered
  <1>5. stop' = stop => WaitInv'
      BY <1>1 DEF WaitInv
  <1>6. /\ KeptNext(acked')
        /\ \A r \in Requests :
                pc'[r] \in {"saved", "wsSaved"} => KeptNext(need'[r])
      BY <1>2 DEF CoverInv
  <1>7. stop' = stop =>
          /\ stop' \in {"flushed", "done"} => KeptNext(flushTarget'.state)
          /\ stop' \in {"closing", "draining"} =>
                \/ KeptNext(flushTarget'.state)
                \/ writeQueue'.loops # {} /\ flushTarget'.state <= snapshot'.state
      BY <1>2 DEF CoverInv
  <1>8. stop' = stop => CoverInv'
      BY <1>3, <1>4, <1>6, <1>7, CoverNext
  <1> QED
      BY <1>2, <1>3, <1>4, <1>5, <1>6, <1>8

(* The steps of start() and of an instance that goes away. *)
LEMMA StartStepInv ==
    ASSUME TypeOK, PersistInv,
           \/ StartNew \/ StartRestored \/ OnCreateReturns \/ StartReturns
           \/ StartFails \/ \E ok \in BOOLEAN : InitWriteSettles(ok)
    PROVE  PersistInv'
  <1> USE DEF PersistInv, mem, saves, hist, storage
  <1>1. phase \in {"down", "initWrite", "creating", "starting"} /\ phase # "ready"
      BY DEF StartNew, StartRestored, OnCreateReturns, StartReturns, StartFails,
             InitWriteSettles
  <1>2. /\ writeQueue.loops = {} /\ writeQueue = EmptyQueue /\ stop = "no"
        /\ pendingSaveTimeout = "undefined" /\ \A r \in Requests : pc[r] = "idle"
      BY <1>1 DEF QueueInv
  <1>3. UNCHANGED <<persistChanged, pendingSaveTimeout, writeQueue, snapshot, pc,
                    stop, need, flushTarget, leftover>>
      BY DEF StartNew, StartRestored, OnCreateReturns, StartReturns, StartFails,
             InitWriteSettles
  <1>4. QueueInv'
      BY <1>2, <1>3 DEF QueueInv
  <1>5. \A v : v \notin writeQueue'.pending /\ ~(InCycle(v))'
      BY <1>2, <1>3 DEF EmptyQueue, InCycle
  <1>6. WaitInv'
      BY <1>5 DEF WaitInv
  <1>7. state \in Nat /\ durable.state \in Nat /\ acked \in Nat /\ rejected \in Nat
      BY DEF TypeOK
  <1>8. VersionInv' /\ KeptNext(acked')
    <2>1. CASE StartNew
        BY <1>2, <1>3, <1>7, <2>1
        DEF StartNew, VersionInv, Live, Lost, CoverInv, Kept, KeptNext
    <2>2. CASE StartRestored
      <3>1. /\ phase' = "starting" /\ state' = durable.state /\ durable' = durable
            /\ durable.init /\ overwritten' = FALSE /\ rejected' = 0
            /\ acked' <= durable.state
          BY <1>7, <2>2 DEF StartRestored
      <3> QED
          BY <1>2, <1>3, <1>7, <3>1 DEF VersionInv, Live, Lost, KeptNext
    <2>3. CASE OnCreateReturns \/ StartReturns \/ StartFails
      <3>1. /\ UNCHANGED <<state, durable, overwritten, rejected, acked>>
            /\ Live /\ phase' # "initWrite"
          BY <2>3 DEF OnCreateReturns, StartReturns, StartFails, Live
      <3> QED
          BY <1>2, <1>3, <1>7, <3>1 DEF VersionInv, Live, Lost, CoverInv, Kept, KeptNext
    <2>4. ASSUME NEW ok \in BOOLEAN, InitWriteSettles(ok)
          PROVE  VersionInv' /\ KeptNext(acked')
      <3>0. /\ ~durable.init /\ durable.state = 0 /\ leftover = {} /\ ~overwritten
            /\ UNCHANGED <<state, overwritten, rejected, acked>>
          BY <2>4 DEF InitWriteSettles, VersionInv
      <3>1. acked <= rejected \/ acked = 0
          BY <1>7, <3>0 DEF CoverInv, Kept, Lost
      <3>2. CASE ok = TRUE
        <4>1. durable'.state = state /\ durable'.init /\ phase' = "creating"
            BY <2>4, <3>2 DEF InitWriteSettles
        <4> QED
            BY <1>2, <1>3, <1>7, <3>0, <3>1, <4>1 DEF VersionInv, Live, KeptNext
      <3>3. CASE ok = FALSE
        <4>1. durable' = durable /\ phase' = "wedged"
            BY <2>4, <3>3 DEF InitWriteSettles
        <4> QED
            BY <1>2, <1>3, <1>7, <3>0, <3>1, <4>1 DEF VersionInv, Live, KeptNext
      <3> QED
          BY <2>4, <3>2, <3>3
    <2> QED
        BY <2>1, <2>2, <2>3, <2>4
  <1>9. CoverInv'
      BY <1>2, <1>3, <1>5, <1>8, CoverNext DEF Covered
  <1> QED
      BY <1>4, <1>6, <1>8, <1>9

(* The steps of _sleep and _stop other than the flush. *)
LEMMA StopStepInv ==
    ASSUME TypeOK, PersistInv,
           \/ SleepCalled \/ StopCalled \/ StopFlushReturns \/ StopDrains
    PROVE  PersistInv'
  <1> USE DEF PersistInv, mem, saves, hist, storage
  <1>1. UNCHANGED <<phase, state, durable, overwritten, leftover, persistChanged,
                    pendingSaveTimeout, writeQueue, snapshot, pc, need, acked,
                    flushTarget, rejected>>
      BY DEF SleepCalled, StopCalled, StopFlushReturns, StopDrains
  <1>2. stop # "flushing" /\ stop' # "flushing" /\ (stop # "no" \/ phase = "ready")
      BY DEF SleepCalled, StopCalled, StopFlushReturns, StopDrains
  <1>3. phase = "ready"
      BY <1>2 DEF QueueInv
  <1>4. QueueInv'
      BY <1>1, <1>3 DEF QueueInv
  <1>5. \A v : (InCycle(v))' <=> InCycle(v)
      BY <1>1 DEF InCycle
  <1>6. WaitInv'
      BY <1>1, <1>2, <1>5 DEF WaitInv
  <1>7. VersionInv'
      BY <1>1 DEF VersionInv, Live, Lost
  <1>8. /\ stop' \in {"flushed", "done"} => Kept(flushTarget.state)
        /\ stop' \in {"closing", "draining"} =>
              \/ Kept(flushTarget.state)
              \/ writeQueue.loops # {} /\ flushTarget.state <= snapshot.state
    <2>1. CASE SleepCalled \/ StopCalled
        BY <2>1 DEF SleepCalled, StopCalled
    <2>2. CASE StopFlushReturns
        BY <2>2 DEF StopFlushReturns, CoverInv
    <2>3. CASE StopDrains
        BY <2>3 DEF StopDrains, RunningDrainLoop, CoverInv
    <2> QED
        BY <2>1, <2>2, <2>3
  <1>9. CoverInv'
      BY <1>1, <1>8, QuietStepInv, CoverNext
  <1> QED
      BY <1>4, <1>6, <1>7, <1>9

(* The flush of _stop: a save by _stop, or nothing left to save, in which   *)
(* case the newest version is stored or being written.                      *)
LEMMA StopFlushesInv ==
    ASSUME TypeOK, PersistInv, StopFlushes
    PROVE  PersistInv'
  <1> USE DEF PersistInv, mem, storage
  <1>1. /\ phase = "ready" /\ stop = "hooks" /\ flushTarget'.state = state
        /\ UNCHANGED <<phase, state, storage, pc, need, acked, rejected>>
      BY DEF StopFlushes, QueueInv
  <1>2. Stopper \in Waiters /\ Stopper \notin Requests
      BY PersistAssumption DEF Waiters
  <1>3. CASE persistChanged
    <2>1. SaveEffect(Stopper) /\ stop' = "flushing"
        BY <1>1, <1>3, SavePersistInnerEffect DEF StopFlushes
    <2> QED
        BY <1>1, <1>2, <2>1, SaveStepInv DEF Saved
  <1>4. CASE ~persistChanged
    <2>1. stop' = "closing" /\ UNCHANGED <<persistChanged, writeQueue, snapshot>>
        BY <1>4 DEF StopFlushes
    <2>2. \A v : (InCycle(v))' <=> InCycle(v)
        BY <2>1 DEF InCycle
    <2>3. Stopper \notin writeQueue.pending /\ ~InCycle(Stopper)
        BY <1>1 DEF WaitInv
    <2>4. QueueInv'
        BY <1>1, <2>1 DEF QueueInv
    <2>5. WaitInv'
        BY <1>1, <2>1, <2>2, <2>3 DEF WaitInv
    <2>6. VersionInv'
        BY <1>1, <2>1 DEF VersionInv, Live, Lost
    <2>7. \/ KeptNext(state)
          \/ writeQueue'.loops # {} /\ state <= snapshot'.state
      <3>1. state \in Nat /\ state <= state
          BY DEF TypeOK
      <3>2. IF writeQueue.loops # {} THEN state = snapshot.state
            ELSE state <= durable.state \/ state <= rejected \/ overwritten
          BY <1>1, <1>4 DEF VersionInv, Live, Lost
      <3> QED
          BY <1>1, <2>1, <3>1, <3>2 DEF KeptNext
    <2>8. CoverInv'
      <3>1. \A r \in Requests : (Covered(r, need[r]))'
          BY <1>1, <2>1, <2>2 DEF CoverInv, Covered
      <3>2. (Covered(Stopper, flushTarget.state))'
          BY <2>1, <2>2, <2>3 DEF Covered
      <3>3. \A v : Kept(v) => KeptNext(v)
          BY <1>1, <2>1 DEF Kept, KeptNext, Lost, Live
      <3>4. /\ KeptNext(acked')
            /\ \A r \in Requests :
                    pc'[r] \in {"saved", "wsSaved"} => KeptNext(need'[r])
          BY <1>1, <3>3 DEF CoverInv
      <3> QED
          BY <1>1, <2>1, <2>7, <3>1, <3>2, <3>4, CoverNext
    <2> QED
        BY <2>4, <2>5, <2>6, <2>8
  <1> QED
      BY <1>3, <1>4

(* When the instance goes away only storage and what is known about it      *)
(* remain; a write under way at a crash counts or does not.                 *)
LEMMA InstanceGoneInv ==
    ASSUME TypeOK, PersistInv, InstanceGone,
           acked <= rejected \/ acked <= durable'.state \/ overwritten',
           ~durable'.init => durable'.state = 0 /\ leftover' = {} /\ ~overwritten'
    PROVE  PersistInv'
  <1> USE DEF PersistInv
  <1>1. /\ phase' = "down" /\ writeQueue' = EmptyQueue /\ stop' = "no"
        /\ pendingSaveTimeout' = "undefined"
        /\ \A r \in Requests : pc'[r] = "idle"
        /\ acked' = acked /\ rejected' = rejected
      BY DEF InstanceGone
  <1>2. writeQueue'.loops = {} /\ writeQueue'.pending = {}
      BY <1>1 DEF EmptyQueue
  <1>3. \A v : v \notin writeQueue'.pending /\ ~(InCycle(v))'
      BY <1>2 DEF InCycle
  <1>4. QueueInv'
      BY <1>1, <1>2 DEF QueueInv
  <1>5. WaitInv'
      BY <1>3 DEF WaitInv
  <1>6. VersionInv'
      BY <1>1, <1>2 DEF VersionInv, Live
  <1>7. KeptNext(acked')
      BY <1>1, <1>2 DEF KeptNext, Live
  <1>8. CoverInv'
      BY <1>1, <1>3, <1>7, CoverNext DEF Covered
  <1> QED
      BY <1>4, <1>5, <1>6, <1>8

(* What an acknowledged save asked for is in storage when the instance goes *)
(* away, or lost in one of the two ways there are.                          *)
LEMMA AckedAtTheEnd ==
    ASSUME TypeOK, PersistInv
    PROVE  /\ acked <= rejected \/ acked <= durable.state \/ overwritten
           /\ writeQueue.loops # {} => acked <= rejected \/ acked <= snapshot.state
  BY DEF TypeOK, PersistInv, CoverInv, Kept, Lost

(* What a crash leaves in storage: what was there, or the write under way.  *)
LEMMA CrashKeepsStorage ==
    ASSUME TypeOK, PersistInv, Crash
    PROVE  /\ acked <= rejected \/ acked <= durable'.state \/ overwritten'
           /\ ~durable'.init => durable'.state = 0 /\ leftover' = {} /\ ~overwritten'
           /\ durable.state <= durable'.state \/ overwritten
  <1>0. /\ state \in Nat /\ durable.state \in Nat /\ snapshot.state \in Nat
        /\ acked \in Nat /\ rejected \in Nat /\ leftover' = {}
      BY DEF TypeOK, Crash
  <1>1. CASE UNCHANGED <<durable, overwritten>>
      BY <1>0, <1>1, AckedAtTheEnd DEF PersistInv, VersionInv
  <1>2. CASE /\ phase = "initWrite"
             /\ durable' = [init |-> TRUE, state |-> state, aux |-> aux]
    <2>1. durable.state = 0 /\ durable'.state = state /\ durable'.init /\ ~overwritten
        BY <1>2 DEF PersistInv, VersionInv
    <2> QED
        BY <1>0, <2>1, AckedAtTheEnd
  <1>3. CASE /\ RunningDrainLoop(writeQueue)
             /\ durable' = [init |-> TRUE, state |-> snapshot.state,
                            aux |-> snapshot.aux]
    <2>1. /\ durable.state <= snapshot.state \/ overwritten
          /\ durable'.state = snapshot.state
          /\ durable'.init /\ writeQueue.loops # {}
        BY <1>3 DEF PersistInv, VersionInv, RunningDrainLoop
    <2> QED
        BY <1>0, <2>1, AckedAtTheEnd
  <1> QED
      BY <1>1, <1>2, <1>3 DEF Crash

(* A dropped instance that changes or writes its data leaves the running    *)
(* one alone: only what is stored is no longer what was stored.             *)
LEMMA LateStepInv ==
    ASSUME TypeOK, PersistInv, LateChange \/ LateWrite
    PROVE  PersistInv'
  <1> USE DEF PersistInv, mem, saves, hist
  <1>1. /\ UNCHANGED <<phase, state, persistChanged, pendingSaveTimeout, writeQueue,
                       snapshot, pc, stop, need, acked, flushTarget, rejected>>
        /\ leftover # {}
      BY DEF LateChange, LateWrite
  <1>2. QueueInv'
      BY <1>1 DEF QueueInv
  <1>3. \A v : (InCycle(v))' <=> InCycle(v)
      BY <1>1 DEF InCycle
  <1>4. WaitInv'
      BY <1>1, <1>3 DEF WaitInv
  <1>5. \/ UNCHANGED <<durable, overwritten>>
        \/ durable'.init /\ overwritten'
      BY DEF LateChange, LateWrite
  <1>6. VersionInv'
      BY <1>1, <1>5 DEF VersionInv, Live, Lost
  <1>7. \A v : Kept(v) => KeptNext(v)
      BY <1>1, <1>5 DEF Kept, KeptNext, Lost, Live
  <1>8. /\ \A r \in Requests : (Covered(r, need[r]))'
        /\ (Covered(Stopper, flushTarget.state))'
      BY <1>1, <1>3 DEF CoverInv, Covered
  <1>9. /\ KeptNext(acked')
        /\ \A r \in Requests :
                pc'[r] \in {"saved", "wsSaved"} => KeptNext(need'[r])
        /\ stop' \in {"flushed", "done"} => KeptNext(flushTarget'.state)
        /\ stop' \in {"closing", "draining"} =>
              \/ KeptNext(flushTarget'.state)
              \/ writeQueue'.loops # {} /\ flushTarget'.state <= snapshot'.state
      BY <1>1, <1>7 DEF CoverInv
  <1>10. CoverInv'
      BY <1>8, <1>9, CoverNext
  <1> QED
      BY <1>2, <1>4, <1>6, <1>10

(* Every step preserves the invariant. *)
LEMMA PersistInvStep == TypeOK /\ PersistInv /\ [Next]_vars => PersistInv'
  <1> SUFFICES ASSUME TypeOK, PersistInv, [Next]_vars PROVE PersistInv'
      OBVIOUS
  <1> USE DEF mem, saves, hist, storage
  <1>0. /\ Unawaited \in Waiters /\ Unawaited \notin Requests /\ Unawaited # Stopper
        /\ QueueInv
      BY PersistAssumption DEF Waiters, Unawaited, Stopper, PersistInv
  <1>1. ASSUME NEW r \in Requests, RequestStep(r) PROVE PersistInv'
      BY <1>1, RequestStepInv
  <1>2. CASE \/ StartNew \/ StartRestored \/ OnCreateReturns \/ StartReturns
             \/ StartFails \/ \E ok \in BOOLEAN : InitWriteSettles(ok)
      BY <1>2, StartStepInv
  <1>3. CASE DetachedChange
    <2>1. /\ Live /\ StateChanges
          /\ UNCHANGED <<phase, storage, rejected, writeQueue, snapshot, stop,
                         flushTarget, acked, pendingSaveTimeout, pc, need>>
        BY <1>3 DEF DetachedChange, Live
    <2> QED
        BY <2>1, StateChangesInv
  <1>4. ASSUME NEW andSave \in BOOLEAN, AuxChange(andSave) PROVE PersistInv'
    <2>1. /\ phase = "ready"
          /\ UNCHANGED <<phase, state, storage, rejected, pc, need, acked, stop,
                         flushTarget>>
        BY <1>4 DEF AuxChange
    <2>2. SaveEffect(Unawaited)
      <3>1. CASE andSave /\ persistChanged
          BY <1>0, <1>4, <2>1, <3>1, SavePersistInnerEffect DEF AuxChange
      <3>2. CASE ~(andSave /\ persistChanged)
          BY <1>4, <3>2 DEF AuxChange, SaveEffect
      <3> QED
          BY <3>1, <3>2
    <2> QED
        BY <1>0, <2>1, <2>2, SaveStepInv DEF Saved
  <1>5. CASE SaveTimeoutFires
    <2>1. /\ phase = "ready"
          /\ UNCHANGED <<phase, state, storage, rejected, pc, need, acked, stop,
                         flushTarget>>
        BY <1>0, <1>5 DEF SaveTimeoutFires, QueueInv
    <2>2. SaveEffect(Unawaited)
        BY <1>0, <1>5, <2>1, SavePersistInnerEffect DEF SaveTimeoutFires
    <2> QED
        BY <1>0, <2>1, <2>2, SaveStepInv DEF Saved
  <1>6. ASSUME NEW ok \in BOOLEAN, WriteSettles(ok) PROVE PersistInv'
      BY <1>6, WriteSettlesInv
  <1>7. CASE WindowElapses \/ UnawaitedSaveResumes \/ UNCHANGED vars
    <2>1. UNCHANGED <<phase, state, storage, persistChanged, pendingSaveTimeout,
                      writeQueue, snapshot, pc, stop, need, acked, flushTarget,
                      rejected>>
        BY <1>7 DEF WindowElapses, UnawaitedSaveResumes, vars
    <2>2. QueueInv'
        BY <1>0, <2>1 DEF QueueInv
    <2>3. VersionInv'
        BY <2>1 DEF VersionInv, Live, Lost, PersistInv
    <2> QED
        BY <2>1, <2>2, <2>3, QuietStepInv DEF PersistInv
  <1>8. CASE SleepCalled \/ StopCalled \/ StopFlushReturns \/ StopDrains
      BY <1>8, StopStepInv
  <1>9. CASE StopFlushes
      BY <1>9, StopFlushesInv
  <1>10. CASE Released
    <2>1. UNCHANGED <<durable, overwritten>> /\ InstanceGone /\ stop = "done"
        BY <1>10 DEF Released
    <2>2. durable.init
        BY <1>0, <2>1 DEF PersistInv, VersionInv, QueueInv, Live
    <2> QED
        BY <2>1, <2>2, AckedAtTheEnd, InstanceGoneInv
  <1>11. CASE Crash
      BY <1>11, CrashKeepsStorage, InstanceGoneInv DEF Crash
  <1>12. CASE LateChange \/ LateWrite
      BY <1>12, LateStepInv
  <1> QED
      BY <1>1, <1>2, <1>3, <1>4, <1>5, <1>6, <1>7, <1>8, <1>9, <1>10, <1>11, <1>12
      DEF Next

(* The inductive invariant holds in every reachable state. *)
THEOREM PersistInvariant == Spec => [](TypeOK /\ PersistInv)
  <1>1. Init => PersistInv
    <2> SUFFICES ASSUME Init PROVE PersistInv
        OBVIOUS
    <2>1. writeQueue = EmptyQueue /\ writeQueue.loops = {} /\ writeQueue.pending = {}
        BY DEF Init, EmptyQueue
    <2>2. \A v : ~InCycle(v)
        BY <2>1 DEF InCycle
    <2>3. QueueInv /\ WaitInv
        BY <2>1, <2>2 DEF Init, QueueInv, WaitInv
    <2>4. VersionInv
        BY <2>1 DEF Init, VersionInv, Live, Lost
    <2>5. CoverInv
        BY <2>1, <2>2 DEF Init, CoverInv, Covered, Kept, Lost
    <2> QED
        BY <2>3, <2>4, <2>5 DEF PersistInv
  <1> QED
      BY <1>1, PersistTypeOK, PersistInvStep, PTL DEF Spec

(* writePersistedData is never called in parallel with itself, whatever     *)
(* requests, timers, _stop and #initialize do: the promise of               *)
(* actor/driver.ts to the drivers.                                          *)
THEOREM WritesNeverOverlap == Spec => []NoOverlappingWrites
  <1>1. PersistInv => NoOverlappingWrites
      BY DEF PersistInv, QueueInv, NoOverlappingWrites
  <1> QED
      BY <1>1, PersistInvariant, PTL

(* A saveState({ immediate: true }) that awaited its cycle has stored what  *)
(* it was called for, and no later write of this or the next instance, no   *)
(* stop, crash or restart takes it back: only the write of an instance the  *)
(* driver had dropped does, or a write that was rejected lost it.           *)
THEOREM AckedSavesSurvive == Spec => []AckedSavesAreDurable
  <1>1. PersistInv => AckedSavesAreDurable
      BY DEF PersistInv, CoverInv, Kept, AckedSavesAreDurable
  <1> QED
      BY <1>1, PersistInvariant, PTL

(* _stop returns only when everything changed before its flush is stored,   *)
(* or lost in one of these two ways.                                        *)
THEOREM StopIsDurable == Spec => []StopFlushesState
  <1>1. PersistInv => StopFlushesState
      BY DEF PersistInv, CoverInv, Kept, StopFlushesState
  <1> QED
      BY <1>1, PersistInvariant, PTL

(* No write of a running instance makes storage older, unless what it        *)
(* replaces was written by a dropped one; nor does a crash in the middle of  *)
(* a write, or a restart.                                                    *)
THEOREM StorageNeverRegresses == Spec => DurableNeverRegresses
  <1>1. TypeOK /\ PersistInv /\ [Next]_vars =>
            (durable'.state < durable.state => overwritten \/ overwritten')
    <2> SUFFICES ASSUME TypeOK, PersistInv, [Next]_vars, ~overwritten, ~overwritten'
                 PROVE  durable.state <= durable'.state /\ durable'.state \in Nat
        BY DEF TypeOK
    <2> USE DEF storage
    <2>0. /\ durable.state \in Nat /\ state \in Nat /\ snapshot.state \in Nat
          /\ durable'.state \in Nat
        BY TypeStep DEF TypeOK
    <2>1. ASSUME NEW ok \in BOOLEAN, WriteSettles(ok)
          PROVE  durable.state <= durable'.state
      <3>1. writeQueue.loops # {} /\
            (durable' = durable \/ durable'.state = snapshot.state)
          BY <2>1 DEF WriteSettles
      <3> QED
          BY <2>0, <3>1 DEF PersistInv, VersionInv
    <2>2. ASSUME NEW ok \in BOOLEAN, InitWriteSettles(ok)
          PROVE  durable.state <= durable'.state
      <3>1. durable.state = 0 /\ (durable' = durable \/ durable'.state = state)
          BY <2>2 DEF InitWriteSettles, PersistInv, VersionInv
      <3> QED
          BY <2>0, <3>1
    <2>3. CASE Crash
        BY <2>0, <2>3, CrashKeepsStorage
    <2>4. ASSUME NEW r \in Requests, RequestStep(r) PROVE durable' = durable
        BY <2>4 DEF RequestStep, BeginAction, RequestChangesState,
           SaveStateImmediate, SaveStateReturns, SaveStateThrottled,
           PersistSavedPromiseReturns, ActionEnds, BeginWebSocket,
           WebSocketHandlerReturns, WebSocketEnds
    <2>5. CASE \/ StartNew \/ StartRestored \/ OnCreateReturns \/ StartReturns
               \/ StartFails \/ DetachedChange \/ WindowElapses
               \/ SaveTimeoutFires \/ UnawaitedSaveResumes \/ SleepCalled
               \/ StopCalled \/ StopFlushes \/ StopFlushReturns \/ StopDrains
               \/ Released \/ LateChange \/ UNCHANGED vars
               \/ \E andSave \in BOOLEAN : AuxChange(andSave)
      <3>1. durable' = durable
          BY <2>5 DEF StartNew, StartRestored, OnCreateReturns, StartReturns,
             StartFails, DetachedChange, WindowElapses, SaveTimeoutFires,
             UnawaitedSaveResumes, SleepCalled, StopCalled, StopFlushes,
             StopFlushReturns, StopDrains, Released, LateChange, AuxChange, vars
      <3> QED
          BY <2>0, <3>1
    <2>6. ~LateWrite
        BY DEF LateWrite
    <2> QED
        BY <2>0, <2>1, <2>2, <2>3, <2>4, <2>5, <2>6 DEF Next
  <1>2. TypeOK /\ PersistInv /\ [Next]_vars =>
            [durable'.state < durable.state => overwritten \/ overwritten']_vars
      BY <1>1
  <1> QED
      BY <1>2, PersistInvariant, PTL DEF Spec, DurableNeverRegresses

=============================================================================
