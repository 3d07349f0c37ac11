---------------------- MODULE SinglePromiseQueueProofs ----------------------
(***************************************************************************)
(* Proofs about SinglePromiseQueue for any number of calls: its safety     *)
(* invariants, and that its steps are steps of CoalescedExecution.         *)
(***************************************************************************)
EXTENDS SinglePromiseQueue, TLAPS

(* The type invariant and the inductive invariant hold initially: the      *)
(* constructor leaves all three fields of the class undefined.             *)
LEMMA QueueInitInv == Init => TypeOK /\ IInv
  <1> SUFFICES ASSUME Init PROVE TypeOK /\ IInv
      OBVIOUS
  <1> USE MaxCallsAssumption DEF Init, EmptyQueue
  <1>1. TypeOK
      BY DEF TypeOK, Queues, Loops, Calls
  <1>2. IInv
      BY DEF IInv, AtMostOneRunning, IdleInv
  <1> QED
      BY <1>1, <1>2

(* A call of enqueue preserves both invariants: it starts the loop when     *)
(* none runs, and otherwise replaces the queued operation and joins the     *)
(* pending cycle.                                                           *)
LEMMA EnqueuePreservesInv ==
    ASSUME TypeOK, IInv, Enqueue
    PROVE  TypeOK' /\ IInv'
  <1> USE MaxCallsAssumption DEF Calls
  <1>0. issued \in Nat
      BY DEF TypeOK
  <1>. PICK k \in Nat : k = issued + 1
      BY <1>0
  <1>1. /\ issued \in Nat /\ issued < MaxCalls /\ k = issued + 1 /\ k \in Calls
        /\ issued' = k /\ resolved' = resolved /\ settled' = settled
        /\ queue' = EnqueueOp(queue, k, k)
      BY <1>0 DEF Enqueue, TypeOK
  <1>2. queue \in Queues(Calls, Calls)
      BY DEF TypeOK
  <1>3. CASE queue.loops = {}
    <2>1. queue = EmptyQueue /\ (issued = 0 \/ issued \in settled)
        BY <1>3 DEF IInv, IdleInv
    <2> PICK l : l = [ops |-> {k}, cycle |-> {k}]
        OBVIOUS
    <2>2. queue' = [queuedOp |-> {}, pending |-> {}, loops |-> {l}]
        BY <1>1, <2>1 DEF EnqueueOp, RunningDrainLoop, StartCycle, Join, EmptyQueue
    <2>3. l \in Loops(Calls, Calls)
        BY <1>1 DEF Loops
    <2>4. TypeOK'
      <3>1. queue' \in Queues(Calls, Calls)
          BY <2>2, <2>3 DEF Queues
      <3>2. \A o1, o2 \in queue'.queuedOp : o1 = o2
          BY <2>2
      <3>3. issued' \in 0 .. MaxCalls
          BY <1>1
      <3>4. resolved' \subseteq Calls /\ settled' \subseteq Calls
          BY <1>1 DEF TypeOK
      <3> QED
          BY <3>1, <3>2, <3>3, <3>4 DEF TypeOK
    <2>5. (LoopInv(l, k))'
      <3>1. \A c \in 1 .. k : c \notin resolved <=> c = k
          BY <1>1, <2>1 DEF IInv, TypeOK
      <3>2. {c \in 1 .. k : c \notin resolved} = {k}
          BY <1>1, <3>1
      <3>3. \A p \in settled : p < k
          BY <1>1 DEF IInv, TypeOK
      <3>4. queue'.pending = {c \in 1 .. k : k < c}
          BY <2>2
      <3>5. queue'.queuedOp = IF k < issued' THEN {issued'} ELSE {}
        <4>1. ~(k < issued')
            BY <1>1
        <4>2. queue'.queuedOp = {}
            BY <2>2
        <4> QED
            BY <4>1, <4>2
      <3>6. l.ops = {k} /\ l.cycle = {c \in 1 .. k : c \notin resolved'}
          BY <1>1, <3>2
      <3>7. \A p \in settled' : p < k
          BY <1>1, <3>3
      <3> QED
          BY <1>1, <3>4, <3>5, <3>6, <3>7 DEF LoopInv
    <2>6. IInv'
      <3>1. l \in queue'.loops /\ \A m \in queue'.loops : m = l
          BY <2>2
      <3>2. AtMostOneRunning'
          BY <3>1 DEF AtMostOneRunning
      <3>3. \A m \in queue'.loops : \E o \in 1 .. issued' : (LoopInv(m, o))'
          BY <1>1, <2>5, <3>1
      <3>4. \A p \in settled' : p <= issued'
          BY <1>1 DEF IInv, TypeOK
      <3> QED
          BY <1>1, <3>1, <3>2, <3>3, <3>4 DEF IInv
    <2> QED
        BY <2>4, <2>6
  <1>4. CASE queue.loops # {}
    <2>1. queue' = [queuedOp |-> {k},
                    pending  |-> queue.pending \union {k},
                    loops    |-> queue.loops]
        BY <1>1, <1>2, <1>4 DEF EnqueueOp, RunningDrainLoop, Join, Queues
    <2>2. TypeOK'
        BY <1>1, <1>2, <2>1 DEF TypeOK, Queues
    <2>3. ASSUME NEW l \in queue.loops
          PROVE  \E o \in 1 .. k : (LoopInv(l, o))'
      <3>1. PICK o \in 1 .. issued : LoopInv(l, o)
          BY <1>4 DEF IInv
      <3>2. o < k /\ o \in 1 .. k
          BY <1>1, <3>1
      <3>3. queue.pending \union {k} = {c \in 1 .. k : o < c}
          BY <1>1, <3>1, <3>2 DEF LoopInv
      <3>4. (LoopInv(l, o))'
          BY <1>1, <2>1, <3>1, <3>2, <3>3 DEF LoopInv
      <3> QED
          BY <3>2, <3>4
    <2>4. IInv'
        BY <1>1, <1>4, <2>1, <2>3 DEF IInv, AtMostOneRunning, TypeOK
    <2> QED
        BY <2>2, <2>4
  <1> QED
      BY <1>3, <1>4

(* The end of an operation preserves both invariants: its cycle is          *)
(* answered, and the loop takes the queued operation with everyone who      *)
(* waits for it, or ends with nobody waiting.                               *)
LEMMA OpSettlesPreservesInv ==
    ASSUME TypeOK, IInv, OpSettles
    PROVE  TypeOK' /\ IInv'
  <1> USE MaxCallsAssumption DEF Calls
  <1>1. PICK l \in queue.loops :
            /\ queue' = SettleOp(queue, l)
            /\ resolved' = resolved \union l.cycle
            /\ settled' = settled \union l.ops
            /\ issued' = issued
      BY DEF OpSettles
  <1>2. issued \in Nat /\ issued <= MaxCalls /\ queue \in Queues(Calls, Calls)
      BY DEF TypeOK
  <1>3. PICK o \in 1 .. issued : LoopInv(l, o)
      BY DEF IInv
  <1>4. o \in Calls /\ l.ops = {o}
      BY <1>2, <1>3 DEF LoopInv
  <1>5. \A p \in settled' : p \in Calls /\ p <= o /\ p <= issued'
      BY <1>1, <1>2, <1>3 DEF LoopInv, TypeOK
  <1>6. o \in settled'
      BY <1>1, <1>4
  <1>7. resolved' = {c \in Calls : c <= o}
    <2>1. ASSUME NEW c \in resolved' PROVE c \in Calls /\ c <= o
      <3>1. CASE c \in resolved
          BY <1>3, <3>1 DEF IInv, LoopInv, TypeOK
      <3>2. CASE c \in l.cycle
          BY <1>2, <1>3, <3>2 DEF LoopInv
      <3> QED
          BY <1>1, <2>1, <3>1, <3>2
    <2>2. ASSUME NEW c \in Calls, c <= o PROVE c \in resolved'
        BY <1>1, <1>2, <1>3, <2>2 DEF LoopInv
    <2> QED
        BY <2>1, <2>2
  <1>8. resolved' = {c \in Calls : \E p \in settled' : c <= p}
      BY <1>4, <1>5, <1>6, <1>7
  <1>9. queue.loops \ {l} = {}
      BY DEF IInv, AtMostOneRunning
  <1>10. \E m \in settled' : \A p \in settled' : p <= m
      BY <1>5, <1>6
  <1>11. CASE o = issued
    <2>1. queue.queuedOp = {} /\ queue.pending = {}
        BY <1>2, <1>3, <1>11 DEF LoopInv
    <2>2. queue' = EmptyQueue
        BY <1>1, <1>2, <1>9, <2>1 DEF SettleOp, EmptyQueue, Queues
    <2>3. TypeOK'
      <3>1. queue' \in Queues(Calls, Calls)
          BY <2>2 DEF EmptyQueue, Queues
      <3>2. \A o1, o2 \in queue'.queuedOp : o1 = o2
          BY <2>2 DEF EmptyQueue
      <3> QED
          BY <1>1, <1>2, <1>5, <1>7, <3>1, <3>2 DEF TypeOK
    <2>4. IInv'
        BY <1>1, <1>5, <1>6, <1>8, <1>10, <1>11, <2>2
        DEF IInv, IdleInv, EmptyQueue, AtMostOneRunning
    <2> QED
        BY <2>3, <2>4
  <1>12. CASE o # issued
    <2>1. o < issued
        BY <1>2, <1>12
    <2>2. queue.queuedOp = {issued} /\ queue.pending = {c \in 1 .. issued : o < c}
        BY <1>3, <2>1 DEF LoopInv
    <2> PICK n : n = [ops |-> {issued}, cycle |-> queue.pending]
        OBVIOUS
    <2>3. queue' = [queuedOp |-> {}, pending |-> {}, loops |-> {n}]
        BY <1>1, <1>2, <1>9, <2>2 DEF SettleOp, StartCycle, Queues
    <2>4. n \in Loops(Calls, Calls)
        BY <1>2, <2>1, <2>2 DEF Loops
    <2>5. TypeOK'
      <3>1. queue' \in Queues(Calls, Calls)
          BY <2>3, <2>4 DEF Queues
      <3>2. \A o1, o2 \in queue'.queuedOp : o1 = o2
          BY <2>3
      <3> QED
          BY <1>1, <1>2, <1>5, <1>7, <3>1, <3>2 DEF TypeOK
    <2>6. (LoopInv(n, issued))'
      <3>1. n.cycle = {c \in 1 .. issued : c \notin resolved'}
          BY <1>2, <1>7, <2>1, <2>2
      <3>2. n.ops = {issued} /\ \A p \in settled' : p < issued
          BY <1>2, <1>5, <2>1
      <3>3. queue'.pending = {c \in 1 .. issued : issued < c}
          BY <1>2, <2>3
      <3>4. queue'.queuedOp = IF issued < issued THEN {issued} ELSE {}
          BY <1>2, <2>3
      <3> QED
          BY <1>1, <3>1, <3>2, <3>3, <3>4 DEF LoopInv
    <2>7. IInv'
      <3>1. n \in queue'.loops /\ \A m \in queue'.loops : m = n
          BY <2>3
      <3>2. AtMostOneRunning'
          BY <3>1 DEF AtMostOneRunning
      <3>3. issued \in 1 .. issued'
          BY <1>1, <1>2, <2>1
      <3>4. \A m \in queue'.loops : \E p \in 1 .. issued' : (LoopInv(m, p))'
          BY <1>1, <2>6, <3>1, <3>3
      <3> QED
          BY <1>5, <1>8, <1>10, <3>1, <3>2, <3>4 DEF IInv
    <2> QED
        BY <2>5, <2>7
  <1> QED
      BY <1>11, <1>12

(* The invariants hold in every state the queue can reach, whatever the     *)
(* number of calls and whenever they are made.                              *)
THEOREM QueueInvariant == Spec => [](TypeOK /\ IInv)
  <1>1. Init => TypeOK /\ IInv
      BY QueueInitInv
  <1>2. TypeOK /\ IInv /\ [Next]_vars => (TypeOK /\ IInv)'
    <2> SUFFICES ASSUME TypeOK, IInv, [Next]_vars PROVE (TypeOK /\ IInv)'
        OBVIOUS
    <2>1. CASE Enqueue
        BY <2>1, EnqueuePreservesInv
    <2>2. CASE OpSettles
        BY <2>2, OpSettlesPreservesInv
    <2>3. CASE UNCHANGED vars
      <3>1. queue' = queue /\ issued' = issued
            /\ resolved' = resolved /\ settled' = settled
          BY <2>3 DEF vars
      <3>2. TypeOK'
          BY <3>1 DEF TypeOK
      <3>3. IInv'
          BY <3>1, Zenon DEF IInv, AtMostOneRunning, IdleInv, LoopInv
      <3> QED
          BY <3>2, <3>3
    <2> QED
        BY <2>1, <2>2, <2>3 DEF Next
  <1> QED
      BY <1>1, <1>2, PTL DEF Spec

(* The fields of the queue keep their types, for any number of calls. *)
THEOREM QueueTypeCorrect == Spec => []TypeOK
  BY QueueInvariant, PTL

(* Operations never overlap: the driver's writePersistedData and setAlarm   *)
(* are called one at a time.                                                *)
THEOREM OneOperationAtATime == Spec => []AtMostOneRunning
  <1>1. IInv => AtMostOneRunning
      BY DEF IInv
  <1> QED
      BY <1>1, QueueInvariant, PTL

(* An answer always follows a complete run of an operation at least as      *)
(* recent as the call, never the end of one that was already running.       *)
THEOREM AnswersAreCovered == Spec => []ResolvedWasCovered
  <1>1. TypeOK /\ IInv => ResolvedWasCovered
      BY MaxCallsAssumption DEF IInv, TypeOK, ResolvedWasCovered, Calls
  <1> QED
      BY <1>1, QueueInvariant, PTL

(* The operation that runs, or the one that is queued, answers each caller. *)
LEMMA InvServesCallers ==
    ASSUME TypeOK, IInv
    PROVE  NoCallerForgotten
  <1> SUFFICES ASSUME NEW c \in 1 .. issued, c \notin resolved
               PROVE  \/ \E l \in queue.loops : c \in l.cycle
                      \/ /\ c \in queue.pending
                         /\ queue.queuedOp # {}
                         /\ RunningDrainLoop(queue)
      BY DEF NoCallerForgotten
  <1>1. issued \in Nat /\ c \in Calls
      BY MaxCallsAssumption DEF TypeOK, Calls
  <1>2. queue.loops # {}
      BY <1>1 DEF IInv, IdleInv
  <1>3. PICK l \in queue.loops : TRUE
      BY <1>2
  <1>4. PICK o \in 1 .. issued : LoopInv(l, o)
      BY <1>2 DEF IInv
  <1>5. CASE c <= o
      BY <1>1, <1>4, <1>5 DEF LoopInv
  <1>6. CASE o < c
    <2>1. c \in queue.pending
        BY <1>4, <1>6 DEF LoopInv
    <2>2. o < issued
        BY <1>1, <1>4, <1>6
    <2>3. queue.queuedOp = {issued}
        BY <1>4, <2>2 DEF LoopInv
    <2> QED
        BY <1>2, <2>1, <2>3 DEF RunningDrainLoop
  <1> QED
      BY <1>1, <1>5, <1>6

(* Nobody waits for an operation that will not be run: whoever has no       *)
(* answer is in the running cycle, or in the pending one of a running loop. *)
THEOREM CallersAreServed == Spec => []NoCallerForgotten
  <1>1. TypeOK /\ IInv => NoCallerForgotten
      BY InvServesCallers
  <1> QED
      BY <1>1, QueueInvariant, PTL

(* What the refinement mapping yields for a queue with one loop and for a   *)
(* set of settled operations with a greatest element.                       *)
LEMMA ExecutingOfOne ==
    ASSUME NEW q, NEW l, NEW o \in Calls, q.loops = {l}, l.ops = {o}
    PROVE  ExecutingOf(q) = o
  <1>1. \A p \in Calls : (\E m \in q.loops : p \in m.ops) <=> p = o
      OBVIOUS
  <1> QED
      BY <1>1 DEF ExecutingOf

LEMMA LastOfGreatest ==
    ASSUME NEW ops \in SUBSET Nat, NEW o \in ops, \A p \in ops : p <= o
    PROVE  LastOf(ops) = o
  <1>1. \A p \in ops : (\A r \in ops : r <= p) <=> p = o
      OBVIOUS
  <1> QED
      BY <1>1 DEF LastOf

(* The state of CoalescedExecution that a state of the queue stands for. *)
LEMMA MappedLoop ==
    ASSUME TypeOK, IInv, NEW l \in queue.loops, NEW o \in 1 .. issued, LoopInv(l, o)
    PROVE  /\ queue.loops = {l}
           /\ o \in Calls /\ o # 0
           /\ ExecutingOf(queue) = o
  <1>1. queue.loops = {l}
      BY DEF IInv, AtMostOneRunning
  <1>2. o \in Calls /\ o # 0
      BY MaxCallsAssumption DEF TypeOK, Calls
  <1> QED
      BY <1>1, <1>2, ExecutingOfOne DEF LoopInv

(* A call of enqueue is a Call of CoalescedExecution. *)
LEMMA EnqueueIsCall ==
    ASSUME TypeOK, IInv, Enqueue
    PROVE  Abstract!Call
  <1> USE MaxCallsAssumption
  <1>1. /\ issued \in Nat /\ issued < MaxCalls /\ issued + 1 \in Calls
        /\ issued' = issued + 1 /\ settled' = settled
        /\ queue' = EnqueueOp(queue, issued + 1, issued + 1)
      BY DEF Enqueue, TypeOK, Calls
  <1>2. queue \in Queues(Calls, Calls)
      BY DEF TypeOK
  <1>3. LastOf(settled') = LastOf(settled)
      BY <1>1
  <1>4. CASE queue.loops = {}
    <2>1. ExecutingOf(queue) = 0
        BY <1>4 DEF ExecutingOf
    <2>2. queue = EmptyQueue
        BY <1>4 DEF IInv, IdleInv
    <2> PICK k : k = issued + 1
        OBVIOUS
    <2> PICK n : n = [ops |-> {k}, cycle |-> {k}]
        OBVIOUS
    <2>3. queue' = EnqueueOp(EmptyQueue, k, k)
        BY <1>1, <2>2
    <2>4. queue'.loops = {n}
        BY <2>3 DEF EnqueueOp, RunningDrainLoop, StartCycle, Join, EmptyQueue
    <2>5. n.ops = {k} /\ k \in Calls
        BY <1>1
    <2>6. ExecutingOf(queue') = k
        BY <2>4, <2>5, ExecutingOfOne
    <2> QED
        BY <1>1, <1>3, <2>1, <2>6 DEF Abstract!Call
  <1>5. CASE queue.loops # {}
    <2>1. PICK l \in queue.loops : \E o \in 1 .. issued : LoopInv(l, o)
        BY <1>5 DEF IInv
    <2>2. PICK o \in 1 .. issued : LoopInv(l, o)
        BY <2>1
    <2>3. queue'.loops = queue.loops
        BY <1>1, <1>2, <1>5 DEF EnqueueOp, RunningDrainLoop, Join, Queues
    <2>4. ExecutingOf(queue') = ExecutingOf(queue)
        BY <2>3 DEF ExecutingOf
    <2>5. ExecutingOf(queue) # 0
        BY <2>2, MappedLoop
    <2> QED
        BY <1>1, <1>3, <2>4, <2>5 DEF Abstract!Call
  <1> QED
      BY <1>4, <1>5

(* The end of an operation is a Finish of CoalescedExecution. *)
LEMMA OpSettlesIsFinish ==
    ASSUME TypeOK, IInv, OpSettles
    PROVE  Abstract!Finish
  <1> USE MaxCallsAssumption
  <1>1. PICK l \in queue.loops :
            /\ queue' = SettleOp(queue, l)
            /\ settled' = settled \union l.ops
            /\ issued' = issued
      BY DEF OpSettles
  <1>2. issued \in Nat /\ issued <= MaxCalls /\ queue \in Queues(Calls, Calls)
      BY DEF TypeOK
  <1>3. PICK o \in 1 .. issued : LoopInv(l, o)
      BY DEF IInv
  <1>4. queue.loops = {l} /\ o \in Calls /\ o # 0 /\ ExecutingOf(queue) = o
      BY <1>3, MappedLoop
  <1>5. settled' \in SUBSET Nat /\ o \in settled' /\ \A p \in settled' : p <= o
      BY <1>1, <1>3, <1>4 DEF LoopInv, TypeOK, Calls
  <1>6. LastOf(settled') = o
      BY <1>5, LastOfGreatest
  <1>7. CASE o < issued
    <2>1. queue.queuedOp = {issued}
        BY <1>3, <1>7 DEF LoopInv
    <2> PICK n : n = [ops |-> {issued}, cycle |-> queue.pending]
        OBVIOUS
    <2>2. queue'.loops = {n}
        BY <1>1, <1>2, <1>4, <2>1 DEF SettleOp, StartCycle, Queues
    <2>3. n.ops = {issued} /\ issued \in Calls
        BY <1>2, <1>7 DEF Calls
    <2>4. ExecutingOf(queue') = issued
        BY <2>2, <2>3, ExecutingOfOne
    <2> QED
        BY <1>1, <1>4, <1>6, <1>7, <2>4 DEF Abstract!Finish
  <1>8. CASE ~(o < issued)
    <2>1. queue.queuedOp = {}
        BY <1>3, <1>8 DEF LoopInv
    <2>2. queue'.loops = {}
        BY <1>1, <1>2, <1>4, <2>1 DEF SettleOp, Queues
    <2>3. ExecutingOf(queue') = 0
        BY <2>2 DEF ExecutingOf
    <2> QED
        BY <1>1, <1>4, <1>6, <1>8, <2>3 DEF Abstract!Finish
  <1> QED
      BY <1>7, <1>8

(* Every behaviour of the class is one CoalescedExecution allows (its       *)
(* safety part; fairness is left to TLC): one operation at a time, always   *)
(* the latest, and exactly the calls it covers are answered when it ends.   *)
THEOREM QueueImplementsCoalescedExecution ==
    Spec => Abstract!Init /\ [][Abstract!Next]_(Abstract!vars)
  <1>1. Init => Abstract!Init
      BY DEF Init, Abstract!Init, EmptyQueue, ExecutingOf, LastOf
  <1>2. TypeOK /\ IInv /\ [Next]_vars => [Abstract!Next]_(Abstract!vars)
    <2>1. ASSUME TypeOK, IInv, Enqueue PROVE Abstract!Next
        BY <2>1, EnqueueIsCall DEF Abstract!Next
    <2>2. ASSUME TypeOK, IInv, OpSettles PROVE Abstract!Next
        BY <2>2, OpSettlesIsFinish DEF Abstract!Next
    <2>3. ASSUME UNCHANGED vars PROVE UNCHANGED Abstract!vars
        BY <2>3 DEF vars, Abstract!vars
    <2> QED
        BY <2>1, <2>2, <2>3 DEF Next
  <1> QED
      BY <1>1, <1>2, QueueInvariant, PTL DEF Spec

=============================================================================
