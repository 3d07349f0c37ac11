------------------------- MODULE SinglePromiseQueue -------------------------
(***************************************************************************)
(* Class SinglePromiseQueue of packages/rivetkit/src/utils.ts under        *)
(* arbitrary use: callers enqueue operations at any time, and the          *)
(* operation that runs settles, fulfilled or rejected, at any time.        *)
(*                                                                         *)
(* The k-th call of enqueue is caller k and submits operation k.           *)
(***************************************************************************)
EXTENDS Naturals, PromiseQueue

CONSTANT MaxCalls      \* bound: how many times enqueue is called

ASSUME MaxCallsAssumption == MaxCalls \in Nat

VARIABLES
    queue,      \* the three fields of the class (module PromiseQueue)
    issued,     \* how many times enqueue has been called
    resolved,   \* the callers whose promise has been resolved
    settled     \* the operations that have run to their end

vars == <<queue, issued, resolved, settled>>

Calls == 1 .. MaxCalls

Init ==
    /\ queue = EmptyQueue
    /\ issued = 0
    /\ resolved = {}
    /\ settled = {}

Enqueue ==
    /\ issued < MaxCalls
    /\ issued' = issued + 1
    /\ queue' = EnqueueOp(queue, issued + 1, issued + 1)
    /\ UNCHANGED <<resolved, settled>>

OpSettles ==
    \E l \in queue.loops :
        /\ queue' = SettleOp(queue, l)
        /\ resolved' = resolved \union l.cycle
        /\ settled' = settled \union l.ops
        /\ UNCHANGED issued

Next == Enqueue \/ OpSettles

(* An operation that never settles blocks the queue for good, so progress   *)
(* is promised only for operations that do.                                 *)
Spec == Init /\ [][Next]_vars /\ WF_vars(OpSettles)

-----------------------------------------------------------------------------
(* The fields hold values of their types; in particular #queuedOp is a      *)
(* single operation, never a list of them.                                  *)
TypeOK ==
    /\ queue \in Queues(Calls, Calls)
    /\ \A o1, o2 \in queue.queuedOp : o1 = o2
    /\ issued \in 0 .. MaxCalls
    /\ resolved \subseteq Calls
    /\ settled \subseteq Calls

(* Only one operation runs at a time: what the comments on                  *)
(* writePersistedData and setAlarm in actor/driver.ts rely on.              *)
AtMostOneRunning ==
    \A l1, l2 \in queue.loops : l1 = l2

(* A promise is resolved only after an operation submitted by that call or  *)
(* a later one has run from its beginning to its end: an operation that was *)
(* already running when the call was made never answers it.                 *)
ResolvedWasCovered ==
    \A c \in resolved : \E o \in settled : o >= c

(* No caller is forgotten: whoever has called enqueue is answered, waits    *)
(* for the running operation, or waits for the queued one while a drain     *)
(* loop that will take it is still running.                                 *)
NoCallerForgotten ==
    \A c \in 1 .. issued :
        \/ c \in resolved
        \/ \E l \in queue.loops : c \in l.cycle
        \/ c \in queue.pending /\ queue.queuedOp # {} /\ RunningDrainLoop(queue)

(* The inductive invariant behind these properties.  The operation o a      *)
(* drain loop awaits is later than every settled one and its cycle holds    *)
(* exactly the unanswered calls up to o; the later calls are pending and    *)
(* the last of them is the queued operation.  The answered calls are those  *)
(* up to the last settled operation.                                        *)
LoopInv(l, o) ==
    /\ l.ops = {o}
    /\ \A p \in settled : p < o
    /\ l.cycle = {c \in 1 .. o : c \notin resolved}
    /\ queue.pending = {c \in 1 .. issued : o < c}
    /\ queue.queuedOp = IF o < issued THEN {issued} ELSE {}

IdleInv ==
    /\ queue = EmptyQueue
    /\ issued = 0 \/ issued \in settled

IInv ==
    /\ AtMostOneRunning
    /\ IF queue.loops = {} THEN IdleInv
       ELSE \A l \in queue.loops : \E o \in 1 .. issued : LoopInv(l, o)
    /\ resolved = {c \in Calls : \E o \in settled : c <= o}
    /\ \A p \in settled : p <= issued
    /\ settled # {} => \E m \in settled : \A p \in settled : p <= m

(* Every call is answered in the end, if every operation settles. *)
EveryCallResolves ==
    \A c \in Calls : (issued >= c) ~> (c \in resolved)

-----------------------------------------------------------------------------
(* The class implements CoalescedExecution: the operation that executes is *)
(* the one a drain loop awaits, and the answered calls are those up to the  *)
(* last operation that settled.                                             *)
ExecutingOf(q) ==
    IF q.loops = {} THEN 0
    ELSE CHOOSE o \in Calls : \E l \in q.loops : o \in l.ops

LastOf(ops) ==
    IF ops = {} THEN 0 ELSE CHOOSE o \in ops : \A p \in ops : p <= o

Abstract == INSTANCE CoalescedExecution
                WITH executing <- ExecutingOf(queue), answered <- LastOf(settled)

AbstractSpec == Abstract!Spec

=============================================================================
