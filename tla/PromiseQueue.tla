---------------------------- MODULE PromiseQueue ----------------------------
(***************************************************************************)
(* The operations of class SinglePromiseQueue                              *)
(* (packages/rivetkit/src/utils.ts) as functions from queue to queue, so   *)
(* that every module that owns such a queue (the persist-write queue and   *)
(* the alarm-write queue of an actor instance) takes exactly these steps.  *)
(*                                                                         *)
(* A queue is a record:                                                    *)
(*   queuedOp  {} while #queuedOp is undefined, {op} while op is queued    *)
(*   pending   the callers that hold the promise of #pending               *)
(*   loops     the activations of #drainLoop that are awaiting an op, each *)
(*             with the op and the callers of the resolver it captured     *)
(*                                                                         *)
(* JavaScript runs to completion between two awaits, and #drainLoop awaits *)
(* only its op, so one queue step is either the whole of enqueue or        *)
(* everything #drainLoop does between two awaits.                          *)
(***************************************************************************)

Loops(Ops, Callers) == [ops : SUBSET Ops, cycle : SUBSET Callers]

Queues(Ops, Callers) ==
    [queuedOp : SUBSET Ops,
     pending  : SUBSET Callers,
     loops    : SUBSET Loops(Ops, Callers)]

EmptyQueue == [queuedOp |-> {}, pending |-> {}, loops |-> {}]

(* The test made of the public field runningDrainLoop. *)
RunningDrainLoop(q) == q.loops # {}

(* One turn of #drainLoop up to its await: the resolver and the op are      *)
(* captured, both fields are cleared and the op is called.                  *)
StartCycle(q) ==
    [queuedOp |-> {},
     pending  |-> {},
     loops    |-> q.loops \union {[ops |-> q.queuedOp, cycle |-> q.pending]}]

(* Faulty variants of Join: ops pile up instead of replacing each other; a  *)
(* queued op is kept and the later one dropped; the resolver is not reset   *)
(* when its op starts, so that callers arriving later still share it.       *)
JoinAccumulates(q, op, c) ==
    [q EXCEPT !.queuedOp = @ \union {op}, !.pending = @ \union {c}]

JoinKeepsOldest(q, op, c) ==
    [q EXCEPT !.queuedOp = IF @ = {} THEN {op} ELSE @,
              !.pending = @ \union {c}]

JoinSharesResolver(q, op, c) ==
    [q EXCEPT !.queuedOp = {op},
              !.pending = @ \union {c},
              !.loops = {[l EXCEPT !.cycle = @ \union {c}] : l \in q.loops}]

(* enqueue(op) by caller c: the op replaces a queued one, the caller joins  *)
(* the pending cycle, and the drain loop starts unless it runs already.     *)
Join(q, op, c) ==
    [q EXCEPT !.queuedOp = {op}, !.pending = @ \union {c}]

(* Faulty variant of EnqueueOp: a loop is started without the test. *)
EnqueueOpUnguarded(q, op, c) == StartCycle(Join(q, op, c))

EnqueueOp(q, op, c) ==
    IF RunningDrainLoop(q) THEN Join(q, op, c)
                           ELSE StartCycle(Join(q, op, c))

(* Faulty variant of SettleOp: the loop ends without looking for a queued op. *)
SettleOpOnce(q, l) == [q EXCEPT !.loops = @ \ {l}]

(* The op of loop l settles, fulfilled or rejected alike (the rejection is  *)
(* swallowed): the callers in l.cycle are resolved and the loop takes the   *)
(* queued op or ends.                                                       *)
SettleOp(q, l) ==
    LET rest == [q EXCEPT !.loops = @ \ {l}]
    IN  IF q.queuedOp # {} THEN StartCycle(rest) ELSE rest

=============================================================================
