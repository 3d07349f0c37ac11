------------------------- MODULE CoalescedExecution -------------------------
(***************************************************************************)
(* What a SinglePromiseQueue promises its callers, without its fields.     *)
(*                                                                         *)
(* Calls are numbered in the order they are made.  At most one operation   *)
(* executes at a time; the operation that is executed next is always the   *)
(* one of the latest call; and when an operation finishes, exactly the     *)
(* calls made no later than the call that submitted it are answered.       *)
(***************************************************************************)
EXTENDS Naturals

CONSTANT MaxCalls      \* bound: how many calls are made in a behaviour

VARIABLES
    issued,      \* the number of calls made so far
    executing,   \* the call whose operation executes, 0 if none does
    answered     \* calls 1..answered have had their promise resolved

vars == <<issued, executing, answered>>

Init == issued = 0 /\ executing = 0 /\ answered = 0

Call ==
    /\ issued < MaxCalls
    /\ issued' = issued + 1
    /\ executing' = IF executing = 0 THEN issued + 1 ELSE executing
    /\ UNCHANGED answered

Finish ==
    /\ executing # 0
    /\ answered' = executing
    /\ executing' = IF executing < issued THEN issued ELSE 0
    /\ UNCHANGED issued

Next == Call \/ Finish

Spec == Init /\ [][Next]_vars /\ WF_vars(Finish)

=============================================================================
