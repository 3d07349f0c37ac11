------------------------ MODULE ActorScheduleProofs ------------------------
(***************************************************************************)
(* Proofs about ActorSchedule for any events, alarm callbacks, clock,      *)
(* sleeps, crashes, early timers and rejected writes.                      *)
(***************************************************************************)
EXTENDS ActorSchedule, SequenceTheorems, WellFoundedInduction, TLAPS

-----------------------------------------------------------------------------
(* What the operations of a SinglePromiseQueue return, for any operations   *)
(* and callers: the proofs about the alarm queue cite these.                *)

(* enqueue on an idle queue starts a loop for this caller alone. *)
LEMMA EnqueueIdle ==
    ASSUME NEW op, NEW c
    PROVE  EnqueueOp(EmptyQueue, op, c) =
             [queuedOp |-> {}, pending |-> {},
              loops |-> {[ops |-> {op}, cycle |-> {c}]}]
  BY DEF EnqueueOp, RunningDrainLoop, StartCycle, Join, EmptyQueue

(* enqueue on a busy queue replaces the queued op and joins its cycle. *)
LEMMA EnqueueBusy ==
    ASSUME NEW Ops, NEW Callers, NEW q \in Queues(Ops, Callers), NEW op, NEW c,
           q.loops # {}
    PROVE  EnqueueOp(q, op, c) =
             [queuedOp |-> {op}, pending |-> q.pending \union {c},
              loops |-> q.loops]
  BY DEF EnqueueOp, RunningDrainLoop, Join, Queues

(* When its op settles and nothing is queued, a loop ends. *)
LEMMA SettleLast ==
    ASSUME NEW Ops, NEW Callers, NEW q \in Queues(Ops, Callers),
           NEW l \in q.loops, q.queuedOp = {}
    PROVE  SettleOp(q, l) =
             [queuedOp |-> {}, pending |-> q.pending, loops |-> q.loops \ {l}]
  BY DEF SettleOp, Queues

(* Otherwise it takes the queued op and everyone who waits for it. *)
LEMMA SettleNext ==
    ASSUME NEW Ops, NEW Callers, NEW q \in Queues(Ops, Callers),
           NEW l \in q.loops, q.queuedOp # {}
    PROVE  SettleOp(q, l) =
             [queuedOp |-> {}, pending |-> {},
              loops |-> (q.loops \ {l})
                            \union {[ops |-> q.queuedOp, cycle |-> q.pending]}]
  BY DEF SettleOp, StartCycle, Queues

(* A queue's fields keep their types under enqueue. *)
LEMMA EnqueueType ==
    ASSUME NEW Ops, NEW Callers, NEW q \in Queues(Ops, Callers),
           NEW op \in Ops, NEW c \in Callers
    PROVE  EnqueueOp(q, op, c) \in Queues(Ops, Callers)
  <1>1. CASE q.loops # {}
      BY <1>1, EnqueueBusy DEF Queues
  <1>2. CASE q.loops = {}
    <2> DEFINE l == [ops |-> {op}, cycle |-> q.pending \union {c}]
    <2>1. EnqueueOp(q, op, c) = [queuedOp |-> {}, pending |-> {}, loops |-> {l}]
        BY <1>2 DEF EnqueueOp, RunningDrainLoop, StartCycle, Join, Queues
    <2>2. l \in Loops(Ops, Callers)
        BY DEF Queues, Loops
    <2> HIDE DEF l
    <2> QED
        BY <2>1, <2>2 DEF Queues
  <1> QED
      BY <1>1, <1>2

(* A queue's fields keep their types when an op settles. *)
LEMMA SettleType ==
    ASSUME NEW Ops, NEW Callers, NEW q \in Queues(Ops, Callers),
           NEW l \in q.loops
    PROVE  SettleOp(q, l) \in Queues(Ops, Callers)
  <1>1. CASE q.queuedOp = {}
      BY <1>1, SettleLast DEF Queues
  <1>2. CASE q.queuedOp # {}
    <2> DEFINE n == [ops |-> q.queuedOp, cycle |-> q.pending]
    <2>1. n \in Loops(Ops, Callers)
        BY DEF Queues, Loops
    <2>2. SettleOp(q, l) = [queuedOp |-> {}, pending |-> {},
                            loops |-> (q.loops \ {l}) \union {n}]
        BY <1>2, SettleNext
    <2> HIDE DEF n
    <2> QED
        BY <2>1, <2>2 DEF Queues
  <1> QED
      BY <1>1, <1>2

-----------------------------------------------------------------------------
(* A nonempty set of indices has a first one. *)
LEMMA FirstIndexIsFirst ==
    ASSUME NEW S \in SUBSET Nat, S # {}
    PROVE  FirstIndex(S) \in S /\ \A j \in S : FirstIndex(S) <= j
  <1> DEFINE R == OpToRel(<, Nat)
  <1>1. IsWellFoundedOn(R, Nat)
      BY NatLessThanWellFounded
  <1>2. \A x, y \in Nat : y < x => <<y, x>> \in R
      BY DEF OpToRel
  <1> HIDE DEF R
  <1>3. PICK x \in S : \A y \in S : ~(<<y, x>> \in R)
      BY <1>1, WFMin
  <1>4. ASSUME NEW y \in S PROVE x <= y
    <2>1. x \in Nat /\ y \in Nat
        OBVIOUS
    <2>2. ~(y < x)
        BY <1>2, <1>3, <2>1
    <2> QED
        BY <2>1, <2>2
  <1> QED
      BY <1>4 DEF FirstIndex

(* #scheduleEventInner: where an event is inserted in a sorted list. *)
LEMMA InsertAtSplits ==
    ASSUME NEW s \in Seq(Events), NEW ts \in [Events -> Nat], NEW e \in Events,
           \A i, j \in DOMAIN s : i < j => ts[s[i]] <= ts[s[j]]
    PROVE  /\ InsertAt(s, ts, e) \in 1 .. Len(s) + 1
           /\ \A j \in DOMAIN s :
                 IF j < InsertAt(s, ts, e) THEN ts[s[j]] <= ts[e]
                                           ELSE ts[e] < ts[s[j]]
  <1> DEFINE later == {i \in DOMAIN s : ts[s[i]] > ts[e]}
  <1>1. DOMAIN s = 1 .. Len(s) /\ Len(s) \in Nat /\ \A i \in DOMAIN s : s[i] \in Events
      OBVIOUS
  <1>2. CASE later = {}
      BY <1>1, <1>2 DEF InsertAt
  <1>3. CASE later # {}
    <2>1. later \in SUBSET Nat
        BY <1>1
    <2>2. PICK k \in later : k = FirstIndex(later) /\ \A j \in later : k <= j
        BY <1>3, <2>1, FirstIndexIsFirst
    <2>3. InsertAt(s, ts, e) = k
        BY <1>3, <2>2 DEF InsertAt
    <2>4. k \in DOMAIN s /\ ts[s[k]] > ts[e]
        BY <2>2
    <2>5. ASSUME NEW j \in DOMAIN s, j < k PROVE ts[s[j]] <= ts[e]
      <3>0. ~(k <= j)
          BY <2>4, <2>5, <1>1
      <3>1. j \notin later
          BY <2>2, <3>0
      <3> QED
          BY <3>1, <1>1
    <2> HIDE DEF later
    <2>6. ASSUME NEW j \in DOMAIN s, ~(j < k) PROVE ts[e] < ts[s[j]]
      <3>1. CASE j = k
          BY <2>4, <3>1, <1>1
      <3>2. CASE k < j
        <4>1. ts[s[k]] <= ts[s[j]]
            BY <2>4, <3>2
        <4> QED
            BY <4>1, <2>4, <1>1
      <3> QED
          BY <3>1, <3>2, <2>4, <2>6, <1>1
    <2> QED
        BY <1>1, <2>3, <2>4, <2>5, <2>6
  <1> QED
      BY <1>2, <1>3

(* What the list holds after an insertion. *)
LEMMA InsertHolds ==
    ASSUME NEW s \in Seq(Events), NEW i \in 1 .. Len(s) + 1, NEW e \in Events
    PROVE  /\ Insert(s, i, e) \in Seq(Events)
           /\ Len(Insert(s, i, e)) = Len(s) + 1
           /\ \A j \in 1 .. Len(s) + 1 :
                 Insert(s, i, e)[j] = IF j < i THEN s[j]
                                      ELSE IF j = i THEN e ELSE s[j - 1]
  <1> DEFINE r == Insert(s, i, e)
             n == Len(s) + 1
  <1>1. \A j \in 1 .. n : r[j] = IF j < i THEN s[j] ELSE IF j = i THEN e ELSE s[j - 1]
      BY DEF Insert
  <1>2. \A j \in 1 .. n : r[j] \in Events
    <2> SUFFICES ASSUME NEW j \in 1 .. n PROVE r[j] \in Events
        OBVIOUS
    <2>1. j < i => j \in 1 .. Len(s)
        OBVIOUS
    <2>2. j > i => j - 1 \in 1 .. Len(s)
        OBVIOUS
    <2> QED
        BY <1>1, <2>1, <2>2
  <1>3. r \in [1 .. n -> Events]
      BY <1>2 DEF Insert
  <1>4. n \in Nat
      OBVIOUS
  <1>5. r \in Seq(Events) /\ Len(r) = n
      BY <1>3, <1>4
  <1> QED
      BY <1>1, <1>5

-----------------------------------------------------------------------------
(* _onAlarm removes nothing (run is empty) or the first event. *)
Removes(run, rest) ==
    \/ run = {} /\ rest = scheduled
    \/ /\ scheduled # <<>>
       /\ run = {scheduled[1]}
       /\ Len(scheduled) = Len(rest) + 1
       /\ \A i \in 1 .. Len(rest) : rest[i] = scheduled[i + 1]

(* It runs the events at once, or keeps them while it sets the next alarm. *)
RunsOrArms(a, run, rest) ==
    /\ scheduled' = rest
    /\ IF rest = <<>>
       THEN /\ ran' = ran \union run
            /\ pc' = [pc EXCEPT ![a] = "idle"]
            /\ UNCHANGED <<alarmQueue, taken>>
       ELSE /\ alarmQueue' = EnqueueOp(alarmQueue, timestamp[rest[1]], a)
            /\ taken' = [taken EXCEPT ![a] = run]
            /\ pc' = [pc EXCEPT ![a] = "settingAlarm"]
            /\ UNCHANGED ran

(* What a call of _onAlarm does to a sorted list. *)
LEMMA OnAlarmCases ==
    ASSUME TypeOK, ListInv, NEW a \in Alarms, OnAlarm(a)
    PROVE  \E run \in SUBSET Events, rest \in Seq(Events) :
              Removes(run, rest) /\ RunsOrArms(a, run, rest)
  <1> DEFINE n    == Len(scheduled)
             due  == {i \in DOMAIN scheduled : timestamp[scheduled[i]] <= now}
             k    == IF due = {} THEN 0 ELSE FirstIndex(due)
             run  == Range(SubSeq(scheduled, 1, k))
             rest == SubSeq(scheduled, k + 1, n)
  <1>1. /\ scheduled \in Seq(Events) /\ n \in Nat /\ DOMAIN scheduled = 1 .. n
        /\ \A i \in 1 .. n : scheduled[i] \in Events
        /\ timestamp \in [Events -> 0 .. MaxTime] /\ now \in 0 .. MaxTime
      BY DEF TypeOK
  <1>2. RunsOrArms(a, run, rest)
      BY DEF OnAlarm, RunsOrArms
  <1>3. CASE due = {}
    <2>1. k = 0
        BY <1>3
    <2> HIDE DEF k
    <2>2. run = {}
      <3>1. SubSeq(scheduled, 1, k) = <<>>
          BY <2>1, SubSeqEmpty
      <3>2. DOMAIN <<>> = {}
          OBVIOUS
      <3>3. Range(<<>>) = {}
          BY <3>2 DEF Range
      <3> QED
          BY <3>1, <3>3
    <2>3. rest = scheduled
      <3>1. SubSeq(scheduled, 1, n) = scheduled
          BY <1>1
      <3> QED
          BY <2>1, <3>1
    <2> QED
        BY <1>1, <1>2, <2>2, <2>3 DEF Removes
  <1>4. CASE due # {}
    <2>1. PICK i \in 1 .. n : timestamp[scheduled[i]] <= now
        BY <1>1, <1>4
    <2>2. timestamp[scheduled[1]] <= timestamp[scheduled[i]]
      <3>1. CASE i = 1
          BY <1>1, <3>1
      <3>2. CASE 1 < i
        <4>1. \A j, m \in DOMAIN scheduled :
                 j < m => timestamp[scheduled[j]] <= timestamp[scheduled[m]]
            BY DEF ListInv, ScheduleSorted, Sorted
        <4>2. 1 \in DOMAIN scheduled /\ i \in DOMAIN scheduled
            BY <1>1, <2>1, <3>2
        <4> QED
            BY <3>2, <4>1, <4>2
      <3> QED
          BY <3>1, <3>2, <2>1, <1>1
    <2>3. 1 \in due
      <3>1. 1 \in 1 .. n
          BY <1>1, <2>1
      <3>2. /\ timestamp[scheduled[1]] \in Nat /\ timestamp[scheduled[i]] \in Nat
            /\ now \in Nat
          BY <3>1, <1>1, <2>1
      <3> QED
          BY <1>1, <2>1, <2>2, <3>1, <3>2
    <2>4. due \in SUBSET Nat
        BY <1>1
    <2>5. FirstIndex(due) \in due /\ FirstIndex(due) <= 1
        BY <1>4, <2>3, <2>4, FirstIndexIsFirst
    <2>6. FirstIndex(due) \in 1 .. n
        BY <1>1, <2>5
    <2>7. k = 1 /\ 1 <= n
        BY <1>1, <1>4, <2>5, <2>6
    <2> HIDE DEF due, k
    <2>8. run = {scheduled[1]}
      <3>1. /\ Len(SubSeq(scheduled, 1, 1)) = 1 /\ SubSeq(scheduled, 1, 1) \in Seq(Events)
            /\ SubSeq(scheduled, 1, 1)[1] = scheduled[1]
          BY <1>1, <2>7
      <3>2. DOMAIN SubSeq(scheduled, 1, 1) = {1}
          BY <3>1
      <3> QED
          BY <2>7, <3>1, <3>2 DEF Range
    <2>9. /\ rest \in Seq(Events) /\ Len(rest) = n - 1
          /\ \A j \in 1 .. n - 1 : rest[j] = scheduled[j + 1]
        BY <1>1, <2>7
    <2> HIDE DEF run, rest
    <2>10. scheduled # <<>> /\ scheduled[1] \in Events
        BY <1>1, <2>7
    <2>11. Len(scheduled) = Len(rest) + 1 /\ n - 1 = Len(rest)
        BY <1>1, <2>9
    <2>12. Removes(run, rest)
        BY <2>8, <2>9, <2>10, <2>11 DEF Removes
    <2> QED
        BY <1>2, <2>8, <2>9, <2>10, <2>12
  <1> QED
      BY <1>3, <1>4

-----------------------------------------------------------------------------
(* Types.                                                                   *)

(* The list an instance starts with. *)
LEMMA EmptySeqOfEvents == <<>> \in Seq(Events)
  OBVIOUS

(* Every listed event has a time an alarm can be set to. *)
LEMMA ListedTime ==
    ASSUME TypeOK, ListInv, NEW i \in DOMAIN scheduled
    PROVE  timestamp[scheduled[i]] \in Times
  <1>1. scheduled[i] \in Events /\ scheduled[i] \in Range(scheduled)
      BY DEF TypeOK, Range
  <1>2. timestamp[scheduled[i]] # NoAlarm /\ timestamp[scheduled[i]] \in 0 .. MaxTime
      BY <1>1 DEF TypeOK, ListInv
  <1> QED
      BY <1>2 DEF NoAlarm, Times

(* What is left of the list was in it. *)
LEMMA RestIsListed ==
    ASSUME TypeOK, NEW run, NEW rest \in Seq(Events), Removes(run, rest), rest # <<>>
    PROVE  \E i \in DOMAIN scheduled : rest[1] = scheduled[i]
  <1>1. Len(rest) \in Nat /\ Len(rest) # 0 /\ Len(scheduled) \in Nat
      BY DEF TypeOK
  <1>2. CASE rest = scheduled
    <2>1. 1 \in DOMAIN rest
        BY <1>1
    <2> QED
        BY <1>2, <2>1
  <1>3. CASE Len(scheduled) = Len(rest) + 1 /\ rest[1] = scheduled[1 + 1]
    <2>1. 1 + 1 \in 1 .. Len(scheduled) /\ DOMAIN scheduled = 1 .. Len(scheduled)
        BY <1>1, <1>3 DEF TypeOK
    <2> QED
        BY <1>3, <2>1
  <1>4. 1 \in 1 .. Len(rest)
      BY <1>1
  <1> QED
      BY <1>4, <1>2, <1>3 DEF Removes

(* A call of _onAlarm keeps the types. *)
LEMMA OnAlarmType ==
    ASSUME TypeOK, ListInv, NEW a \in Alarms, OnAlarm(a)
    PROVE  /\ scheduled' \in Seq(Events)
           /\ alarmQueue' \in Queues(Times, Waiters)
           /\ pc' \in [Alarms -> PCs]
           /\ taken' \in [Alarms -> SUBSET Events]
           /\ ran' \subseteq Events
  <1>1. PICK run \in SUBSET Events, rest \in Seq(Events) :
              Removes(run, rest) /\ RunsOrArms(a, run, rest)
      BY OnAlarmCases
  <1>2. CASE rest = <<>>
      BY <1>1, <1>2 DEF RunsOrArms, TypeOK, PCs
  <1>3. CASE rest # <<>>
    <2>1. \E i \in DOMAIN scheduled : rest[1] = scheduled[i]
        BY <1>1, <1>3, RestIsListed
    <2>2. timestamp[rest[1]] \in Times
        BY <2>1, ListedTime
    <2>3. a \in Waiters /\ alarmQueue \in Queues(Times, Waiters)
        BY DEF Waiters, TypeOK
    <2>4. EnqueueOp(alarmQueue, timestamp[rest[1]], a) \in Queues(Times, Waiters)
        BY <2>2, <2>3, EnqueueType
    <2> QED
        BY <1>1, <1>3, <2>4 DEF RunsOrArms, TypeOK, PCs
  <1> QED
      BY <1>2, <1>3

(* Every step keeps the types. *)
LEMMA TypeStep == TypeOK /\ ListInv /\ SleepInv /\ [Next]_vars => TypeOK'
  <1> SUFFICES ASSUME TypeOK, ListInv, SleepInv, [Next]_vars PROVE TypeOK'
      OBVIOUS
  <1> USE ScheduleAssumption DEF Insts, instance, driver, hist
  <1>0. /\ Times \subseteq 0 .. MaxTime /\ NoAlarm \in 0 .. MaxTime
        /\ \A x \in Times : x # NoAlarm
      BY DEF Times, NoAlarm
  <1>00. Starter \in Waiters /\ Caller \in Waiters
      BY DEF Waiters
  <1>1. CASE Tick
      BY <1>1 DEF Tick, TypeOK
  <1>2. ASSUME NEW e \in Events, NEW t \in Times, ScheduleEvent(e, t) PROVE TypeOK'
    <2> DEFINE i == InsertAt(scheduled, timestamp', e)
    <2>1. timestamp' \in [Events -> 0 .. MaxTime]
        BY <1>0, <1>2 DEF ScheduleEvent, TypeOK
    <2>2. \A f \in Range(scheduled) : f \in Events /\ timestamp'[f] = timestamp[f]
        BY <1>2 DEF ScheduleEvent, TypeOK, ListInv, Range
    <2>3. \A j, k \in DOMAIN scheduled :
             j < k => timestamp'[scheduled[j]] <= timestamp'[scheduled[k]]
        BY <2>2 DEF ListInv, ScheduleSorted, Sorted, Range
    <2>4. timestamp' \in [Events -> Nat] /\ scheduled \in Seq(Events)
        BY <2>1 DEF TypeOK
    <2>5. i \in 1 .. Len(scheduled) + 1
        BY <2>3, <2>4, InsertAtSplits
    <2>6. scheduled' = Insert(scheduled, i, e)
        BY <1>2 DEF ScheduleEvent
    <2>7. alarmQueue' = IF i = 1 THEN EnqueueOp(alarmQueue, t, Caller) ELSE alarmQueue
        BY <1>2 DEF ScheduleEvent
    <2> HIDE DEF i
    <2>8. scheduled' \in Seq(Events)
        BY <2>4, <2>5, <2>6, InsertHolds
    <2>9. alarmQueue' \in Queues(Times, Waiters)
        BY <1>00, <2>7, EnqueueType DEF TypeOK
    <2> QED
        BY <1>2, <2>1, <2>8, <2>9 DEF ScheduleEvent, TypeOK
  <1>3. CASE StateChanges
      BY <1>3 DEF StateChanges, TypeOK
  <1>4. CASE SavePersist
      BY <1>4 DEF SavePersist, TypeOK
  <1>5. ASSUME NEW ok \in BOOLEAN, SetAlarmSettles(ok) PROVE TypeOK'
    <2>0. PICK l \in alarmQueue.loops : \E t \in l.ops :
             /\ IF ok
                THEN alarmFile' = t /\ alarmTimer' = ScheduleAlarmTimeout(t)
                ELSE UNCHANGED <<alarmFile, alarmTimer>>
             /\ failed' = (failed \/ ~ok)
             /\ alarmQueue' = SettleOp(alarmQueue, l)
             /\ pc' = [a \in Alarms |-> IF a \in l.cycle THEN "idle" ELSE pc[a]]
             /\ taken' = [a \in Alarms |-> IF a \in l.cycle THEN {} ELSE taken[a]]
             /\ ran' = ran \union UNION {taken[a] : a \in Alarms \intersect l.cycle}
             /\ inst' = IF Starter \in l.cycle THEN "ready" ELSE inst
        BY <1>5 DEF SetAlarmSettles
    <2>1. PICK t \in l.ops :
             /\ IF ok
                THEN alarmFile' = t /\ alarmTimer' = ScheduleAlarmTimeout(t)
                ELSE UNCHANGED <<alarmFile, alarmTimer>>
             /\ failed' = (failed \/ ~ok)
             /\ alarmQueue' = SettleOp(alarmQueue, l)
             /\ pc' = [a \in Alarms |-> IF a \in l.cycle THEN "idle" ELSE pc[a]]
             /\ taken' = [a \in Alarms |-> IF a \in l.cycle THEN {} ELSE taken[a]]
             /\ ran' = ran \union UNION {taken[a] : a \in Alarms \intersect l.cycle}
             /\ inst' = IF Starter \in l.cycle THEN "ready" ELSE inst
        BY <2>0
    <2>2. alarmQueue \in Queues(Times, Waiters)
        BY DEF TypeOK
    <2>3. t \in 0 .. MaxTime
        BY <1>0, <2>2 DEF Queues, Loops
    <2>4. alarmQueue' \in Queues(Times, Waiters)
        BY <2>1, <2>2, SettleType
    <2>5. alarmFile' \in 0 .. MaxTime /\ alarmTimer' \in [Generations -> 0 .. MaxTime]
        BY <2>1, <2>3 DEF TypeOK, ScheduleAlarmTimeout
    <2>6. pc' \in [Alarms -> PCs] /\ taken' \in [Alarms -> SUBSET Events]
        BY <2>1 DEF TypeOK, PCs
    <2>7. ran' \subseteq Events /\ inst' \in Insts /\ failed' \in BOOLEAN
        BY <2>1 DEF TypeOK
    <2> QED
        BY <1>5, <2>4, <2>5, <2>6, <2>7 DEF SetAlarmSettles, TypeOK
  <1>6. ASSUME NEW g \in Generations, NEW a \in Alarms, AlarmFires(g, a) PROVE TypeOK'
      BY <1>0, <1>6 DEF AlarmFires, TypeOK, PCs
  <1>7. ASSUME NEW a \in Alarms, NEW ok \in BOOLEAN, AlarmUnlinked(a, ok) PROVE TypeOK'
    <2>1. CASE OnAlarm(a) /\ UNCHANGED inst
        BY <1>0, <1>7, <2>1, OnAlarmType DEF AlarmUnlinked, TypeOK
    <2>2. CASE ~Running
        BY <1>0, <1>7, <2>2 DEF AlarmUnlinked, TypeOK, PCs
    <2> QED
        BY <1>7, <2>1, <2>2 DEF AlarmUnlinked
  <1>8. ASSUME NEW a \in Alarms, AlarmWakes(a) PROVE TypeOK'
      BY <1>8, OnAlarmType DEF AlarmWakes, TypeOK
  <1>9. CASE RequestWakes
      BY <1>9 DEF RequestWakes, TypeOK
  <1>10. CASE StateLoaded
      BY <1>10 DEF StateLoaded, TypeOK
  <1>11. CASE StartArms
    <2>1. CASE scheduled = <<>>
        BY <1>11, <2>1 DEF StartArms, TypeOK
    <2>2. CASE scheduled # <<>>
      <3>1. 1 \in DOMAIN scheduled
          BY <2>2 DEF TypeOK
      <3>2. timestamp[scheduled[1]] \in Times /\ alarmQueue \in Queues(Times, Waiters)
          BY <3>1, ListedTime DEF TypeOK
      <3>3. EnqueueOp(alarmQueue, timestamp[scheduled[1]], Starter) \in Queues(Times, Waiters)
          BY <1>00, <3>2, EnqueueType
      <3> QED
          BY <1>11, <2>2, <3>3 DEF StartArms, TypeOK
    <2> QED
        BY <2>1, <2>2
  <1>12. CASE StartFails
      BY <1>12 DEF StartFails, TypeOK, PCs
  <1>13. CASE Sleep
      BY <1>13 DEF Sleep, TypeOK
  <1>14. CASE StopFlushes
      BY <1>14 DEF StopFlushes, TypeOK
  <1>15. CASE StopReturns
    <2>1. lost' \subseteq Events
        BY <1>15 DEF StopReturns, TypeOK, Range
    <2>2. generation' \in Generations
        BY <1>15 DEF StopReturns, TypeOK, SleepInv, Generations
    <2>3. scheduled' \in Seq(Events)
        BY <1>15, EmptySeqOfEvents DEF StopReturns
    <2> QED
        BY <1>15, <2>1, <2>2, <2>3 DEF StopReturns, TypeOK
  <1>16. CASE Crash
    <2>1. lost' \subseteq Events
        BY <1>16 DEF Crash, TypeOK, Range
    <2>2. alarmFile' \in 0 .. MaxTime
        BY <1>0, <1>16 DEF Crash, TypeOK, Queues, Loops
    <2>3. alarmTimer' \in [Generations -> 0 .. MaxTime]
        BY <1>0, <1>16, <2>2 DEF Crash
    <2>4. alarmQueue' \in Queues(Times, Waiters)
        BY <1>16 DEF Crash, EmptyQueue, Queues
    <2>5. crashes' \in 0 .. MaxCrashes
        BY <1>16 DEF Crash, TypeOK
    <2>6. scheduled' \in Seq(Events)
        BY <1>16, EmptySeqOfEvents DEF Crash
    <2>7. pc' \in [Alarms -> PCs] /\ taken' \in [Alarms -> SUBSET Events]
        BY <1>16 DEF Crash, PCs
    <2> QED
        BY <1>16, <2>1, <2>2, <2>3, <2>4, <2>5, <2>6, <2>7 DEF Crash, TypeOK
  <1>17. CASE UNCHANGED vars
      BY <1>17 DEF vars, TypeOK
  <1> QED
      BY <1>1, <1>2, <1>3, <1>4, <1>5, <1>6, <1>7, <1>8, <1>9, <1>10, <1>11,
         <1>12, <1>13, <1>14, <1>15, <1>16, <1>17 DEF Next

-----------------------------------------------------------------------------
(* The alarm queue.                                                         *)

(* A queue that runs one operation at a time goes on doing so. *)
LEMMA EnqueueKeepsOne ==
    ASSUME NEW q \in Queues(Times, Waiters), OneOpAtATime(q),
           NEW t \in Times, NEW w \in Waiters
    PROVE  /\ OneOpAtATime(EnqueueOp(q, t, w))
           /\ EnqueueOp(q, t, w).loops # {}
           /\ SetsLast(EnqueueOp(q, t, w), t)
  <1>1. CASE q.loops = {}
    <2> DEFINE n == [ops |-> {t}, cycle |-> {w}]
    <2>1. /\ EnqueueOp(q, t, w).queuedOp = {} /\ EnqueueOp(q, t, w).pending = {}
          /\ EnqueueOp(q, t, w).loops = {n} /\ n.ops = {t}
        BY <1>1, EnqueueIdle DEF OneOpAtATime
    <2> HIDE DEF n
    <2> QED
        BY <2>1 DEF OneOpAtATime, SetsLast
  <1>2. CASE q.loops # {}
      BY <1>2, EnqueueBusy DEF OneOpAtATime, SetsLast, EmptyQueue
  <1> QED
      BY <1>1, <1>2

(* Whoever enqueues waits, for one cycle unless it waited already. *)
LEMMA EnqueueWaits ==
    ASSUME NEW q \in Queues(Times, Waiters), OneOpAtATime(q),
           NEW t \in Times, NEW w \in Waiters, NEW x
    PROVE  /\ Waits(EnqueueOp(q, t, w), x) <=> Waits(q, x) \/ x = w
           /\ WaitsOnce(q, x) /\ (x = w => ~Waits(q, x))
                 => WaitsOnce(EnqueueOp(q, t, w), x)
  <1>1. CASE q.loops = {}
    <2> DEFINE n == [ops |-> {t}, cycle |-> {w}]
    <2>1. /\ EnqueueOp(q, t, w).pending = {}
          /\ EnqueueOp(q, t, w).loops = {n} /\ n.cycle = {w}
        BY <1>1, EnqueueIdle DEF OneOpAtATime
    <2>2. q.pending = {}
        BY <1>1 DEF OneOpAtATime, EmptyQueue
    <2> HIDE DEF n
    <2> QED
        BY <1>1, <2>1, <2>2 DEF Waits, WaitsOnce
  <1>2. CASE q.loops # {}
      BY <1>2, EnqueueBusy DEF Waits, WaitsOnce
  <1> QED
      BY <1>1, <1>2

(* An operation that settles leaves the one queued after it, if any. *)
LEMMA SettleKeepsOne ==
    ASSUME NEW q \in Queues(Times, Waiters), OneOpAtATime(q), NEW l \in q.loops
    PROVE  /\ OneOpAtATime(SettleOp(q, l))
           /\ \A t \in Times : SetsLast(q, t) =>
                 IF SettleOp(q, l).loops = {} THEN l.ops = {t}
                                             ELSE SetsLast(SettleOp(q, l), t)
  <1>0. q.loops \ {l} = {}
      BY DEF OneOpAtATime
  <1>1. CASE q.queuedOp = {}
    <2>1. SettleOp(q, l) = EmptyQueue
        BY <1>0, <1>1, SettleLast DEF OneOpAtATime, EmptyQueue
    <2> QED
        BY <1>1, <2>1 DEF OneOpAtATime, SetsLast, EmptyQueue
  <1>2. CASE q.queuedOp # {}
    <2> DEFINE n == [ops |-> q.queuedOp, cycle |-> q.pending]
    <2>1. SettleOp(q, l) = [queuedOp |-> {}, pending |-> {}, loops |-> {n}]
        BY <1>0, <1>2, SettleNext
    <2>2. n.ops = q.queuedOp /\ n.cycle = q.pending
        OBVIOUS
    <2> HIDE DEF n
    <2> QED
        BY <1>2, <2>1, <2>2 DEF OneOpAtATime, SetsLast
  <1> QED
      BY <1>1, <1>2

(* The callers that waited for the next operation are the ones left. *)
LEMMA SettleWaits ==
    ASSUME NEW q \in Queues(Times, Waiters), OneOpAtATime(q), NEW l \in q.loops, NEW x
    PROVE  /\ Waits(SettleOp(q, l), x) <=> x \in q.pending
           /\ WaitsOnce(SettleOp(q, l), x)
           /\ WaitsOnce(q, x) => (x \in q.pending <=> Waits(q, x) /\ x \notin l.cycle)
  <1>0. q.loops = {l}
      BY DEF OneOpAtATime
  <1>1. CASE q.queuedOp = {}
    <2>1. SettleOp(q, l) = EmptyQueue
        BY <1>0, <1>1, SettleLast DEF OneOpAtATime, EmptyQueue
    <2> QED
        BY <1>0, <1>1, <2>1 DEF OneOpAtATime, Waits, WaitsOnce, EmptyQueue
  <1>2. CASE q.queuedOp # {}
    <2> DEFINE n == [ops |-> q.queuedOp, cycle |-> q.pending]
    <2>1. SettleOp(q, l) = [queuedOp |-> {}, pending |-> {}, loops |-> {n}]
        BY <1>0, <1>2, SettleNext
    <2>2. n.ops = q.queuedOp /\ n.cycle = q.pending
        OBVIOUS
    <2> HIDE DEF n
    <2> QED
        BY <1>0, <2>1, <2>2 DEF Waits, WaitsOnce
  <1> QED
      BY <1>1, <1>2

(* The queue after a call of _onAlarm. *)
LEMMA OnAlarmQueue ==
    ASSUME TypeOK, ListInv, AlarmQueueInv, NEW a \in Alarms, OnAlarm(a)
    PROVE  \/ /\ scheduled' = <<>>
              /\ UNCHANGED <<alarmQueue, taken>>
              /\ pc' = [pc EXCEPT ![a] = "idle"]
           \/ /\ scheduled' # <<>>
              /\ \E t \in Times : t = timestamp[scheduled'[1]]
                                  /\ alarmQueue' = EnqueueOp(alarmQueue, t, a)
              /\ pc' = [pc EXCEPT ![a] = "settingAlarm"]
              /\ \E run : taken' = [taken EXCEPT ![a] = run]
  <1>1. PICK run \in SUBSET Events, rest \in Seq(Events) :
              Removes(run, rest) /\ RunsOrArms(a, run, rest)
      BY OnAlarmCases
  <1>2. CASE rest = <<>>
      BY <1>1, <1>2 DEF RunsOrArms
  <1>3. CASE rest # <<>>
    <2>1. \E i \in DOMAIN scheduled : rest[1] = scheduled[i]
        BY <1>1, <1>3, RestIsListed
    <2>2. timestamp[rest[1]] \in Times
        BY <2>1, ListedTime
    <2> QED
        BY <1>1, <1>3, <2>2 DEF RunsOrArms
  <1> QED
      BY <1>2, <1>3

-----------------------------------------------------------------------------
(* The step of each part of the invariant.                                  *)

(* What ScheduleEvent does to the list, the timestamps and the queue. *)
LEMMA ScheduleEventEffect ==
    ASSUME TypeOK, ListInv, NEW e \in Events, NEW t \in Times, ScheduleEvent(e, t)
    PROVE  \E i \in 1 .. Len(scheduled) + 1 :
              /\ i = InsertAt(scheduled, timestamp', e)
              /\ scheduled' = Insert(scheduled, i, e)
              /\ alarmQueue' = IF i = 1 THEN EnqueueOp(alarmQueue, t, Caller)
                               ELSE alarmQueue
              /\ timestamp' \in [Events -> Nat] /\ timestamp'[e] = t
              /\ \A f \in Events : f # e => timestamp'[f] = timestamp[f]
              /\ e \notin Range(scheduled) /\ e \notin Range(stored)
              /\ \A f \in Range(scheduled) : f \in Events /\ timestamp'[f] = timestamp[f]
              /\ \A j \in DOMAIN scheduled :
                    IF j < i THEN timestamp'[scheduled[j]] <= t
                             ELSE t < timestamp'[scheduled[j]]
  <1> DEFINE i == InsertAt(scheduled, timestamp', e)
  <1>1. timestamp' \in [Events -> 0 .. MaxTime] /\ timestamp'[e] = t
      BY DEF ScheduleEvent, TypeOK, Times
  <1>2. \A f \in Events : f # e => timestamp'[f] = timestamp[f]
      BY DEF ScheduleEvent, TypeOK
  <1>3. e \notin Range(scheduled) /\ e \notin Range(stored)
      BY DEF ScheduleEvent, ListInv
  <1>4. \A f \in Range(scheduled) : f \in Events
      BY DEF TypeOK, Range
  <1>5. \A f \in Range(scheduled) : timestamp'[f] = timestamp[f]
      BY <1>2, <1>3, <1>4
  <1>6. \A j, k \in DOMAIN scheduled :
           j < k => timestamp'[scheduled[j]] <= timestamp'[scheduled[k]]
      BY <1>5 DEF ListInv, ScheduleSorted, Sorted, Range
  <1>7. timestamp' \in [Events -> Nat] /\ scheduled \in Seq(Events)
      BY <1>1 DEF TypeOK
  <1>8. /\ i \in 1 .. Len(scheduled) + 1
        /\ \A j \in DOMAIN scheduled :
              IF j < i THEN timestamp'[scheduled[j]] <= timestamp'[e]
                       ELSE timestamp'[e] < timestamp'[scheduled[j]]
      BY <1>6, <1>7, InsertAtSplits
  <1>9. /\ scheduled' = Insert(scheduled, i, e)
        /\ alarmQueue' = IF i = 1 THEN EnqueueOp(alarmQueue, t, Caller) ELSE alarmQueue
      BY DEF ScheduleEvent
  <1> HIDE DEF i
  <1>10. i = InsertAt(scheduled, timestamp', e)
      BY DEF i
  <1> QED
      BY <1>1, <1>2, <1>3, <1>4, <1>5, <1>7, <1>8, <1>9, <1>10

(* The loop whose setAlarm settles, and what the step does besides. *)
LEMMA SetAlarmEffect ==
    ASSUME NEW ok \in BOOLEAN, SetAlarmSettles(ok)
    PROVE  \E l \in alarmQueue.loops : \E t \in l.ops :
              /\ IF ok
                 THEN alarmFile' = t /\ alarmTimer' = ScheduleAlarmTimeout(t)
                 ELSE failed'
              /\ alarmQueue' = SettleOp(alarmQueue, l)
              /\ pc' = [a \in Alarms |-> IF a \in l.cycle THEN "idle" ELSE pc[a]]
              /\ taken' = [a \in Alarms |-> IF a \in l.cycle THEN {} ELSE taken[a]]
              /\ inst' = IF Starter \in l.cycle THEN "ready" ELSE inst
              /\ UNCHANGED <<scheduled, timestamp, stored, generation>>
  BY DEF SetAlarmSettles

(* The alarm queue runs one operation at a time. *)
LEMMA AlarmQueueStep ==
    TypeOK /\ ListInv /\ AlarmQueueInv /\ [Next]_vars => AlarmQueueInv'
  <1> SUFFICES ASSUME TypeOK, ListInv, AlarmQueueInv, [Next]_vars PROVE AlarmQueueInv'
      OBVIOUS
  <1> USE DEF AlarmQueueInv
  <1>0. /\ alarmQueue \in Queues(Times, Waiters)
        /\ Starter \in Waiters /\ Caller \in Waiters /\ Alarms \subseteq Waiters
      BY DEF TypeOK, Waiters
  <1>2. ASSUME NEW e \in Events, NEW t \in Times, ScheduleEvent(e, t) PROVE OneOpAtATime(alarmQueue')
      BY <1>0, <1>2, EnqueueKeepsOne DEF ScheduleEvent
  <1>3. ASSUME NEW ok \in BOOLEAN, SetAlarmSettles(ok) PROVE OneOpAtATime(alarmQueue')
      BY <1>0, <1>3, SettleKeepsOne DEF SetAlarmSettles
  <1>4. ASSUME NEW a \in Alarms, OnAlarm(a) PROVE OneOpAtATime(alarmQueue')
      BY <1>0, <1>4, OnAlarmQueue, EnqueueKeepsOne
  <1>5. CASE StartArms /\ scheduled # <<>>
    <2>1. 1 \in DOMAIN scheduled
        BY <1>5 DEF TypeOK
    <2>2. timestamp[scheduled[1]] \in Times
        BY <2>1, ListedTime
    <2> QED
        BY <1>0, <1>5, <2>2, EnqueueKeepsOne DEF StartArms
  <1>6. OneOpAtATime(EmptyQueue)
      BY DEF OneOpAtATime, EmptyQueue
  <1>7. CASE Crash
      BY <1>6, <1>7 DEF Crash
  <1>8. ASSUME NEW a \in Alarms, NEW ok \in BOOLEAN, AlarmUnlinked(a, ok)
        PROVE  OneOpAtATime(alarmQueue')
      BY <1>4, <1>8 DEF AlarmUnlinked
  <1>9. ASSUME NEW a \in Alarms, AlarmWakes(a) PROVE OneOpAtATime(alarmQueue')
      BY <1>4, <1>9 DEF AlarmWakes
  <1>10. CASE StartArms /\ scheduled = <<>>
      BY <1>10 DEF StartArms
  <1>11. CASE \/ Tick \/ StateChanges \/ SavePersist \/ RequestWakes \/ StateLoaded
              \/ StartFails \/ Sleep \/ StopFlushes \/ StopReturns
              \/ UNCHANGED vars
      BY <1>11 DEF Tick, StateChanges, SavePersist, RequestWakes, StateLoaded,
                   StartFails, Sleep, StopFlushes, StopReturns, vars
  <1>12. ASSUME NEW g \in Generations, NEW a \in Alarms, AlarmFires(g, a)
         PROVE  OneOpAtATime(alarmQueue')
      BY <1>12 DEF AlarmFires
  <1> QED
      BY <1>2, <1>3, <1>5, <1>7, <1>8, <1>9, <1>10, <1>11, <1>12 DEF Next

(* Whoever waits for the queue is where that wait is awaited. *)
LEMMA CallbackStep ==
    TypeOK /\ ListInv /\ AlarmQueueInv /\ CallbackInv /\ [Next]_vars => CallbackInv'
  <1> SUFFICES ASSUME TypeOK, ListInv, AlarmQueueInv, CallbackInv, [Next]_vars
               PROVE  CallbackInv'
      OBVIOUS
  <1>0. /\ alarmQueue \in Queues(Times, Waiters) /\ OneOpAtATime(alarmQueue)
        /\ Starter \in Waiters /\ Caller \in Waiters /\ Alarms \subseteq Waiters
        /\ Starter \notin Alarms /\ Caller \notin Alarms /\ Starter # Caller
        /\ pc \in [Alarms -> PCs] /\ taken \in [Alarms -> SUBSET Events]
      BY ScheduleAssumption DEF TypeOK, AlarmQueueInv, Waiters, Starter, Caller
  <1>1. CASE UNCHANGED <<inst, alarmQueue, pc, taken>>
      BY <1>1 DEF CallbackInv, Running
  <1>2. ASSUME NEW e \in Events, NEW t \in Times, ScheduleEvent(e, t) PROVE CallbackInv'
    <2>1. CASE alarmQueue' = alarmQueue
        BY <1>1, <1>2, <2>1 DEF ScheduleEvent
    <2>2. CASE alarmQueue' = EnqueueOp(alarmQueue, t, Caller)
      <3>1. \A w \in Alarms \union {Starter} :
               /\ Waits(alarmQueue', w) <=> Waits(alarmQueue, w)
               /\ WaitsOnce(alarmQueue', w)
          BY <1>0, <2>2, EnqueueWaits DEF CallbackInv
      <3> QED
          BY <1>2, <3>1 DEF ScheduleEvent, CallbackInv, Running
    <2> QED
        BY <1>2, <2>1, <2>2 DEF ScheduleEvent
  <1>3. ASSUME NEW ok \in BOOLEAN, SetAlarmSettles(ok) PROVE CallbackInv'
    <2>1. PICK l \in alarmQueue.loops :
              /\ alarmQueue' = SettleOp(alarmQueue, l)
              /\ pc' = [a \in Alarms |-> IF a \in l.cycle THEN "idle" ELSE pc[a]]
              /\ taken' = [a \in Alarms |-> IF a \in l.cycle THEN {} ELSE taken[a]]
              /\ inst' = IF Starter \in l.cycle THEN "ready" ELSE inst
        BY <1>3, SetAlarmEffect
    <2>2. \A w \in Alarms \union {Starter} :
             /\ Waits(alarmQueue', w) <=> Waits(alarmQueue, w) /\ w \notin l.cycle
             /\ WaitsOnce(alarmQueue', w)
      <3> SUFFICES ASSUME NEW w \in Alarms \union {Starter}
                   PROVE  /\ Waits(alarmQueue', w) <=> Waits(alarmQueue, w) /\ w \notin l.cycle
                          /\ WaitsOnce(alarmQueue', w)
          OBVIOUS
      <3>1. WaitsOnce(alarmQueue, w)
          BY DEF CallbackInv
      <3> QED
          BY <1>0, <2>1, <3>1, SettleWaits
    <2>3. Running
        BY DEF CallbackInv, EmptyQueue
    <2>4. Running'
        BY <2>1, <2>3 DEF Running
    <2>5. Waits(alarmQueue', Starter) => inst' = "arming"
        BY <2>1, <2>2 DEF CallbackInv
    <2>6. \A a \in Alarms : /\ Waits(alarmQueue', a) <=> pc'[a] = "settingAlarm"
                            /\ pc'[a] # "settingAlarm" => taken'[a] = {}
        BY <2>1, <2>2 DEF CallbackInv
    <2> QED
        BY <2>2, <2>4, <2>5, <2>6 DEF CallbackInv
  <1>4. ASSUME NEW a \in Alarms, OnAlarm(a), Running, UNCHANGED inst,
               pc[a] \in {"unlinking", "waking"}
        PROVE  CallbackInv'
    <2>0. pc[a] # "settingAlarm" /\ taken[a] = {} /\ ~Waits(alarmQueue, a)
        BY <1>4 DEF CallbackInv
    <2>1. CASE /\ UNCHANGED <<alarmQueue, taken>>
               /\ pc' = [pc EXCEPT ![a] = "idle"]
        BY <1>0, <1>4, <2>0, <2>1 DEF CallbackInv, Running
    <2>2. ASSUME NEW t \in Times, alarmQueue' = EnqueueOp(alarmQueue, t, a),
                 pc' = [pc EXCEPT ![a] = "settingAlarm"],
                 NEW run, taken' = [taken EXCEPT ![a] = run]
          PROVE  CallbackInv'
      <3>1. \A w \in Alarms \union {Starter} :
               /\ Waits(alarmQueue', w) <=> Waits(alarmQueue, w) \/ w = a
               /\ WaitsOnce(alarmQueue', w)
          BY <1>0, <2>0, <2>2, EnqueueWaits DEF CallbackInv
      <3>2. \A b \in Alarms : b # a => pc'[b] = pc[b] /\ taken'[b] = taken[b]
          BY <1>0, <2>2
      <3>3. pc'[a] = "settingAlarm" /\ Running'
          BY <1>0, <1>4, <2>2 DEF Running
      <3>4. \A b \in Alarms : /\ Waits(alarmQueue', b) <=> pc'[b] = "settingAlarm"
                              /\ pc'[b] # "settingAlarm" => taken'[b] = {}
          BY <3>1, <3>2, <3>3 DEF CallbackInv
      <3> QED
          BY <1>0, <1>4, <3>1, <3>3, <3>4 DEF CallbackInv
    <2> QED
        BY <1>4, <2>1, <2>2, OnAlarmQueue
  <1>5. ASSUME NEW g \in Generations, NEW a \in Alarms, AlarmFires(g, a) PROVE CallbackInv'
      BY <1>0, <1>5 DEF AlarmFires, instance, CallbackInv, Running
  <1>6. ASSUME NEW a \in Alarms, NEW ok \in BOOLEAN, AlarmUnlinked(a, ok) PROVE CallbackInv'
    <2>1. CASE Running /\ OnAlarm(a) /\ UNCHANGED inst
        BY <1>4, <1>6, <2>1 DEF AlarmUnlinked
    <2>2. CASE ~Running
        BY <1>0, <1>6, <2>2 DEF AlarmUnlinked, CallbackInv, Running, Waits, EmptyQueue
    <2> QED
        BY <1>6, <2>1, <2>2 DEF AlarmUnlinked
  <1>7. ASSUME NEW a \in Alarms, AlarmWakes(a) PROVE CallbackInv'
      BY <1>4, <1>7 DEF AlarmWakes, Running
  <1>8. CASE RequestWakes \/ StateLoaded \/ Sleep \/ StopFlushes
      BY <1>8 DEF RequestWakes, StateLoaded, Sleep, StopFlushes, CallbackInv, Running
  <1>9. CASE StartArms
    <2>1. CASE scheduled = <<>>
        BY <1>9, <2>1 DEF StartArms, CallbackInv, Running
    <2>2. CASE scheduled # <<>>
      <3>1. 1 \in DOMAIN scheduled
          BY <2>2 DEF TypeOK
      <3>2. timestamp[scheduled[1]] \in Times
          BY <3>1, ListedTime
      <3>3. ~Waits(alarmQueue, Starter)
          BY <1>9 DEF StartArms, CallbackInv
      <3>4. \A w \in Alarms \union {Starter} :
               /\ Waits(alarmQueue', w) <=> Waits(alarmQueue, w) \/ w = Starter
               /\ WaitsOnce(alarmQueue', w)
          BY <1>0, <1>9, <2>2, <3>2, <3>3, EnqueueWaits DEF StartArms, CallbackInv
      <3> QED
          BY <1>0, <1>9, <2>2, <3>4 DEF StartArms, CallbackInv, Running
    <2> QED
        BY <2>1, <2>2
  <1>10. CASE StartFails
      BY <1>0, <1>10 DEF StartFails, CallbackInv, Running
  <1>11. CASE StopReturns
    <2>1. alarmQueue = EmptyQueue
        BY <1>0, <1>11 DEF StopReturns, RunningDrainLoop, OneOpAtATime
    <2> QED
        BY <1>11, <2>1 DEF StopReturns, CallbackInv, Waits, EmptyQueue
  <1>12. CASE Crash
      BY <1>12 DEF Crash, CallbackInv, Waits, WaitsOnce, EmptyQueue
  <1>13. CASE Tick \/ StateChanges \/ SavePersist \/ UNCHANGED vars
      BY <1>1, <1>13 DEF Tick, StateChanges, SavePersist, instance, vars
  <1> QED
      BY <1>2, <1>3, <1>5, <1>6, <1>7, <1>8, <1>9, <1>10, <1>11, <1>12, <1>13 DEF Next

(* What is left of the list is sorted and without what was removed. *)
LEMMA RemoveKeepsList ==
    ASSUME TypeOK, ListInv, NEW run, NEW rest \in Seq(Events), Removes(run, rest)
    PROVE  /\ Sorted(rest) /\ IsInjective(rest)
           /\ Range(rest) \subseteq Range(scheduled) /\ run \subseteq Range(scheduled)
           /\ run \intersect Range(rest) = {}
           /\ \A e, f \in run : e = f
  <1>1. CASE run = {} /\ rest = scheduled
      BY <1>1 DEF ListInv, ScheduleSorted
  <1>2. CASE /\ scheduled # <<>>
             /\ run = {scheduled[1]}
             /\ Len(scheduled) = Len(rest) + 1
             /\ \A i \in 1 .. Len(rest) : rest[i] = scheduled[i + 1]
    <2>1. /\ Len(rest) \in Nat /\ DOMAIN rest = 1 .. Len(rest)
          /\ DOMAIN scheduled = 1 .. Len(rest) + 1
        BY <1>2 DEF TypeOK
    <2>2. \A i \in DOMAIN rest : /\ i \in Nat /\ i + 1 \in DOMAIN scheduled
                                 /\ rest[i] = scheduled[i + 1] /\ i + 1 # 1
        BY <1>2, <2>1
    <2>3. 1 \in DOMAIN scheduled
        BY <2>1
    <2>4. Sorted(rest)
      <3> SUFFICES ASSUME NEW i \in DOMAIN rest, NEW j \in DOMAIN rest, i < j
                   PROVE  timestamp[rest[i]] <= timestamp[rest[j]]
          BY DEF Sorted
      <3>1. i + 1 < j + 1
          BY <2>2
      <3> QED
          BY <2>2, <3>1 DEF ListInv, ScheduleSorted, Sorted
    <2>5. IsInjective(rest)
      <3> SUFFICES ASSUME NEW i \in DOMAIN rest, NEW j \in DOMAIN rest, rest[i] = rest[j]
                   PROVE  i = j
          BY DEF IsInjective
      <3>1. i + 1 = j + 1
          BY <2>2 DEF ListInv, IsInjective
      <3> QED
          BY <2>2, <3>1
    <2>6. Range(rest) \subseteq Range(scheduled) /\ run \subseteq Range(scheduled)
        BY <1>2, <2>2, <2>3 DEF Range
    <2>7. \A i \in DOMAIN rest : rest[i] # scheduled[1]
        BY <2>2, <2>3 DEF ListInv, IsInjective
    <2>8. run \intersect Range(rest) = {}
        BY <1>2, <2>7 DEF Range
    <2> QED
        BY <1>2, <2>4, <2>5, <2>6, <2>8
  <1> QED
      BY <1>1, <1>2 DEF Removes

(* #scheduleEventInner keeps the list sorted and adds the event once. *)
LEMMA ScheduleKeepsList ==
    ASSUME TypeOK, ListInv, NEW e \in Events, NEW t \in Times, ScheduleEvent(e, t)
    PROVE  /\ Sorted(scheduled)' /\ IsInjective(scheduled')
           /\ Range(scheduled') \subseteq Range(scheduled) \union {e}
  <1>1. PICK i \in 1 .. Len(scheduled) + 1 :
              /\ scheduled' = Insert(scheduled, i, e)
              /\ timestamp' \in [Events -> Nat] /\ timestamp'[e] = t
              /\ e \notin Range(scheduled)
              /\ \A f \in Range(scheduled) : f \in Events /\ timestamp'[f] = timestamp[f]
              /\ \A j \in DOMAIN scheduled :
                    IF j < i THEN timestamp'[scheduled[j]] <= t
                             ELSE t < timestamp'[scheduled[j]]
      BY ScheduleEventEffect
  <1> DEFINE n == Len(scheduled)
  <1>2. n \in Nat /\ DOMAIN scheduled = 1 .. n /\ t \in Nat /\ scheduled \in Seq(Events)
      BY DEF TypeOK, Times
  <1>3. /\ DOMAIN scheduled' = 1 .. n + 1
        /\ \A j \in 1 .. n + 1 :
              scheduled'[j] = IF j < i THEN scheduled[j]
                              ELSE IF j = i THEN e ELSE scheduled[j - 1]
    <2>1. DOMAIN scheduled' = 1 .. n + 1
        BY <1>1 DEF Insert
    <2>2. \A j \in 1 .. Len(scheduled) + 1 :
             Insert(scheduled, i, e)[j] = IF j < i THEN scheduled[j]
                                          ELSE IF j = i THEN e ELSE scheduled[j - 1]
        BY <1>2, InsertHolds
    <2> QED
        BY <1>1, <2>1, <2>2
  <1> HIDE DEF n
  <1>4. \A j \in 1 .. n + 1 : /\ j < i => j \in 1 .. n
                              /\ j > i => j - 1 \in 1 .. n
      BY <1>1, <1>2 DEF n
  <1>5. \A j \in 1 .. n : /\ scheduled[j] \in Range(scheduled) /\ scheduled[j] # e
                          /\ timestamp'[scheduled[j]] \in Nat
      BY <1>1, <1>2 DEF Range
  <1>6. \A j, k \in 1 .. n : j < k => timestamp'[scheduled[j]] <= timestamp'[scheduled[k]]
    <2>1. \A j \in 1 .. n : timestamp'[scheduled[j]] = timestamp[scheduled[j]]
        BY <1>1, <1>5
    <2>2. \A j, k \in 1 .. n : j < k => timestamp[scheduled[j]] <= timestamp[scheduled[k]]
        BY <1>2 DEF ListInv, ScheduleSorted, Sorted
    <2> QED
        BY <2>1, <2>2
  <1>7. Sorted(scheduled)'
    <2> SUFFICES ASSUME NEW j \in 1 .. n + 1, NEW k \in 1 .. n + 1, j < k
                 PROVE  timestamp'[scheduled'[j]] <= timestamp'[scheduled'[k]]
        BY <1>3 DEF Sorted
    <2>1. CASE k < i
        BY <1>2, <1>3, <1>4, <1>6, <2>1
    <2>2. CASE k = i
      <3>1. scheduled'[j] = scheduled[j] /\ scheduled'[k] = e /\ j < i
          BY <1>2, <1>3, <2>2
      <3>2. j \in 1 .. n
          BY <1>4, <3>1
      <3> QED
          BY <1>1, <1>2, <3>1, <3>2
    <2>3. CASE j < i /\ i < k
      <3>1. scheduled'[j] = scheduled[j] /\ scheduled'[k] = scheduled[k - 1]
          BY <1>2, <1>3, <2>3
      <3>2. j \in 1 .. n /\ k - 1 \in 1 .. n /\ ~(k - 1 < i)
          BY <1>2, <1>4, <2>3
      <3>3. timestamp'[scheduled[j]] <= t /\ t < timestamp'[scheduled[k - 1]]
          BY <1>1, <1>2, <2>3, <3>2
      <3>4. timestamp'[scheduled[j]] \in Nat /\ timestamp'[scheduled[k - 1]] \in Nat
          BY <1>5, <3>2
      <3> QED
          BY <1>2, <3>1, <3>3, <3>4
    <2>4. CASE j = i
      <3>1. scheduled'[j] = e /\ scheduled'[k] = scheduled[k - 1]
          BY <1>2, <1>3, <2>4
      <3>2. k - 1 \in 1 .. n /\ ~(k - 1 < i)
          BY <1>2, <1>4, <2>4
      <3>3. t < timestamp'[scheduled[k - 1]] /\ timestamp'[scheduled[k - 1]] \in Nat
          BY <1>1, <1>2, <1>5, <3>2
      <3> QED
          BY <1>1, <1>2, <3>1, <3>3
    <2>5. CASE i < j
      <3>1. scheduled'[j] = scheduled[j - 1] /\ scheduled'[k] = scheduled[k - 1]
          BY <1>2, <1>3, <2>5
      <3>2. j - 1 \in 1 .. n /\ k - 1 \in 1 .. n /\ j - 1 < k - 1
          BY <1>2, <1>4, <2>5
      <3> QED
          BY <1>6, <3>1, <3>2
    <2> QED
        BY <1>2, <2>1, <2>2, <2>3, <2>4, <2>5
  <1>8. \A j, k \in 1 .. n : scheduled[j] = scheduled[k] => j = k
      BY <1>2 DEF ListInv, IsInjective
  <1>9. IsInjective(scheduled')
    <2> SUFFICES ASSUME NEW j \in 1 .. n + 1, NEW k \in 1 .. n + 1,
                        scheduled'[j] = scheduled'[k], j # k
                 PROVE  FALSE
        BY <1>3 DEF IsInjective
    <2>1. CASE j = i \/ k = i
        BY <1>2, <1>3, <1>4, <1>5, <2>1
    <2>2. CASE j # i /\ k # i
        BY <1>2, <1>3, <1>4, <1>8, <2>2
    <2> QED
        BY <2>1, <2>2
  <1>10. \A j \in 1 .. n + 1 : scheduled'[j] \in Range(scheduled) \union {e}
    <2> SUFFICES ASSUME NEW j \in 1 .. n + 1
                 PROVE  scheduled'[j] \in Range(scheduled) \union {e}
        OBVIOUS
    <2>1. CASE j = i
        BY <1>2, <1>3, <2>1
    <2>2. CASE j # i
        BY <1>2, <1>3, <1>4, <1>5, <2>2
    <2> QED
        BY <2>1, <2>2
  <1> QED
      BY <1>3, <1>7, <1>9, <1>10 DEF Range

(* The lists stay sorted and every event stays in one place. *)
LEMMA ListStep ==
    TypeOK /\ ListInv /\ AlarmQueueInv /\ CallbackInv /\ [Next]_vars => ListInv'
  <1> SUFFICES ASSUME TypeOK, ListInv, AlarmQueueInv, CallbackInv, [Next]_vars
               PROVE  ListInv'
      OBVIOUS
  <1>0. taken \in [Alarms -> SUBSET Events] /\ TakenOnce
        /\ Sorted(scheduled) /\ Sorted(stored)
        /\ IsInjective(scheduled) /\ IsInjective(stored)
      BY DEF TypeOK, ListInv, ScheduleSorted
  <1>1. CASE UNCHANGED <<scheduled, stored, timestamp, taken>>
      BY <1>1 DEF ListInv, ScheduleSorted, Sorted, TakenOnce
  <1>2. ASSUME NEW e \in Events, NEW t \in Times, ScheduleEvent(e, t) PROVE ListInv'
    <2>1. /\ Sorted(scheduled)' /\ IsInjective(scheduled')
          /\ Range(scheduled') \subseteq Range(scheduled) \union {e}
        BY <1>2, ScheduleKeepsList
    <2>2. /\ e \notin Range(stored) /\ \A a \in Alarms : e \notin taken[a]
          /\ UNCHANGED <<stored, taken>>
          /\ timestamp' = [timestamp EXCEPT ![e] = t]
        BY <1>2 DEF ScheduleEvent, ListInv
    <2>3. t # NoAlarm
        BY DEF Times, NoAlarm
    <2>4. \A f \in Events : /\ f # e => timestamp'[f] = timestamp[f]
                            /\ timestamp'[e] = t
        BY <2>2 DEF TypeOK
    <2>5. \A i \in DOMAIN stored : stored[i] \in Events /\ stored[i] # e
        BY <2>2 DEF TypeOK, Range
    <2>6. Sorted(stored)'
        BY <1>0, <2>2, <2>4, <2>5 DEF Sorted
    <2>7. TakenOnce'
        BY <1>0, <2>1, <2>2 DEF TakenOnce
    <2>8. \A f \in Events :
             timestamp'[f] = NoAlarm =>
                 /\ f \notin Range(scheduled') /\ f \notin Range(stored')
                 /\ \A a \in Alarms : f \notin taken'[a]
        BY <2>1, <2>2, <2>3, <2>4 DEF ListInv
    <2> QED
        BY <1>0, <2>1, <2>2, <2>6, <2>7, <2>8 DEF ListInv, ScheduleSorted
  <1>3. CASE SavePersist \/ StopFlushes
    <2>1. /\ UNCHANGED <<scheduled, timestamp, taken>>
          /\ stored' = scheduled \/ stored' = stored
        BY <1>3 DEF SavePersist, StopFlushes
    <2>2. Sorted(scheduled)' /\ Sorted(stored)'
        BY <1>0, <2>1 DEF Sorted
    <2> QED
        BY <1>0, <2>1, <2>2 DEF ListInv, ScheduleSorted, TakenOnce
  <1>4. ASSUME NEW ok \in BOOLEAN, SetAlarmSettles(ok) PROVE ListInv'
    <2>1. /\ UNCHANGED <<scheduled, stored, timestamp>>
          /\ \A a \in Alarms : taken'[a] \subseteq taken[a]
        BY <1>4 DEF SetAlarmSettles
    <2>2. TakenOnce'
        BY <1>0, <2>1 DEF TakenOnce
    <2> QED
        BY <2>1, <2>2 DEF ListInv, ScheduleSorted, Sorted
  <1>5. ASSUME NEW a \in Alarms, OnAlarm(a), UNCHANGED <<stored, timestamp>>,
               pc[a] \in {"unlinking", "waking"}
        PROVE  ListInv'
    <2>1. PICK run \in SUBSET Events, rest \in Seq(Events) :
              Removes(run, rest) /\ RunsOrArms(a, run, rest)
        BY <1>5, OnAlarmCases
    <2>2. /\ Sorted(rest) /\ IsInjective(rest)
          /\ Range(rest) \subseteq Range(scheduled) /\ run \subseteq Range(scheduled)
          /\ run \intersect Range(rest) = {}
          /\ \A e, f \in run : e = f
        BY <2>1, RemoveKeepsList
    <2>3. /\ scheduled' = rest
          /\ \A b \in Alarms : taken'[b] = taken[b] \/ (b = a /\ taken'[b] = run)
      <3>1. taken' = taken \/ taken' = [taken EXCEPT ![a] = run]
          BY <2>1 DEF RunsOrArms
      <3>2. scheduled' = rest
          BY <2>1 DEF RunsOrArms
      <3> QED
          BY <1>0, <3>1, <3>2
    <2>4. Sorted(scheduled)' /\ Sorted(stored)'
        BY <1>0, <1>5, <2>2, <2>3 DEF Sorted
    <2>5. TakenOnce'
        BY <1>0, <2>2, <2>3 DEF TakenOnce
    <2>6. \A e \in Events :
             timestamp'[e] = NoAlarm =>
                 /\ e \notin Range(scheduled') /\ e \notin Range(stored')
                 /\ \A b \in Alarms : e \notin taken'[b]
        BY <1>5, <2>2, <2>3 DEF ListInv
    <2> QED
        BY <1>0, <1>5, <2>2, <2>3, <2>4, <2>5, <2>6 DEF ListInv, ScheduleSorted
  <1>6. ASSUME NEW a \in Alarms, NEW ok \in BOOLEAN, AlarmUnlinked(a, ok) PROVE ListInv'
    <2>1. CASE Running /\ OnAlarm(a)
        BY <1>5, <1>6, <2>1 DEF AlarmUnlinked
    <2>2. CASE UNCHANGED <<scheduled, taken>>
        BY <1>1, <1>6, <2>2 DEF AlarmUnlinked
    <2> QED
        BY <1>6, <2>1, <2>2 DEF AlarmUnlinked
  <1>7. ASSUME NEW a \in Alarms, AlarmWakes(a) PROVE ListInv'
      BY <1>5, <1>7 DEF AlarmWakes
  <1>8. CASE StateLoaded
    <2>1. \A a \in Alarms : taken[a] = {}
        BY <1>8 DEF StateLoaded, CallbackInv, Running, Waits, EmptyQueue
    <2>2. scheduled' = stored /\ UNCHANGED <<stored, timestamp, taken>>
        BY <1>8 DEF StateLoaded
    <2>3. Sorted(scheduled)' /\ Sorted(stored)'
        BY <1>0, <2>2 DEF Sorted
    <2>4. TakenOnce'
        BY <2>1, <2>2 DEF TakenOnce
    <2> QED
        BY <1>0, <2>2, <2>3, <2>4 DEF ListInv, ScheduleSorted
  <1>9. CASE StopReturns \/ Crash
    <2>1. /\ scheduled' = <<>> /\ UNCHANGED <<stored, timestamp>>
          /\ \A a \in Alarms : taken'[a] \subseteq taken[a]
        BY <1>9 DEF StopReturns, Crash
    <2>2. DOMAIN <<>> = {}
        OBVIOUS
    <2>3. Range(<<>>) = {} /\ IsInjective(<<>>)
        BY <2>2 DEF Range, IsInjective
    <2>4. Sorted(scheduled)' /\ Sorted(stored)'
      <3>1. Sorted(scheduled)'
          BY <2>1, <2>2 DEF Sorted
      <3>2. Sorted(stored)'
          BY <1>0, <2>1 DEF Sorted
      <3> QED
          BY <3>1, <3>2
    <2>5. TakenOnce'
        BY <1>0, <2>1, <2>3 DEF TakenOnce
    <2> QED
        BY <1>0, <2>1, <2>3, <2>4, <2>5 DEF ListInv, ScheduleSorted
  <1>10. CASE \/ Tick \/ StateChanges \/ RequestWakes \/ StartArms \/ StartFails
              \/ Sleep \/ UNCHANGED vars
      BY <1>1, <1>10 DEF Tick, StateChanges, RequestWakes, StartArms, StartFails,
                         Sleep, instance, vars
  <1>11. ASSUME NEW g \in Generations, NEW a \in Alarms, AlarmFires(g, a) PROVE ListInv'
      BY <1>1, <1>11 DEF AlarmFires, instance
  <1> QED
      BY <1>2, <1>3, <1>4, <1>6, <1>7, <1>8, <1>9, <1>10, <1>11 DEF Next

(* A sleep under way is still to be counted. *)
LEMMA SleepStep == TypeOK /\ SleepInv /\ [Next]_vars => SleepInv'
  BY DEF TypeOK, SleepInv, Next, vars, instance, driver, hist, Tick, ScheduleEvent,
         StateChanges, SavePersist, SetAlarmSettles, AlarmFires, AlarmUnlinked,
         AlarmWakes, RequestWakes, StateLoaded, StartArms, StartFails, Sleep,
         StopFlushes, StopReturns, Crash

(* The alarm of the first event is set, will be set, or is in hand. *)
LEMMA ArmedStep ==
    TypeOK /\ ScheduleInv /\ [Next]_vars => ArmedInv'
  <1> SUFFICES ASSUME TypeOK, AlarmQueueInv, CallbackInv, ListInv, ArmedInv,
                      [Next]_vars, scheduled' # <<>>
               PROVE  ArmedInv'
      BY DEF ScheduleInv, ArmedInv
  <1>0. /\ alarmQueue \in Queues(Times, Waiters) /\ OneOpAtATime(alarmQueue)
        /\ Starter \in Waiters /\ Caller \in Waiters /\ Alarms \subseteq Waiters
        /\ pc \in [Alarms -> PCs]
      BY DEF TypeOK, AlarmQueueInv, Waiters
  <1>1. ASSUME alarmQueue'.loops # {}, SetsLast(alarmQueue', timestamp'[scheduled'[1]])
        PROVE  ArmedInv'
      BY <1>1 DEF ArmedInv
  <1>2. CASE /\ UNCHANGED <<alarmQueue, pc, alarmTimer, alarmFile, failed>>
             /\ scheduled # <<>> /\ timestamp'[scheduled'[1]] = timestamp[scheduled[1]]
             /\ inst' \in {"arming", "ready", "stopping", "flushed"}
                   => inst \in {"arming", "ready", "stopping", "flushed"}
      BY <1>2 DEF ArmedInv, AlarmInHand
  <1>3. ASSUME NEW e \in Events, NEW t \in Times, ScheduleEvent(e, t) PROVE ArmedInv'
    <2>1. PICK i \in 1 .. Len(scheduled) + 1 :
              /\ scheduled' = Insert(scheduled, i, e)
              /\ alarmQueue' = IF i = 1 THEN EnqueueOp(alarmQueue, t, Caller)
                               ELSE alarmQueue
              /\ timestamp'[e] = t
              /\ \A f \in Range(scheduled) : f \in Events /\ timestamp'[f] = timestamp[f]
        BY <1>3, ScheduleEventEffect
    <2>2. scheduled \in Seq(Events) /\ Len(scheduled) \in Nat
        BY DEF TypeOK
    <2>3. 1 \in 1 .. Len(scheduled) + 1
        BY <2>2
    <2>4. scheduled'[1] = IF 1 < i THEN scheduled[1]
                          ELSE IF 1 = i THEN e ELSE scheduled[1 - 1]
      <3>1. \A j \in 1 .. Len(scheduled) + 1 :
               Insert(scheduled, i, e)[j] = IF j < i THEN scheduled[j]
                                            ELSE IF j = i THEN e ELSE scheduled[j - 1]
          BY <2>2, InsertHolds
      <3>2. scheduled' = Insert(scheduled, i, e)
          BY <2>1
      <3> QED
          BY <2>3, <3>1, <3>2
    <2>5. CASE i = 1
      <3>1. timestamp'[scheduled'[1]] = t
          BY <2>1, <2>4, <2>5
      <3>2. alarmQueue' = EnqueueOp(alarmQueue, t, Caller)
          BY <2>1, <2>5
      <3> QED
          BY <1>0, <1>1, <3>1, <3>2, EnqueueKeepsOne
    <2>6. CASE i # 1
      <3>1. 1 < i /\ 1 \in 1 .. Len(scheduled)
          BY <2>1, <2>2, <2>6
      <3>2. scheduled # <<>> /\ scheduled[1] \in Range(scheduled)
          BY <2>2, <3>1 DEF Range
      <3>3. timestamp'[scheduled'[1]] = timestamp[scheduled[1]]
          BY <2>1, <2>4, <3>1, <3>2
      <3>4. UNCHANGED <<inst, alarmQueue, pc, alarmTimer, alarmFile, failed>>
          BY <1>3, <2>1, <2>6 DEF ScheduleEvent, driver, hist
      <3> QED
          BY <1>2, <3>2, <3>3, <3>4
    <2> QED
        BY <2>5, <2>6
  <1>4. ASSUME NEW ok \in BOOLEAN, SetAlarmSettles(ok) PROVE ArmedInv'
    <2>1. PICK l \in alarmQueue.loops : \E t \in l.ops :
              /\ IF ok
                 THEN alarmFile' = t /\ alarmTimer' = ScheduleAlarmTimeout(t)
                 ELSE failed'
              /\ alarmQueue' = SettleOp(alarmQueue, l)
              /\ UNCHANGED <<scheduled, timestamp>>
        BY <1>4, SetAlarmEffect
    <2>2. PICK t \in l.ops :
              /\ IF ok
                 THEN alarmFile' = t /\ alarmTimer' = ScheduleAlarmTimeout(t)
                 ELSE failed'
              /\ alarmQueue' = SettleOp(alarmQueue, l)
              /\ UNCHANGED <<scheduled, timestamp>>
        BY <2>1
    <2> DEFINE first == timestamp[scheduled[1]]
    <2>3. 1 \in DOMAIN scheduled /\ scheduled # <<>>
        BY <2>2 DEF TypeOK
    <2>4. first \in Times /\ first = timestamp'[scheduled'[1]]
        BY <2>2, <2>3, ListedTime
    <2>5. SetsLast(alarmQueue, first)
        BY <2>3 DEF ArmedInv
    <2> HIDE DEF first
    <2>6. IF alarmQueue'.loops = {} THEN l.ops = {first} ELSE SetsLast(alarmQueue', first)
        BY <1>0, <2>2, <2>4, <2>5, SettleKeepsOne
    <2>7. CASE alarmQueue'.loops # {}
        BY <1>1, <2>4, <2>6, <2>7
    <2>8. CASE alarmQueue'.loops = {}
      <3>1. t = first
          BY <2>2, <2>6, <2>8
      <3>2. CASE ~ok
          BY <2>2, <2>8, <3>2 DEF ArmedInv
      <3>3. CASE ok
        <4>1. /\ alarmTimer \in [Generations -> 0 .. MaxTime] /\ generation \in Generations
              /\ MaxTime \in Nat
            BY ScheduleAssumption DEF TypeOK
        <4>2. first \in Nat /\ first # NoAlarm
            BY <2>4 DEF Times, NoAlarm
        <4>3. alarmFile' = first /\ alarmTimer' = ScheduleAlarmTimeout(first)
            BY <2>2, <3>1, <3>3
        <4>4. alarmTimer'[generation] # NoAlarm /\ alarmTimer'[generation] <= first
          <5>1. CASE alarmTimer[generation] # NoAlarm /\ first >= alarmTimer[generation]
              BY <4>1, <4>2, <4>3, <5>1 DEF ScheduleAlarmTimeout
          <5>2. CASE ~(alarmTimer[generation] # NoAlarm /\ first >= alarmTimer[generation])
            <6>1. alarmTimer' = [alarmTimer EXCEPT ![generation] = first]
                BY <4>3, <5>2 DEF ScheduleAlarmTimeout
            <6> QED
                BY <4>1, <4>2, <6>1
          <5> QED
              BY <5>1, <5>2
        <4>5. alarmFile' # NoAlarm /\ alarmFile' <= first
            BY <4>2, <4>3
        <4> QED
            BY <2>4, <2>8, <4>1, <4>4, <4>5 DEF ArmedInv
      <3> QED
          BY <3>2, <3>3
    <2> QED
        BY <2>7, <2>8
  <1>5. ASSUME NEW g \in Generations, NEW a \in Alarms, AlarmFires(g, a) PROVE ArmedInv'
    <2>1. AlarmInHand'
        BY <1>0, <1>5 DEF AlarmFires, AlarmInHand
    <2> QED
        BY <1>5, <2>1 DEF AlarmFires, instance, ArmedInv
  <1>6. ASSUME NEW a \in Alarms, OnAlarm(a), UNCHANGED timestamp PROVE ArmedInv'
    <2>1. PICK t \in Times : t = timestamp[scheduled'[1]]
                             /\ alarmQueue' = EnqueueOp(alarmQueue, t, a)
        BY <1>6, OnAlarmQueue
    <2> QED
        BY <1>0, <1>1, <1>6, <2>1, EnqueueKeepsOne
  <1>7. ASSUME ~Running, alarmQueue' = alarmQueue, inst' \in {"loading", "starting"}
        PROVE  ArmedInv'
      BY <1>7 DEF ArmedInv, CallbackInv, EmptyQueue
  <1>8. ASSUME NEW a \in Alarms, NEW ok \in BOOLEAN, AlarmUnlinked(a, ok) PROVE ArmedInv'
      BY <1>6, <1>7, <1>8 DEF AlarmUnlinked
  <1>9. ASSUME NEW a \in Alarms, AlarmWakes(a) PROVE ArmedInv'
      BY <1>6, <1>9 DEF AlarmWakes
  <1>10. CASE RequestWakes \/ StateLoaded
      BY <1>7, <1>10 DEF RequestWakes, StateLoaded, Running
  <1>11. CASE StartArms
    <2>1. 1 \in DOMAIN scheduled /\ scheduled # <<>>
        BY <1>11 DEF StartArms, TypeOK
    <2>2. timestamp[scheduled[1]] \in Times
        BY <2>1, ListedTime
    <2>3. /\ alarmQueue' = EnqueueOp(alarmQueue, timestamp[scheduled[1]], Starter)
          /\ UNCHANGED <<scheduled, timestamp>>
        BY <1>11, <2>1 DEF StartArms
    <2> QED
        BY <1>0, <1>1, <2>2, <2>3, EnqueueKeepsOne
  <1>12. CASE StartFails
      BY <1>12 DEF StartFails, driver, hist, ArmedInv
  <1>13. CASE Tick \/ StateChanges \/ SavePersist \/ Sleep \/ StopFlushes \/ UNCHANGED vars
      BY <1>2, <1>13 DEF Tick, StateChanges, SavePersist, Sleep, StopFlushes, vars,
                         instance, driver, hist
  <1>14. CASE StopReturns \/ Crash
      BY <1>14 DEF StopReturns, Crash
  <1> QED
      BY <1>3, <1>4, <1>5, <1>8, <1>9, <1>10, <1>11, <1>12, <1>13, <1>14 DEF Next

-----------------------------------------------------------------------------
(* The theorems.                                                            *)

(* The invariant holds in the initial state. *)
LEMMA InitInv == Init => TypeOK /\ ScheduleInv
  <1> SUFFICES ASSUME Init PROVE TypeOK /\ ScheduleInv
      OBVIOUS
  <1>1. DOMAIN <<>> = {}
      OBVIOUS
  <1>2. Range(<<>>) = {} /\ IsInjective(<<>>)
      BY <1>1 DEF Range, IsInjective
  <1>3. TypeOK
    <2>1. EmptyQueue \in Queues(Times, Waiters)
        BY DEF EmptyQueue, Queues
    <2>2. NoAlarm \in 0 .. MaxTime /\ 0 \in Generations /\ 0 \in 0 .. MaxCrashes
        BY ScheduleAssumption DEF NoAlarm, Generations
    <2>3. now \in 0 .. MaxTime
        BY ScheduleAssumption DEF Init
    <2>4. /\ alarmTimer \in [Generations -> 0 .. MaxTime]
          /\ timestamp \in [Events -> 0 .. MaxTime]
          /\ pc \in [Alarms -> PCs] /\ taken \in [Alarms -> SUBSET Events]
        BY <2>2 DEF Init, PCs
    <2> QED
        BY <2>1, <2>2, <2>3, <2>4, EmptySeqOfEvents DEF Init, TypeOK, Insts
  <1>4. AlarmQueueInv
      BY DEF Init, AlarmQueueInv, OneOpAtATime, EmptyQueue
  <1>5. CallbackInv
      BY DEF Init, CallbackInv, Waits, WaitsOnce, EmptyQueue, Running
  <1>6. TakenOnce
      BY DEF Init, TakenOnce
  <1>7. ScheduleSorted
      BY <1>1 DEF Init, ScheduleSorted, Sorted
  <1>8. ListInv
      BY <1>2, <1>6, <1>7 DEF Init, ListInv
  <1>9. ArmedInv /\ SleepInv
      BY DEF Init, ArmedInv, SleepInv
  <1> QED
      BY <1>3, <1>4, <1>5, <1>8, <1>9 DEF ScheduleInv

(* Whatever the events, timers, sleeps, crashes and rejected writes, the    *)
(* types and the inductive invariant hold in every reachable state.         *)
THEOREM ScheduleInvariant == Spec => [](TypeOK /\ ScheduleInv)
  <1>1. TypeOK /\ ScheduleInv /\ [Next]_vars => (TypeOK /\ ScheduleInv)'
      BY TypeStep, AlarmQueueStep, CallbackStep, ListStep, ArmedStep, SleepStep
         DEF ScheduleInv
  <1> QED
      BY InitInv, <1>1, PTL DEF Spec

(* Lists, timers, alarm files and callbacks keep their types. *)
THEOREM ScheduleTypeCorrect == Spec => []TypeOK
  BY ScheduleInvariant, PTL

(* scheduledEvents, in memory and in storage, is always sorted by time. *)
THEOREM ScheduleAlwaysSorted == Spec => []ScheduleSorted
  <1>1. TypeOK /\ ScheduleInv => ScheduleSorted
      BY DEF ScheduleInv, ListInv
  <1> QED
      BY <1>1, ScheduleInvariant, PTL

(* No event is in the list and in the hands of an alarm callback, or in the *)
(* hands of two.                                                            *)
THEOREM EventsTakenOnce == Spec => []TakenOnce
  <1>1. TypeOK /\ ScheduleInv => TakenOnce
      BY DEF ScheduleInv, ListInv
  <1> QED
      BY <1>1, ScheduleInvariant, PTL

(* A ready instance with events always has a timer armed in time, unless an *)
(* alarm operation is under way or an alarm write was rejected.             *)
THEOREM NextEventAlwaysArmed == Spec => []NextEventIsArmed
  <1>1. TypeOK /\ ScheduleInv => NextEventIsArmed
      BY DEF ScheduleInv, ArmedInv, NextEventIsArmed, NoAlarmUnderWay, EmptyQueue,
             AlarmInHand
  <1> QED
      BY <1>1, ScheduleInvariant, PTL

(* In the same states the alarm file names a time no later than the first   *)
(* event, so that the wake-up survives a crash.                             *)
THEOREM NextEventAlwaysOnDisk == Spec => []NextEventIsOnDisk
  <1>1. TypeOK /\ ScheduleInv => NextEventIsOnDisk
      BY DEF ScheduleInv, ArmedInv, NextEventIsOnDisk, NoAlarmUnderWay, EmptyQueue,
             AlarmInHand
  <1> QED
      BY <1>1, ScheduleInvariant, PTL

=============================================================================
