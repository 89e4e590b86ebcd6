--------------------- MODULE ServerSchedulerQueueProofs ---------------------
(***************************************************************************)
(* Theorems about the queue of ServerScheduler: who holds a slot and who   *)
(* holds a job, and what clients are served, for any number of jobs and    *)
(* slots.  They rest on the types proved in ServerSchedulerProofs.         *)
(***************************************************************************)
EXTENDS ServerSchedulerProofs

\* FreeSlotIsIdle, and an assignment is only ever made to a worker that has no
\* job, so that the two reasons for a slot to be busy exclude each other.
SlotInv ==
    /\ FreeSlotIsIdle
    /\ \A s \in Slots : assigned[s] # NoJob => worker[s] \notin HoldingPCs \cup {"refresh"}

\* The steps of a worker inside generate_job, between taking the job and
\* completing it.
HoldingMove(s) ==
    \/ JobEndsEarly(s) \/ BeginPrompt(s) \/ PrefillRequest(s)
    \/ PrefillSleep(s) \/ PrefillGrant(s) \/ SyncInterrupted(s)
    \/ PrefillAbandon(s) \/ PrefillLeave(s) \/ StreamStartFails(s)
    \/ GenerationEnter(s) \/ DecodeStop(s) \/ StreamWriteFails(s)
    \/ EvalRequest(s) \/ EvalWithdraw(s) \/ EvalSleep(s) \/ EvalReturn(s)
    \/ GenerationLeave(s) \/ ReplyCancelled(s) \/ BeginRepair(s)
    \/ Publish(s) \/ SendResponse(s) \/ SendFails(s) \/ FinishJob(s)

\* The list q is in order: of two jobs on it one is ahead of the other.
InOrder(q, ah) == \A j, k \in q : j # k => j \in ah[k] \/ k \in ah[j]

\* The jobs of the set out, and no others, are held, each in one place: the list
\* q, an assignment a or a worker's variable c.
Owners(q, a, c, out) ==
    /\ out = q \cup ({a[s] : s \in Slots} \ {NoJob}) \cup ({c[s] : s \in Slots} \ {NoJob})
    /\ \A s \in Slots : a[s] \notin q /\ c[s] \notin q
    /\ \A s, t \in Slots : a[s] = c[t] => a[s] = NoJob
    /\ \A s, t \in Slots : a[s] = a[t] /\ a[s] # NoJob => s = t
    /\ \A s, t \in Slots : c[s] = c[t] /\ c[s] # NoJob => s = t

\* What the router does with the list q and the assignments a: a job leaves the
\* list for one slot, which had none.
Routed(q, a) ==
    /\ queue' \subseteq q
    /\ \A j \in q \ queue' : \E s \in Slots : assigned'[s] = j
    /\ \A s \in Slots : a[s] # NoJob => assigned'[s] = a[s]
    /\ \A s \in Slots : assigned'[s] \in {a[s]} \cup (q \ queue')
    /\ \A s, t \in Slots : /\ assigned'[s] = assigned'[t]
                           /\ assigned'[s] \in q \ queue'
                           /\ a[s] \notin q /\ a[t] \notin q
                           => s = t

\* The jobs on the stacks of clients that some thread must still let go.
OutstandingJobs == {j \in Jobs : Outstanding(j)}

\* JobOwnership in terms of Owners, with what makes it inductive: the order of
\* the list (so that the router gives no slot to two jobs), a fresh job is not
\* done, and a worker has a job exactly while it holds one by its counter.
OwnerInv ==
    /\ Owners(queue, assigned, current, OutstandingJobs)
    /\ InOrder(queue, ahead)
    /\ \A j \in Jobs : client[j] \in {"none", "enqueue"} => ~done[j]
    /\ \A s \in Slots : current[s] # NoJob <=> worker[s] \in HoldingPCs

-----------------------------------------------------------------------------
(* What the router and the workers do to slots and jobs.                   *)

\* dispatch_jobs_locked gives a slot that is neither busy nor assigned one job
\* of the list and makes it busy, or leaves the slot as it was.
LEMMA DispatchSlots ==
    ASSUME NEW q \in SUBSET Jobs, NEW ah \in [Jobs -> SUBSET Jobs],
           NEW a \in [Slots -> Jobs \cup {NoJob}], NEW b \in [Slots -> BOOLEAN],
           NEW wake \in BOOLEAN,
           Dispatch(q, ah, a, b, wake),
           NEW s \in Slots
    PROVE  \/ assigned'[s] = a[s] /\ busy'[s] = b[s]
           \/ ~b[s] /\ a[s] = NoJob /\ busy'[s] /\ assigned'[s] \in q \ queue'
<1> DEFINE free == {t \in Slots : ~b[t] /\ a[t] = NoJob}
<1>1. PICK r \in Routes(q, ah, free) :
        LET routed == {j \in q : r[j] # NoSlot}
            taken  == {r[j] : j \in routed}
        IN  /\ queue' = q \ routed
            /\ ahead' = [j \in Jobs |-> ah[j] \ routed]
            /\ assigned' = [t \in Slots |-> IF t \in taken
                                            THEN CHOOSE j \in routed : r[j] = t
                                            ELSE a[t]]
            /\ busy' = [t \in Slots |-> t \in taken \/ b[t]]
            /\ idle_asleep' = IF wake \/ routed # {} THEN {} ELSE idle_asleep
  BY DEF Dispatch
<1> DEFINE routed == {j \in q : r[j] # NoSlot}
           taken  == {r[j] : j \in routed}
<1>2. \A j \in q : r[j] \in free \cup {NoSlot}
  BY DEF Routes, Eligible
<1>3. CASE s \in taken
  <2>1. s \in free
    BY <1>2, <1>3
  <2>2. (CHOOSE j \in routed : r[j] = s) \in routed
    BY <1>3
  <2>3. assigned'[s] = (CHOOSE j \in routed : r[j] = s)
    BY <1>1, <1>3
  <2>4. busy'[s] /\ queue' = q \ routed
    BY <1>1, <1>3
  <2> QED
    BY <2>1, <2>2, <2>3, <2>4
<1>4. CASE s \notin taken
  BY <1>1, <1>4
<1> QED
  BY <1>3, <1>4

\* A worker inside generate_job moves to another place inside it and touches
\* neither the list nor the assignments.
LEMMA HoldingMoves ==
    ASSUME WorkerTypeOK, NEW s \in Slots, HoldingMove(s)
    PROVE  /\ UNCHANGED <<queueVars, current, client, done>>
           /\ worker[s] \in HoldingPCs
           /\ \E pc \in HoldingPCs : worker' = [worker EXCEPT ![s] = pc]
<1> USE DEF jobVars, queueVars, bindVars, localVars, workerVars, turnVars,
            tokenVars, modelVars, stopVars
<1>1. ASSUME SyncFails(s)
      PROVE  \E pc \in HoldingPCs : worker' = [worker EXCEPT ![s] = pc]
  <2>1. AfterFailedSync(s) \in HoldingPCs
    BY DEF AfterFailedSync, HoldingPCs, RunningPCs, InnerPCs
  <2> QED
    BY <1>1, <2>1 DEF SyncFails, Goto
<1>2. ASSUME SyncSucceeds(s)
      PROVE  \E pc \in HoldingPCs : worker' = [worker EXCEPT ![s] = pc]
  <2> DEFINE next == CASE phase[s] = "prompt" ->
                              IF JobCancelled(s) THEN "finish" ELSE "ready"
                       [] phase[s] = "rewind" -> "decode"
                       [] phase[s] \in {"repair", "late_repair"} -> "ready"
                       [] OTHER -> "send"
  <2>1. next \in HoldingPCs
    BY DEF HoldingPCs, RunningPCs, InnerPCs
  <2>2. worker' = [worker EXCEPT ![s] = next]
    BY <1>2 DEF SyncSucceeds, Goto
  <2> QED
    BY <2>1, <2>2
<1>3. CASE SyncInterrupted(s) \/ PrefillAbandon(s) \/ PrefillLeave(s)
  <2>1. UNCHANGED <<queueVars, current, client, done>> /\ worker[s] \in HoldingPCs
    BY <1>3 DEF SyncInterrupted, PrefillAbandon, PrefillLeave, HoldingPCs,
       RunningPCs, InnerPCs
  <2>2. \/ SyncFails(s) \/ SyncSucceeds(s)
        \/ worker' = [worker EXCEPT ![s] = "sync"]
    BY <1>3 DEF SyncInterrupted, PrefillAbandon, PrefillLeave, Goto
  <2> QED
    BY <2>1, <2>2, <1>1, <1>2 DEF HoldingPCs, RunningPCs, InnerPCs
<1>4. CASE PrefillSleep(s) \/ EvalSleep(s)
  <2>1. UNCHANGED worker /\ worker[s] \in HoldingPCs
    BY <1>4 DEF PrefillSleep, EvalSleep, HoldingPCs, RunningPCs, InnerPCs
  <2>2. worker' = [worker EXCEPT ![s] = worker[s]]
    BY <2>1 DEF WorkerTypeOK
  <2> QED
    BY <1>4, <2>1, <2>2 DEF PrefillSleep, EvalSleep
<1>5. CASE \/ JobEndsEarly(s) \/ BeginPrompt(s) \/ PrefillRequest(s)
           \/ PrefillGrant(s) \/ StreamStartFails(s) \/ GenerationEnter(s)
           \/ DecodeStop(s) \/ StreamWriteFails(s) \/ EvalRequest(s)
           \/ EvalWithdraw(s) \/ EvalReturn(s)
  BY <1>5 DEF JobEndsEarly, BeginPrompt, PrefillRequest, PrefillGrant,
     StreamStartFails, GenerationEnter, DecodeStop, StreamWriteFails,
     EvalRequest, EvalWithdraw, EvalReturn, BeginSync, Goto, HoldingPCs,
     RunningPCs, InnerPCs
<1>6. CASE \/ GenerationLeave(s) \/ ReplyCancelled(s) \/ BeginRepair(s)
           \/ Publish(s) \/ SendResponse(s) \/ SendFails(s) \/ FinishJob(s)
  BY <1>6 DEF GenerationLeave, ReplyCancelled, BeginRepair, Publish,
     SendResponse, SendFails, FinishJob, BeginSync, Goto, HoldingPCs,
     RunningPCs, InnerPCs
<1> QED
  BY <1>3, <1>4, <1>5, <1>6 DEF HoldingMove

-----------------------------------------------------------------------------
(* A free slot is idle.                                                    *)

\* If every slot of (a, b) is busy for exactly one of the two reasons, so is
\* every slot after the router has run on (a, b) and no worker has moved
\* otherwise than the callers let it.
LEMMA DispatchKeepsSlots ==
    ASSUME NEW q \in SUBSET Jobs, NEW ah \in [Jobs -> SUBSET Jobs],
           NEW a \in [Slots -> Jobs \cup {NoJob}], NEW b \in [Slots -> BOOLEAN],
           NEW wake \in BOOLEAN,
           Dispatch(q, ah, a, b, wake),
           \A s \in Slots :
               /\ b[s] <=> a[s] # NoJob \/ worker'[s] \in HoldingPCs \cup {"refresh"}
               /\ a[s] # NoJob => worker'[s] \notin HoldingPCs \cup {"refresh"}
    PROVE  SlotInv'
<1> SUFFICES ASSUME NEW s \in Slots
             PROVE  /\ busy'[s] <=> \/ assigned'[s] # NoJob
                                    \/ worker'[s] \in HoldingPCs \cup {"refresh"}
                    /\ assigned'[s] # NoJob
                         => worker'[s] \notin HoldingPCs \cup {"refresh"}
  BY DEF SlotInv, FreeSlotIsIdle
<1>1. \/ assigned'[s] = a[s] /\ busy'[s] = b[s]
      \/ ~b[s] /\ a[s] = NoJob /\ busy'[s] /\ assigned'[s] \in q \ queue'
  BY DispatchSlots
<1>2. ASSUME assigned'[s] \in q PROVE assigned'[s] # NoJob
  BY <1>2, SchedulerAssumption
<1> QED
  BY <1>1, <1>2

\* Every step keeps SlotInv: only the router makes a slot busy, only its worker
\* frees it, after the job is complete.
LEMMA SlotInvStep == TypeOK /\ SlotInv /\ [Next]_vars => SlotInv'
<1> SUFFICES ASSUME TypeOK, SlotInv, [Next]_vars PROVE SlotInv'
  OBVIOUS
<1> USE DEF TypeOK, QueueTypeOK, WorkerTypeOK
<1>0. \A s \in Slots :
        /\ busy[s] <=> assigned[s] # NoJob \/ worker[s] \in HoldingPCs \cup {"refresh"}
        /\ assigned[s] # NoJob => worker[s] \notin HoldingPCs \cup {"refresh"}
  BY DEF SlotInv, FreeSlotIsIdle
<1> USE DEF jobVars, queueVars, bindVars, localVars, workerVars, turnVars,
            tokenVars, modelVars, stopVars
<1>1. ASSUME NEW j \in Jobs, Enqueue(j) PROVE SlotInv'
  <2>1. Dispatch(queue \cup {j}, [ahead EXCEPT ![j] = queue], assigned, busy, TRUE)
        /\ worker' = worker
    BY <1>1 DEF Enqueue
  <2> QED
    BY <2>1, <1>0, DispatchKeepsSlots, ZenonT(40)
<1>2. ASSUME NEW j \in Jobs, CancelDetach(j) PROVE SlotInv'
  <2>1. CASE UNCHANGED <<assigned, busy, worker>>
    BY <2>1 DEF SlotInv, FreeSlotIsIdle
  <2>2. ASSUME NEW s \in Slots, CanTakeBack(j, s), worker' = worker,
               Dispatch(queue, ahead, [assigned EXCEPT ![s] = NoJob],
                        FreedBy(s), TRUE)
        PROVE  SlotInv'
    <3>1. worker[s] \notin HoldingPCs \cup {"refresh"}
      BY <1>0, <2>2, SchedulerAssumption DEF CanTakeBack
    <3> DEFINE a == [assigned EXCEPT ![s] = NoJob]
               b == [busy EXCEPT ![s] = FALSE]
    <3>2. \A t \in Slots :
            /\ b[t] <=> a[t] # NoJob \/ worker'[t] \in HoldingPCs \cup {"refresh"}
            /\ a[t] # NoJob => worker'[t] \notin HoldingPCs \cup {"refresh"}
      BY <1>0, <2>2, <3>1
    <3>3. /\ a \in [Slots -> Jobs \cup {NoJob}] /\ b \in [Slots -> BOOLEAN]
          /\ Dispatch(queue, ahead, a, b, TRUE)
      BY <2>2 DEF FreedBy
    <3> HIDE DEF a, b
    <3> QED
      BY <3>2, <3>3, DispatchKeepsSlots
  <2> QED
    BY <1>2, <2>1, <2>2 DEF CancelDetach
<1>3. ASSUME NEW s \in Slots, WorkerTake(s) PROVE SlotInv'
  <2>1. /\ assigned[s] # NoJob
        /\ assigned' = [assigned EXCEPT ![s] = NoJob]
        /\ busy' = busy
        /\ worker' = [worker EXCEPT ![s] = "taken"]
    BY <1>3 DEF WorkerTake, Goto
  <2> QED
    BY <1>0, <2>1 DEF SlotInv, FreeSlotIsIdle, HoldingPCs
<1>4. ASSUME NEW s \in Slots, FreeSlot(s) PROVE SlotInv'
  <2> DEFINE b == [busy EXCEPT ![s] = FALSE]
  <2>1. /\ worker[s] = "refresh" /\ worker' = [worker EXCEPT ![s] = "wait"]
        /\ Dispatch(queue, ahead, assigned, b, FALSE)
        /\ b \in [Slots -> BOOLEAN]
    BY <1>4 DEF FreeSlot, Goto
  <2>2. \A t \in Slots :
          /\ b[t] <=> assigned[t] # NoJob \/ worker'[t] \in HoldingPCs \cup {"refresh"}
          /\ assigned[t] # NoJob => worker'[t] \notin HoldingPCs \cup {"refresh"}
    BY <1>0, <2>1 DEF HoldingPCs, RunningPCs, InnerPCs
  <2> HIDE DEF b
  <2> QED
    BY <2>1, <2>2, DispatchKeepsSlots
<1>5. ASSUME StopWorkers PROVE SlotInv'
  <2>1. Dispatch(queue, ahead, assigned, busy, TRUE) /\ worker' = worker
    BY <1>5 DEF StopWorkers
  <2> QED
    BY <2>1, <1>0, DispatchKeepsSlots, ZenonT(40)
<1>6. ASSUME NEW s \in Slots, HoldingMove(s) PROVE SlotInv'
  <2>1. PICK pc \in HoldingPCs : worker' = [worker EXCEPT ![s] = pc]
    BY <1>6, HoldingMoves
  <2>2. worker[s] \in HoldingPCs /\ UNCHANGED <<assigned, busy>>
    BY <1>6, HoldingMoves
  <2> QED
    BY <1>0, <2>1, <2>2 DEF SlotInv, FreeSlotIsIdle
<1>7. ASSUME NEW s \in Slots, CompleteJob(s) PROVE SlotInv'
  <2>1. /\ worker[s] = "complete" /\ worker' = [worker EXCEPT ![s] = "refresh"]
        /\ UNCHANGED <<assigned, busy>>
    BY <1>7 DEF CompleteJob, Goto
  <2> QED
    BY <1>0, <2>1 DEF SlotInv, FreeSlotIsIdle, HoldingPCs
<1>8. ASSUME NEW s \in Slots, WorkerExit(s) PROVE SlotInv'
  <2>1. /\ worker[s] = "wait" /\ worker' = [worker EXCEPT ![s] = "exited"]
        /\ UNCHANGED <<assigned, busy>>
    BY <1>8 DEF WorkerExit, Goto
  <2> QED
    BY <1>0, <2>1 DEF SlotInv, FreeSlotIsIdle, HoldingPCs, RunningPCs, InnerPCs
<1>9. CASE UNCHANGED <<assigned, busy, worker>>
  BY <1>9 DEF SlotInv, FreeSlotIsIdle
<1>10. ASSUME NEW s \in Slots, WorkerSleep(s) PROVE UNCHANGED <<assigned, busy, worker>>
  BY <1>10 DEF WorkerSleep
<1>11. ASSUME NEW j \in Jobs,
            \/ AcceptRequest(j) \/ AcceptOther(j) \/ CancelMark(j)
            \/ EnqueueRefused(j) \/ CancelWithdraw(j) \/ CancelComplete(j)
            \/ LeaveWait(j) \/ ClientDone(j)
     PROVE  UNCHANGED <<assigned, busy, worker>>
  BY <1>11 DEF AcceptRequest, AcceptOther, CancelMark, EnqueueRefused,
     CancelWithdraw, CancelComplete, LeaveWait, ClientDone
<1>12. ASSUME \/ DecoderStep \/ StopSignal \/ StopDecoder \/ JoinDecoder
              \/ Close \/ Rest \/ UNCHANGED vars
     PROVE  UNCHANGED <<assigned, busy, worker>>
  BY <1>12 DEF DecoderStep, DecoderSleep, DecoderCoalesce, DecoderBusyWait,
     DecoderFindsNone, DecoderCollect, DecoderFinish, DecoderExit, StopSignal,
     StopDecoder, JoinDecoder, Close, Rest, vars
<1> QED
  BY <1>1, <1>2, <1>3, <1>4, <1>5, <1>6, <1>7, <1>8, <1>9, <1>10, <1>11, <1>12
     DEF Next, ClientStep, WorkerStep, MainStep, HoldingMove

\* A slot that the router sees as free is idle: no assignment waits for its
\* worker, and the worker is not between a job and the refresh of the text cache
\* (slot->busy in dispatch_jobs_locked, slot_worker_main, server_cancel_job).
THEOREM FreeSlotsAreIdle == Spec => []FreeSlotIsIdle
<1>1. Init => SlotInv
  BY DEF Init, SlotInv, FreeSlotIsIdle, HoldingPCs, RunningPCs, InnerPCs
<1>2. SlotInv => FreeSlotIsIdle
  BY DEF SlotInv
<1> QED
  BY <1>1, <1>2, SlotInvStep, TypeCorrect, PTL DEF Spec

-----------------------------------------------------------------------------
(* A job has one owner.                                                    *)

\* On a list in order the router gives every job it takes off the list one slot,
\* and no slot to two jobs.
LEMMA DispatchJobs ==
    ASSUME NEW q \in SUBSET Jobs, NEW ah \in [Jobs -> SUBSET Jobs],
           NEW a \in [Slots -> Jobs \cup {NoJob}], NEW b \in [Slots -> BOOLEAN],
           NEW wake \in BOOLEAN, InOrder(q, ah),
           Dispatch(q, ah, a, b, wake)
    PROVE  Routed(q, a) /\ InOrder(queue', ahead')
<1> DEFINE free == {t \in Slots : ~b[t] /\ a[t] = NoJob}
<1>1. PICK r \in Routes(q, ah, free) :
        LET routed == {j \in q : r[j] # NoSlot}
            taken  == {r[j] : j \in routed}
        IN  /\ queue' = q \ routed
            /\ ahead' = [j \in Jobs |-> ah[j] \ routed]
            /\ assigned' = [t \in Slots |-> IF t \in taken
                                            THEN CHOOSE j \in routed : r[j] = t
                                            ELSE a[t]]
            /\ busy' = [t \in Slots |-> t \in taken \/ b[t]]
            /\ idle_asleep' = IF wake \/ routed # {} THEN {} ELSE idle_asleep
  BY DEF Dispatch
<1> DEFINE routed == {j \in q : r[j] # NoSlot}
           taken  == {r[j] : j \in routed}
           chosen(t) == CHOOSE j \in routed : r[j] = t
<1>2. \A j \in routed : r[j] \in free
  BY DEF Routes, Eligible
<1>3. \A j, k \in routed : r[j] = r[k] => j = k
  <2>1. \A j \in routed : r[j] \notin {r[k] : k \in ah[j]}
    BY DEF Routes, Eligible
  <2> QED
    BY <2>1 DEF InOrder
<1>4. \A t \in taken : chosen(t) \in routed /\ r[chosen(t)] = t
  OBVIOUS
<1>5. \A j \in routed : chosen(r[j]) = j
  BY <1>3, <1>4
<1>6. /\ queue' = q \ routed
      /\ \A t \in Slots : assigned'[t] = IF t \in taken THEN chosen(t) ELSE a[t]
      /\ \A j \in Jobs : ahead'[j] = ah[j] \ routed
  BY <1>1
<1> HIDE DEF chosen
<1>7. queue' \subseteq q /\ q \ queue' = routed
  BY <1>6
<1>8. InOrder(queue', ahead')
  BY <1>6 DEF InOrder
<1>9. \A j \in q \ queue' : \E s \in Slots : assigned'[s] = j
  BY <1>2, <1>5, <1>6, <1>7
<1>10. \A s \in Slots : /\ a[s] # NoJob => assigned'[s] = a[s]
                        /\ assigned'[s] \in {a[s]} \cup (q \ queue')
  BY <1>2, <1>4, <1>6, <1>7
<1>11. ASSUME NEW s \in Slots, NEW t \in Slots, assigned'[s] = assigned'[t],
              assigned'[s] \in q \ queue', a[s] \notin q, a[t] \notin q
       PROVE  s = t
  <2>1. s \in taken /\ t \in taken
    BY <1>6, <1>11
  <2> QED
    BY <2>1, <1>4, <1>6, <1>11
<1> QED
  BY <1>7, <1>8, <1>9, <1>10, <1>11 DEF Routed

\* So the router keeps one owner per job.
LEMMA DispatchKeepsOwners ==
    ASSUME NEW q \in SUBSET Jobs, NEW ah \in [Jobs -> SUBSET Jobs],
           NEW a \in [Slots -> Jobs \cup {NoJob}], NEW b \in [Slots -> BOOLEAN],
           NEW wake \in BOOLEAN, InOrder(q, ah),
           Dispatch(q, ah, a, b, wake),
           NEW c \in [Slots -> Jobs \cup {NoJob}], NEW out,
           Owners(q, a, c, out)
    PROVE  Owners(queue', assigned', c, out) /\ InOrder(queue', ahead')
<1>0. Routed(q, a) /\ InOrder(queue', ahead')
  BY DispatchJobs
<1>1. /\ queue' \subseteq q
      /\ \A j \in q \ queue' : \E s \in Slots : assigned'[s] = j
      /\ \A s \in Slots : a[s] # NoJob => assigned'[s] = a[s]
      /\ \A s \in Slots : assigned'[s] \in {a[s]} \cup (q \ queue')
      /\ \A s, t \in Slots : /\ assigned'[s] = assigned'[t]
                             /\ assigned'[s] \in q \ queue'
                             /\ a[s] \notin q /\ a[t] \notin q
                             => s = t
  BY <1>0 DEF Routed
<1>2. NoJob \notin q
  BY SchedulerAssumption
<1>3. /\ out = q \cup ({a[s] : s \in Slots} \ {NoJob}) \cup ({c[s] : s \in Slots} \ {NoJob})
      /\ \A s \in Slots : a[s] \notin q /\ c[s] \notin q
      /\ \A s, t \in Slots : a[s] = c[t] => a[s] = NoJob
      /\ \A s, t \in Slots : a[s] = a[t] /\ a[s] # NoJob => s = t
      /\ \A s, t \in Slots : c[s] = c[t] /\ c[s] # NoJob => s = t
  BY DEF Owners
<1>4. out = queue' \cup ({assigned'[s] : s \in Slots} \ {NoJob})
                   \cup ({c[s] : s \in Slots} \ {NoJob})
  <2>1. q \cup ({a[s] : s \in Slots} \ {NoJob})
          = queue' \cup ({assigned'[s] : s \in Slots} \ {NoJob})
    BY <1>1, <1>2
  <2> QED
    BY <2>1, <1>3
<1>5. \A s \in Slots : assigned'[s] \notin queue' /\ c[s] \notin queue'
  BY <1>1, <1>3
<1>6. \A s, t \in Slots : assigned'[s] = c[t] => assigned'[s] = NoJob
  BY <1>1, <1>3
<1>7. \A s, t \in Slots : assigned'[s] = assigned'[t] /\ assigned'[s] # NoJob => s = t
  <2> SUFFICES ASSUME NEW s \in Slots, NEW t \in Slots,
                      assigned'[s] = assigned'[t], assigned'[s] # NoJob
               PROVE  s = t
    OBVIOUS
  <2>1. CASE assigned'[s] \in q \ queue'
    BY <2>1, <1>1, <1>3
  <2>2. CASE assigned'[s] \notin q \ queue'
    <3>1. assigned'[s] = a[s] /\ assigned'[t] = a[t]
      BY <2>2, <1>1
    <3> QED
      BY <3>1, <1>3
  <2> QED
    BY <2>1, <2>2
<1> QED
  BY <1>0, <1>3, <1>4, <1>5, <1>6, <1>7 DEF Owners

\* The steps of a thread that keep the list, the assignments and the set of
\* outstanding jobs keep their owners.
LEMMA SameOwners ==
    ASSUME OwnerInv, UNCHANGED <<queue, ahead, assigned, current>>,
           OutstandingJobs' = OutstandingJobs,
           \A j \in Jobs : client'[j] \in {"none", "enqueue"} => ~done'[j],
           \A s \in Slots : worker'[s] \in HoldingPCs <=> worker[s] \in HoldingPCs
    PROVE  OwnerInv'
<1>1. /\ Owners(queue, assigned, current, OutstandingJobs)
      /\ InOrder(queue, ahead)
      /\ \A s \in Slots : current[s] # NoJob <=> worker[s] \in HoldingPCs
  BY DEF OwnerInv
<1>2. Owners(queue', assigned', current', OutstandingJobs')
  BY <1>1
<1>3. InOrder(queue', ahead')
  BY <1>1
<1> QED
  BY <1>1, <1>2, <1>3 DEF OwnerInv

\* The steps of a client that touch neither the list nor a slot change no owner.
LEMMA ClientOwners ==
    ASSUME TypeOK, OwnerInv, NEW j \in Jobs,
           \/ AcceptRequest(j) \/ AcceptOther(j) \/ CancelMark(j)
           \/ EnqueueRefused(j) \/ CancelWithdraw(j) \/ CancelComplete(j)
           \/ LeaveWait(j) \/ ClientDone(j)
    PROVE  OwnerInv'
<1> USE DEF TypeOK, JobTypeOK
<1>1. /\ UNCHANGED <<queue, ahead, assigned, current, worker>>
      /\ client' = [client EXCEPT ![j] = client'[j]]
      /\ done' = [done EXCEPT ![j] = done'[j]]
  BY DEF AcceptRequest, AcceptOther, CancelMark, EnqueueRefused,
     CancelWithdraw, CancelComplete, LeaveWait, ClientDone, queueVars, workerVars
<1>2. Outstanding(j)' = Outstanding(j)
  BY DEF AcceptRequest, AcceptOther, CancelMark, EnqueueRefused,
     CancelWithdraw, CancelComplete, LeaveWait, ClientDone, Outstanding
<1>3. client'[j] \in {"none", "enqueue"} => ~done'[j]
  BY DEF AcceptRequest, AcceptOther, CancelMark, EnqueueRefused,
     CancelWithdraw, CancelComplete, LeaveWait, ClientDone, OwnerInv
<1>4. \A k \in Jobs : client'[k] \in {"none", "enqueue"} => ~done'[k]
  BY <1>1, <1>3 DEF OwnerInv
<1>5. OutstandingJobs' = OutstandingJobs
  BY <1>1, <1>2 DEF OutstandingJobs, Outstanding
<1> QED
  BY <1>1, <1>4, <1>5, SameOwners

\* enqueue puts a job that nobody holds at the end of the list and lets the
\* router take jobs from it.
LEMMA EnqueueOwners ==
    ASSUME TypeOK, OwnerInv, NEW j \in Jobs, Enqueue(j)
    PROVE  OwnerInv'
<1> USE DEF TypeOK, JobTypeOK, QueueTypeOK, WorkerTypeOK
<1> DEFINE q == queue \cup {j}
           ah == [ahead EXCEPT ![j] = queue]
           out == OutstandingJobs \cup {j}
<1>1. /\ client[j] = "enqueue" /\ client' = [client EXCEPT ![j] = "waiting"]
      /\ Dispatch(q, ah, assigned, busy, TRUE)
      /\ UNCHANGED <<done, current, worker>>
  BY DEF Enqueue, workerVars
<1>2. j \notin OutstandingJobs /\ OutstandingJobs' = out
  BY <1>1 DEF OwnerInv, OutstandingJobs, Outstanding
<1>3. Owners(q, assigned, current, out)
  BY <1>2, SchedulerAssumption DEF OwnerInv, Owners
<1>4. InOrder(q, ah)
  BY <1>2 DEF OwnerInv, Owners, InOrder
<1>5. q \in SUBSET Jobs /\ ah \in [Jobs -> SUBSET Jobs]
  OBVIOUS
<1> HIDE DEF q, ah, out
<1>6. Owners(queue', assigned', current, out) /\ InOrder(queue', ahead')
  BY <1>1, <1>3, <1>4, <1>5, DispatchKeepsOwners
<1>7. Owners(queue', assigned', current', OutstandingJobs')
  BY <1>1, <1>2, <1>6
<1> QED
  BY <1>1, <1>6, <1>7 DEF OwnerInv

LEMMA DetachOwners ==
    ASSUME TypeOK, OwnerInv, NEW j \in Jobs, CancelDetach(j)
    PROVE  OwnerInv'
<1> USE DEF TypeOK, JobTypeOK, QueueTypeOK, WorkerTypeOK
<1>1. client[j] = "detach" /\ UNCHANGED <<done, current, worker>>
  BY DEF CancelDetach, workerVars
<1>2. CASE /\ j \in queue /\ queue' = queue \ {j}
           /\ ahead' = [k \in Jobs |-> ahead[k] \ {j}]
           /\ client' = [client EXCEPT ![j] = "withdraw_detached"]
           /\ UNCHANGED assigned
  <2>1. OutstandingJobs' = OutstandingJobs \ {j}
    BY <1>1, <1>2 DEF OutstandingJobs, Outstanding
  <2>2. Owners(queue', assigned', current', OutstandingJobs')
    BY <1>1, <1>2, <2>1, SchedulerAssumption DEF OwnerInv, Owners
  <2>3. InOrder(queue', ahead')
    BY <1>2 DEF OwnerInv, InOrder
  <2> QED
    BY <1>1, <1>2, <2>2, <2>3 DEF OwnerInv
<1>3. ASSUME NEW s \in Slots, CanTakeBack(j, s),
             Dispatch(queue, ahead, [assigned EXCEPT ![s] = NoJob],
                      FreedBy(s), TRUE),
             client' = [client EXCEPT ![j] = "withdraw_detached"]
      PROVE  OwnerInv'
  <2> DEFINE a == [assigned EXCEPT ![s] = NoJob]
             b == [busy EXCEPT ![s] = FALSE]
             out == OutstandingJobs \ {j}
  <2>1. OutstandingJobs' = out
    BY <1>1, <1>3 DEF OutstandingJobs, Outstanding
  <2>2. Owners(queue, a, current, out)
    <3>1. /\ OutstandingJobs = queue \cup ({assigned[t] : t \in Slots} \ {NoJob})
                                     \cup ({current[t] : t \in Slots} \ {NoJob})
          /\ \A t \in Slots : assigned[t] \notin queue /\ current[t] \notin queue
          /\ \A t, u \in Slots : assigned[t] = current[u] => assigned[t] = NoJob
          /\ \A t, u \in Slots : assigned[t] = assigned[u] /\ assigned[t] # NoJob => t = u
          /\ \A t, u \in Slots : current[t] = current[u] /\ current[t] # NoJob => t = u
      BY DEF OwnerInv, Owners
    <3>2. j # NoJob /\ j \notin queue /\ assigned[s] = j /\ NoJob \notin queue
      BY <1>3, SchedulerAssumption DEF CanTakeBack
    <3>3. {a[t] : t \in Slots} \ {NoJob} = ({assigned[t] : t \in Slots} \ {NoJob}) \ {j}
      BY <3>1, <3>2
    <3>4. j \notin {current[t] : t \in Slots}
      BY <3>1, <3>2
    <3>5. out = queue \cup ({a[t] : t \in Slots} \ {NoJob})
                      \cup ({current[t] : t \in Slots} \ {NoJob})
      BY <3>1, <3>2, <3>3, <3>4
    <3>6. \A t \in Slots : a[t] = IF t = s THEN NoJob ELSE assigned[t]
      OBVIOUS
    <3> HIDE DEF a, out
    <3> QED
      BY <3>1, <3>2, <3>5, <3>6 DEF Owners
  <2>3. /\ a \in [Slots -> Jobs \cup {NoJob}] /\ b \in [Slots -> BOOLEAN]
        /\ Dispatch(queue, ahead, a, b, TRUE) /\ InOrder(queue, ahead)
    BY <1>3 DEF FreedBy, OwnerInv
  <2> HIDE DEF a, b, out
  <2>4. Owners(queue', assigned', current, out) /\ InOrder(queue', ahead')
    BY <2>2, <2>3, DispatchKeepsOwners
  <2>5. Owners(queue', assigned', current', OutstandingJobs')
    BY <1>1, <2>1, <2>4
  <2> QED
    BY <1>1, <1>3, <2>4, <2>5 DEF OwnerInv
<1>4. CASE /\ client' = [client EXCEPT ![j] = "withdraw"]
           /\ UNCHANGED <<queue, ahead, assigned>>
  <2>1. OutstandingJobs' = OutstandingJobs
    BY <1>1, <1>4 DEF OutstandingJobs, Outstanding
  <2> QED
    BY <1>1, <1>4, <2>1, SameOwners DEF OwnerInv
<1> QED
  BY <1>2, <1>3, <1>4 DEF CancelDetach

\* A worker that takes its assignment moves one job from the assignment to its
\* variable.
LEMMA TakeOwners ==
    ASSUME TypeOK, OwnerInv, NEW s \in Slots, WorkerTake(s)
    PROVE  OwnerInv'
<1> USE DEF TypeOK, JobTypeOK, QueueTypeOK, WorkerTypeOK
<1>1. /\ worker[s] = "wait" /\ worker' = [worker EXCEPT ![s] = "taken"]
      /\ assigned[s] # NoJob
      /\ current' = [current EXCEPT ![s] = assigned[s]]
      /\ assigned' = [assigned EXCEPT ![s] = NoJob]
      /\ UNCHANGED <<queue, ahead, client, done>>
  BY DEF WorkerTake, Goto, jobVars
<1>2. current[s] = NoJob
  BY <1>1 DEF OwnerInv, HoldingPCs, RunningPCs, InnerPCs
<1>3. OutstandingJobs' = OutstandingJobs
  BY <1>1 DEF OutstandingJobs, Outstanding
<1>4. /\ OutstandingJobs = queue \cup ({assigned[t] : t \in Slots} \ {NoJob})
                                 \cup ({current[t] : t \in Slots} \ {NoJob})
      /\ \A t \in Slots : assigned[t] \notin queue /\ current[t] \notin queue
      /\ \A t, u \in Slots : assigned[t] = current[u] => assigned[t] = NoJob
      /\ \A t, u \in Slots : assigned[t] = assigned[u] /\ assigned[t] # NoJob => t = u
      /\ \A t, u \in Slots : current[t] = current[u] /\ current[t] # NoJob => t = u
  BY DEF OwnerInv, Owners
<1>5. /\ \A t \in Slots : assigned'[t] = IF t = s THEN NoJob ELSE assigned[t]
      /\ \A t \in Slots : current'[t] = IF t = s THEN assigned[s] ELSE current[t]
  BY <1>1
<1>6. OutstandingJobs' = queue' \cup ({assigned'[t] : t \in Slots} \ {NoJob})
                                \cup ({current'[t] : t \in Slots} \ {NoJob})
  BY <1>1, <1>2, <1>3, <1>4, <1>5
<1>7. NoJob \notin queue
  BY SchedulerAssumption
<1>8. Owners(queue', assigned', current', OutstandingJobs')
  BY <1>1, <1>2, <1>4, <1>5, <1>6, <1>7 DEF Owners
<1>9. InOrder(queue', ahead')
  BY <1>1 DEF OwnerInv
<1>10. \A t \in Slots : current'[t] # NoJob <=> worker'[t] \in HoldingPCs
  BY <1>1, <1>5 DEF OwnerInv, HoldingPCs
<1> QED
  BY <1>1, <1>8, <1>9, <1>10 DEF OwnerInv

\* A worker that completes a job drops it in the step that sets done.
LEMMA CompleteOwners ==
    ASSUME TypeOK, OwnerInv, NEW s \in Slots, CompleteJob(s)
    PROVE  OwnerInv'
<1> USE DEF TypeOK, JobTypeOK, QueueTypeOK, WorkerTypeOK
<1> DEFINE j == current[s]
<1>1. /\ worker[s] = "complete" /\ worker' = [worker EXCEPT ![s] = "refresh"]
      /\ done' = [done EXCEPT ![j] = TRUE]
      /\ current' = [current EXCEPT ![s] = NoJob]
      /\ UNCHANGED <<queue, ahead, assigned, client>>
  BY DEF CompleteJob, Goto, queueVars
<1>2. j # NoJob /\ j \in Jobs
  BY <1>1 DEF OwnerInv, HoldingPCs
<1>3. /\ OutstandingJobs = queue \cup ({assigned[t] : t \in Slots} \ {NoJob})
                                 \cup ({current[t] : t \in Slots} \ {NoJob})
      /\ \A t \in Slots : assigned[t] \notin queue /\ current[t] \notin queue
      /\ \A t, u \in Slots : assigned[t] = current[u] => assigned[t] = NoJob
      /\ \A t, u \in Slots : assigned[t] = assigned[u] /\ assigned[t] # NoJob => t = u
      /\ \A t, u \in Slots : current[t] = current[u] /\ current[t] # NoJob => t = u
  BY DEF OwnerInv, Owners
<1>4. OutstandingJobs' = OutstandingJobs \ {j}
  BY <1>1, <1>2 DEF OutstandingJobs, Outstanding
<1>5. \A t \in Slots : current'[t] = IF t = s THEN NoJob ELSE current[t]
  BY <1>1
<1>6. {current'[t] : t \in Slots} \ {NoJob} = ({current[t] : t \in Slots} \ {NoJob}) \ {j}
  BY <1>2, <1>3, <1>5
<1>7. j \notin queue /\ j \notin {assigned[t] : t \in Slots} /\ NoJob \notin queue
  BY <1>2, <1>3, SchedulerAssumption
<1>8. OutstandingJobs' = queue' \cup ({assigned'[t] : t \in Slots} \ {NoJob})
                                \cup ({current'[t] : t \in Slots} \ {NoJob})
  BY <1>1, <1>3, <1>4, <1>6, <1>7
<1>9. Owners(queue', assigned', current', OutstandingJobs')
  BY <1>1, <1>3, <1>5, <1>7, <1>8 DEF Owners
<1>10. client[j] \notin {"none", "enqueue"}
  <2>1. j \in OutstandingJobs
    BY <1>2, <1>3
  <2> QED
    BY <2>1 DEF OutstandingJobs, Outstanding
<1>11. \A k \in Jobs : client'[k] \in {"none", "enqueue"} => ~done'[k]
  BY <1>1, <1>10 DEF OwnerInv
<1>12. \A t \in Slots : current'[t] # NoJob <=> worker'[t] \in HoldingPCs
  BY <1>1, <1>5 DEF OwnerInv, HoldingPCs, RunningPCs, InnerPCs
<1> QED
  BY <1>1, <1>9, <1>11, <1>12 DEF OwnerInv

\* Every step keeps OwnerInv.
LEMMA OwnerInvStep == TypeOK /\ OwnerInv /\ [Next]_vars => OwnerInv'
<1> SUFFICES ASSUME TypeOK, OwnerInv, [Next]_vars PROVE OwnerInv'
  OBVIOUS
<1> USE DEF TypeOK, QueueTypeOK, WorkerTypeOK
<1> USE DEF jobVars, queueVars, bindVars, localVars, workerVars, turnVars,
            tokenVars, modelVars, stopVars
<1>1. ASSUME UNCHANGED <<queue, ahead, assigned, current, client, done>>,
             \A s \in Slots : worker'[s] \in HoldingPCs <=> worker[s] \in HoldingPCs
      PROVE  OwnerInv'
  <2>1. OutstandingJobs' = OutstandingJobs
    BY <1>1 DEF OutstandingJobs, Outstanding
  <2> QED
    BY <1>1, <2>1, SameOwners DEF OwnerInv
<1>2. ASSUME Dispatch(queue, ahead, assigned, busy, FALSE)
              \/ Dispatch(queue, ahead, assigned, busy, TRUE)
              \/ \E s \in Slots : Dispatch(queue, ahead, assigned,
                                           [busy EXCEPT ![s] = FALSE], FALSE),
             UNCHANGED <<current, client, done>>,
             \A s \in Slots : worker'[s] \in HoldingPCs <=> worker[s] \in HoldingPCs
      PROVE  OwnerInv'
  <2>1. Owners(queue, assigned, current, OutstandingJobs) /\ InOrder(queue, ahead)
    BY DEF OwnerInv
  <2>2. PICK b \in [Slots -> BOOLEAN], wake \in BOOLEAN :
              Dispatch(queue, ahead, assigned, b, wake)
    BY <1>2
  <2>3. Owners(queue', assigned', current, OutstandingJobs) /\ InOrder(queue', ahead')
    BY <2>1, <2>2, DispatchKeepsOwners
  <2>4. OutstandingJobs' = OutstandingJobs
    BY <1>2 DEF OutstandingJobs, Outstanding
  <2>5. Owners(queue', assigned', current', OutstandingJobs')
    BY <1>2, <2>3, <2>4
  <2> QED
    BY <1>2, <2>3, <2>5 DEF OwnerInv
<1>3. ASSUME NEW s \in Slots, FreeSlot(s) PROVE OwnerInv'
  <2>1. /\ worker[s] = "refresh" /\ worker' = [worker EXCEPT ![s] = "wait"]
        /\ Dispatch(queue, ahead, assigned, [busy EXCEPT ![s] = FALSE], FALSE)
        /\ UNCHANGED <<current, client, done>>
    BY <1>3 DEF FreeSlot, Goto
  <2>2. \A t \in Slots : worker'[t] \in HoldingPCs <=> worker[t] \in HoldingPCs
    BY <2>1 DEF HoldingPCs, RunningPCs, InnerPCs
  <2> QED
    BY <2>1, <2>2, <1>2
<1>4. ASSUME StopWorkers PROVE OwnerInv'
  <2>1. /\ Dispatch(queue, ahead, assigned, busy, TRUE)
        /\ UNCHANGED <<current, client, done, worker>>
    BY <1>4 DEF StopWorkers
  <2> QED
    BY <2>1, <1>2
<1>5. ASSUME NEW s \in Slots, HoldingMove(s) PROVE OwnerInv'
  <2>1. PICK pc \in HoldingPCs : worker' = [worker EXCEPT ![s] = pc]
    BY <1>5, HoldingMoves
  <2>2. /\ worker[s] \in HoldingPCs
        /\ UNCHANGED <<queue, ahead, assigned, current, client, done>>
    BY <1>5, HoldingMoves
  <2>3. \A t \in Slots : worker'[t] \in HoldingPCs <=> worker[t] \in HoldingPCs
    BY <2>1, <2>2
  <2> QED
    BY <2>2, <2>3, <1>1
<1>6. ASSUME NEW s \in Slots, WorkerExit(s) PROVE OwnerInv'
  <2>1. /\ worker[s] = "wait" /\ worker' = [worker EXCEPT ![s] = "exited"]
        /\ UNCHANGED <<queue, ahead, assigned, current, client, done>>
    BY <1>6 DEF WorkerExit, Goto
  <2>2. \A t \in Slots : worker'[t] \in HoldingPCs <=> worker[t] \in HoldingPCs
    BY <2>1 DEF HoldingPCs, RunningPCs, InnerPCs
  <2> QED
    BY <2>1, <2>2, <1>1
<1>7. ASSUME NEW s \in Slots, WorkerSleep(s) PROVE OwnerInv'
  BY <1>7, <1>1 DEF WorkerSleep
<1>8. ASSUME \/ DecoderStep \/ StopSignal \/ StopDecoder \/ JoinDecoder
             \/ Close \/ Rest \/ UNCHANGED vars
      PROVE  OwnerInv'
  <2>1. UNCHANGED <<queue, ahead, assigned, current, client, done, worker>>
    BY <1>8 DEF DecoderStep, DecoderSleep, DecoderCoalesce, DecoderBusyWait,
       DecoderFindsNone, DecoderCollect, DecoderFinish, DecoderExit, StopSignal,
       StopDecoder, JoinDecoder, Close, Rest, vars
  <2> QED
    BY <2>1, <1>1
<1> QED
  BY <1>3, <1>4, <1>5, <1>6, <1>7, <1>8, ClientOwners, EnqueueOwners,
     DetachOwners, TakeOwners, CompleteOwners
     DEF Next, ClientStep, WorkerStep, MainStep, HoldingMove

\* One owner in the sense of Owners is one place in the sense of JobOwnership.
LEMMA OwnersAreOwnership == TypeOK /\ OwnerInv => JobOwnership
<1> SUFFICES ASSUME TypeOK, OwnerInv, NEW j \in Jobs
             PROVE  IF Outstanding(j)
                    THEN \E p \in Places : \A q \in Places : Holds(q, j) <=> q = p
                    ELSE \A q \in Places : ~Holds(q, j)
  BY DEF JobOwnership
<1>1. /\ OutstandingJobs = queue \cup ({assigned[t] : t \in Slots} \ {NoJob})
                                 \cup ({current[t] : t \in Slots} \ {NoJob})
      /\ \A t \in Slots : assigned[t] \notin queue /\ current[t] \notin queue
      /\ \A t, u \in Slots : assigned[t] = current[u] => assigned[t] = NoJob
      /\ \A t, u \in Slots : assigned[t] = assigned[u] /\ assigned[t] # NoJob => t = u
      /\ \A t, u \in Slots : current[t] = current[u] /\ current[t] # NoJob => t = u
  BY DEF OwnerInv, Owners
<1>2. j # NoJob /\ (Outstanding(j) <=> j \in OutstandingJobs)
  BY SchedulerAssumption DEF OutstandingJobs
<1>3. \A q \in Places :
        \/ q = <<"list", NoSlot>> /\ (Holds(q, j) <=> j \in queue)
        \/ \E s \in Slots : q = <<"assigned", s>> /\ (Holds(q, j) <=> assigned[s] = j)
        \/ \E s \in Slots : q = <<"worker", s>> /\ (Holds(q, j) <=> current[s] = j)
  BY DEF Places, Holds
<1>4. CASE j \notin OutstandingJobs
  BY <1>1, <1>2, <1>3, <1>4
<1>5. CASE j \in queue
  <2>1. <<"list", NoSlot>> \in Places
    BY DEF Places
  <2>2. \A q \in Places : Holds(q, j) <=> q = <<"list", NoSlot>>
    BY <1>1, <1>3, <1>5
  <2> QED
    BY <1>1, <1>2, <1>5, <2>1, <2>2
<1>6. ASSUME NEW s \in Slots, assigned[s] = j
      PROVE  /\ Outstanding(j)
             /\ \E p \in Places : \A q \in Places : Holds(q, j) <=> q = p
  <2>1. <<"assigned", s>> \in Places
    BY DEF Places
  <2>2. \A q \in Places : Holds(q, j) <=> q = <<"assigned", s>>
    BY <1>1, <1>2, <1>3, <1>6
  <2> QED
    BY <1>1, <1>2, <1>6, <2>1, <2>2
<1>7. ASSUME NEW s \in Slots, current[s] = j
      PROVE  /\ Outstanding(j)
             /\ \E p \in Places : \A q \in Places : Holds(q, j) <=> q = p
  <2>1. <<"worker", s>> \in Places
    BY DEF Places
  <2>2. \A q \in Places : Holds(q, j) <=> q = <<"worker", s>>
    BY <1>1, <1>2, <1>3, <1>7
  <2> QED
    BY <1>1, <1>2, <1>7, <2>1, <2>2
<1> QED
  BY <1>1, <1>4, <1>5, <1>6, <1>7

\* At start nobody holds a job.
LEMMA InitOwned == Init => OwnerInv
BY SchedulerAssumption DEF Init, OwnerInv, Owners, InOrder, OutstandingJobs,
   Outstanding, HoldingPCs, RunningPCs, InnerPCs

\* The job of a client is held by the list, an assignment or a worker, by exactly
\* one of them until it is done or taken back and by none afterwards, when the
\* client destroys it (struct job lives on the stack of client_main).
THEOREM JobsHaveOneOwner == Spec => []JobOwnership
<1>1. Spec => []OwnerInv
  BY InitOwned, OwnerInvStep, TypeCorrect, PTL DEF Spec
<1> QED
  BY <1>1, OwnersAreOwnership, TypeCorrect, PTL
-----------------------------------------------------------------------------
(* A job runs where it is bound, and waits only when it must.              *)

\* What is ahead of a job on the list q is on it as well.
AheadOnList(q, ah) == \A j \in q : ah[j] \subseteq q

\* What the routing of continuations and the work-conserving queue rest on: a
\* binding is lost but never moves, and of the jobs ahead of a queued one all are
\* on the list.
RouteInv ==
    /\ RunsWhereBound /\ WorkConserving
    /\ \A j \in Jobs : bound[j] \in {home[j], NoSlot}
    /\ AheadOnList(queue, ahead)

\* The router gives a bound job only the slot it is bound to.
LEMMA DispatchWhereBound ==
    ASSUME NEW q \in SUBSET Jobs, NEW ah \in [Jobs -> SUBSET Jobs],
           NEW a \in [Slots -> Jobs \cup {NoJob}], NEW b \in [Slots -> BOOLEAN],
           NEW wake \in BOOLEAN, Dispatch(q, ah, a, b, wake), NEW s \in Slots
    PROVE  assigned'[s] = a[s] \/ bound[assigned'[s]] \in {s, NoSlot}
<1> DEFINE free == {t \in Slots : ~b[t] /\ a[t] = NoJob}
<1>1. PICK r \in Routes(q, ah, free) :
        LET routed == {j \in q : r[j] # NoSlot}
            taken  == {r[j] : j \in routed}
        IN  assigned' = [t \in Slots |-> IF t \in taken
                                         THEN CHOOSE j \in routed : r[j] = t
                                         ELSE a[t]]
  BY DEF Dispatch
<1> DEFINE routed == {j \in q : r[j] # NoSlot}
           taken  == {r[j] : j \in routed}
           chosen == CHOOSE j \in routed : r[j] = s
<1>2. CASE s \notin taken
  BY <1>1, <1>2
<1>3. CASE s \in taken
  <2>1. chosen \in routed /\ r[chosen] = s
    BY <1>3
  <2>2. assigned'[s] = chosen
    BY <1>1, <1>3
  <2> HIDE DEF chosen
  <2>3. s \in Eligible(chosen, free)
    BY <2>1 DEF Routes
  <2> QED BY <2>2, <2>3 DEF Eligible
<1> QED BY <1>2, <1>3

\* A job that the router leaves on the list has no free slot to go to, and what
\* is ahead of it is still on the list.
LEMMA DispatchConserves ==
    ASSUME NEW q \in SUBSET Jobs, NEW ah \in [Jobs -> SUBSET Jobs],
           NEW a \in [Slots -> Jobs \cup {NoJob}], NEW b \in [Slots -> BOOLEAN],
           NEW wake \in BOOLEAN, Dispatch(q, ah, a, b, wake),
           AheadOnList(q, ah),
           \A s \in Slots : a[s] # NoJob => b[s],
           NEW j \in queue'
    PROVE  /\ j \in q /\ ahead'[j] \subseteq queue'
           /\ Eligible(j, {s \in Slots : ~busy'[s]}) = {}
<1> DEFINE free == {t \in Slots : ~b[t] /\ a[t] = NoJob}
<1>1. PICK r \in Routes(q, ah, free) :
        LET routed == {k \in q : r[k] # NoSlot}
            taken  == {r[k] : k \in routed}
        IN  /\ queue' = q \ routed
            /\ ahead' = [k \in Jobs |-> ah[k] \ routed]
            /\ busy' = [t \in Slots |-> t \in taken \/ b[t]]
  BY DEF Dispatch
<1> DEFINE routed == {k \in q : r[k] # NoSlot}
           taken  == {r[k] : k \in routed}
           can    == Eligible(j, free) \ {r[k] : k \in ah[j]}
           left   == {s \in Slots : ~busy'[s]}
<1>2. j \in q /\ r[j] = NoSlot /\ ah[j] \subseteq q /\ ahead'[j] \subseteq queue'
  BY <1>1 DEF AheadOnList
<1>3. can = {}
  <2>1. r[j] \in IF can = {} THEN {NoSlot} ELSE can
    BY <1>2 DEF Routes
  <2>2. can \subseteq Slots /\ NoSlot \notin Slots
    BY DEF Eligible, NoSlot, Slots
  <2> QED BY <1>2, <2>1, <2>2
<1>4. ASSUME NEW s \in Eligible(j, left)
      PROVE  FALSE
  <2>1. s \in Slots /\ s \in left /\ ~b[s] /\ s \notin taken
    BY <1>1, <1>4 DEF Eligible
  <2>2. s \in Eligible(j, free)
    BY <1>4, <2>1 DEF Eligible
  <2>3. PICK k \in ah[j] : s = r[k]
    BY <1>3, <2>2
  <2>4. k \in q /\ s # NoSlot
    BY <1>2, <2>1, <2>3 DEF NoSlot, Slots
  <2> QED BY <2>1, <2>3, <2>4
<1> QED BY <1>2, <1>4

\* So a step that runs the router and moves no binding keeps RouteInv.
LEMMA DispatchKeepsRoutes ==
    ASSUME TypeOK, RouteInv,
           NEW q \in SUBSET Jobs, NEW ah \in [Jobs -> SUBSET Jobs],
           NEW a \in [Slots -> Jobs \cup {NoJob}], NEW b \in [Slots -> BOOLEAN],
           NEW wake \in BOOLEAN, Dispatch(q, ah, a, b, wake),
           AheadOnList(q, ah),
           \A s \in Slots : a[s] # NoJob => b[s] /\ a[s] = assigned[s],
           UNCHANGED <<home, bound, current>>
    PROVE  RouteInv'
<1>1. \A s \in Slots : assigned'[s] = a[s] \/ bound[assigned'[s]] \in {s, NoSlot}
  BY DispatchWhereBound
<1>2. \A j \in queue' : /\ ahead'[j] \subseteq queue'
                        /\ Eligible(j, {s \in Slots : ~busy'[s]}) = {}
  <2>1. \A s \in Slots : a[s] # NoJob => b[s]
    OBVIOUS
  <2> HIDE DEF RouteInv
  <2> SUFFICES ASSUME NEW j \in queue'
               PROVE  /\ ahead'[j] \subseteq queue'
                      /\ Eligible(j, {s \in Slots : ~busy'[s]}) = {}
    OBVIOUS
  <2> QED BY <2>1, DispatchConserves
<1>3. RunsWhereBound'
  <2> SUFFICES ASSUME NEW s \in Slots, NEW j \in Jobs
               PROVE  /\ assigned'[s] = j => bound[j] \in {s, NoSlot}
                      /\ current[s] = j => bound[j] \in {s, NoSlot}
    BY DEF RunsWhereBound
  <2>1. current[s] = j => bound[j] \in {s, NoSlot}
    BY DEF RouteInv, RunsWhereBound
  <2>2. a[s] = j => bound[j] \in {s, NoSlot}
    BY SchedulerAssumption DEF RouteInv, RunsWhereBound
  <2> QED BY <1>1, <2>1, <2>2
<1>4. WorkConserving'
  BY <1>2 DEF WorkConserving, Eligible
<1>5. \A j \in Jobs : bound'[j] \in {home'[j], NoSlot}
  BY DEF RouteInv
<1> QED BY <1>2, <1>3, <1>4, <1>5 DEF RouteInv, AheadOnList

\* A step that does not run it keeps RouteInv if it takes jobs only from the list,
\* hands jobs from a slot to its own worker, and takes no binding but of a slot
\* that is busy; a job that nobody holds may lose or get what it likes.
LEMMA QuietKeepsRoutes ==
    ASSUME TypeOK, RouteInv, OwnerInv, busy' = busy,
           queue' \subseteq queue,
           \A j \in queue' : ahead'[j] \subseteq queue',
           \A s \in Slots : assigned'[s] \in {assigned[s], NoJob},
           \A s \in Slots : current'[s] \in {current[s], assigned[s], NoJob},
           \A j \in Jobs : bound'[j] \in {home'[j], NoSlot},
           \A j \in OutstandingJobs :
               /\ home'[j] = home[j]
               /\ \/ bound'[j] = bound[j]
                  \/ bound'[j] = NoSlot /\ bound[j] \in Slots /\ busy[bound[j]]
    PROVE  RouteInv'
<1>1. /\ queue \subseteq OutstandingJobs
      /\ \A s \in Slots : assigned[s] # NoJob => assigned[s] \in OutstandingJobs
      /\ \A s \in Slots : current[s] # NoJob => current[s] \in OutstandingJobs
  BY DEF OwnerInv, Owners
<1>2. RunsWhereBound'
  <2> SUFFICES ASSUME NEW s \in Slots, NEW j \in Jobs, assigned'[s] = j \/ current'[s] = j
               PROVE  bound'[j] \in {s, NoSlot}
    BY DEF RunsWhereBound
  <2>1. assigned[s] = j \/ current[s] = j
    BY SchedulerAssumption
  <2>2. j \in OutstandingJobs /\ bound[j] \in {s, NoSlot}
    BY <2>1, <1>1, SchedulerAssumption DEF RouteInv, RunsWhereBound
  <2> QED BY <2>2
<1>3. WorkConserving'
  <2> SUFFICES ASSUME NEW j \in queue'
               PROVE  \/ Eligible(j, {s \in Slots : ~busy[s]})' = {}
                      \/ home'[j] # bound'[j] /\ busy'[home'[j]]
    BY DEF WorkConserving
  <2>1. /\ j \in OutstandingJobs /\ home'[j] = home[j] /\ j \in Jobs
        /\ bound[j] \in {home[j], NoSlot}
    BY <1>1 DEF OutstandingJobs, RouteInv
  <2>2. \/ Eligible(j, {s \in Slots : ~busy[s]}) = {}
        \/ home[j] # bound[j] /\ busy[home[j]]
    BY DEF RouteInv, WorkConserving
  <2>3. CASE bound'[j] = bound[j]
    BY <2>1, <2>2, <2>3 DEF Eligible
  <2>4. CASE bound'[j] = NoSlot /\ bound[j] \in Slots /\ busy[bound[j]]
    BY <2>1, <2>4 DEF NoSlot, Slots
  <2> QED BY <2>1, <2>3, <2>4
<1> QED BY <1>2, <1>3 DEF RouteInv, AheadOnList

\* Every step keeps RouteInv.
LEMMA RouteInvStep ==
    TypeOK /\ SlotInv /\ OwnerInv /\ RouteInv /\ [Next]_vars => RouteInv'
<1> SUFFICES ASSUME TypeOK, SlotInv, OwnerInv, RouteInv, [Next]_vars PROVE RouteInv'
  OBVIOUS
<1> USE DEF TypeOK, QueueTypeOK, WorkerTypeOK, BindTypeOK
<1> USE DEF jobVars, queueVars, bindVars, localVars, workerVars, turnVars,
            tokenVars, modelVars, stopVars
<1>0. /\ \A j \in Jobs : bound[j] \in {home[j], NoSlot}
      /\ AheadOnList(queue, ahead)
      /\ \A s \in Slots : assigned[s] # NoJob => busy[s]
      /\ \A s \in Slots : worker[s] \in HoldingPCs => busy[s]
      /\ \A s \in Slots : worker[s] = "refresh" => assigned[s] = NoJob
  BY DEF RouteInv, SlotInv, FreeSlotIsIdle
<1>1. ASSUME UNCHANGED <<queue, ahead, busy, home>>,
             \A s \in Slots : assigned'[s] \in {assigned[s], NoJob},
             \A s \in Slots : current'[s] \in {current[s], assigned[s], NoJob},
             \/ bound' = bound
             \/ \E s \in Slots :
                   /\ worker[s] \in HoldingPCs
                   /\ bound' = [j \in Jobs |-> IF bound[j] = s THEN NoSlot ELSE bound[j]]
      PROVE  RouteInv'
  <2>1. \A j \in Jobs : \/ bound'[j] = bound[j]
                        \/ bound'[j] = NoSlot /\ bound[j] \in Slots /\ busy[bound[j]]
    BY <1>0, <1>1
  <2>2. \A j \in Jobs : bound'[j] \in {home'[j], NoSlot}
    BY <1>0, <1>1, <2>1
  <2>3. OutstandingJobs \subseteq Jobs
    BY DEF OutstandingJobs
  <2> QED
    BY <1>0, <1>1, <2>1, <2>2, <2>3, QuietKeepsRoutes DEF AheadOnList
<1>2. ASSUME NEW j \in Jobs, AcceptRequest(j) \/ LeaveWait(j) PROVE RouteInv'
  <2>1. /\ UNCHANGED <<queue, ahead, busy, assigned, current>>
        /\ j \notin OutstandingJobs
        /\ \E s \in Slots \cup {NoSlot} : /\ home' = [home EXCEPT ![j] = s]
                                          /\ bound' = [bound EXCEPT ![j] = s]
    BY <1>2 DEF AcceptRequest, LeaveWait, OutstandingJobs, Outstanding
  <2>2. \A k \in OutstandingJobs : home'[k] = home[k] /\ bound'[k] = bound[k]
    BY <2>1 DEF OutstandingJobs
  <2>3. \A k \in Jobs : bound'[k] \in {home'[k], NoSlot}
    BY <1>0, <2>1
  <2> QED
    BY <1>0, <2>1, <2>2, <2>3, QuietKeepsRoutes DEF AheadOnList
<1>3. ASSUME NEW j \in Jobs, Enqueue(j) PROVE RouteInv'
  <2> DEFINE q == queue \cup {j}
             ah == [ahead EXCEPT ![j] = queue]
  <2>1. Dispatch(q, ah, assigned, busy, TRUE) /\ UNCHANGED <<home, bound, current>>
    BY <1>3 DEF Enqueue
  <2>2. /\ q \in SUBSET Jobs /\ ah \in [Jobs -> SUBSET Jobs]
        /\ AheadOnList(q, ah)
    BY <1>0 DEF AheadOnList
  <2>3. \A s \in Slots : assigned[s] # NoJob => busy[s] /\ assigned[s] = assigned[s]
    BY <1>0
  <2> HIDE DEF q, ah
  <2> QED
    BY <2>1, <2>2, <2>3, DispatchKeepsRoutes
<1>4. ASSUME NEW j \in Jobs, CancelDetach(j) PROVE RouteInv'
  <2>1. UNCHANGED <<home, bound, current>>
    BY <1>4 DEF CancelDetach
  <2>2. ASSUME NEW s \in Slots,
               Dispatch(queue, ahead, [assigned EXCEPT ![s] = NoJob], FreedBy(s), TRUE)
        PROVE  RouteInv'
    <3> DEFINE a == [assigned EXCEPT ![s] = NoJob]
               b == [busy EXCEPT ![s] = FALSE]
    <3>1. Dispatch(queue, ahead, a, b, TRUE)
      BY <2>2 DEF FreedBy
    <3>2. /\ a \in [Slots -> Jobs \cup {NoJob}] /\ b \in [Slots -> BOOLEAN]
          /\ \A t \in Slots : a[t] # NoJob => b[t] /\ a[t] = assigned[t]
      BY <1>0
    <3> HIDE DEF a, b
    <3> QED
      BY <1>0, <2>1, <3>1, <3>2, DispatchKeepsRoutes
  <2>3. CASE /\ UNCHANGED <<assigned, busy>>
             /\ \/ queue' = queue \ {j} /\ ahead' = [k \in Jobs |-> ahead[k] \ {j}]
                \/ UNCHANGED <<queue, ahead>>
    <3>1. queue' \subseteq queue /\ \A k \in queue' : ahead'[k] \subseteq queue'
      BY <1>0, <2>3 DEF AheadOnList
    <3> QED
      BY <1>0, <2>1, <2>3, <3>1, QuietKeepsRoutes DEF OutstandingJobs
  <2> QED
    BY <1>4, <2>2, <2>3 DEF CancelDetach
<1>5. ASSUME NEW s \in Slots, FreeSlot(s) PROVE RouteInv'
  <2> DEFINE b == [busy EXCEPT ![s] = FALSE]
  <2>1. /\ worker[s] = "refresh"
        /\ Dispatch(queue, ahead, assigned, b, FALSE)
        /\ UNCHANGED <<home, bound, current>>
    BY <1>5 DEF FreeSlot
  <2>2. b \in [Slots -> BOOLEAN]
        /\ \A t \in Slots : assigned[t] # NoJob => b[t] /\ assigned[t] = assigned[t]
    BY <1>0, <2>1
  <2> HIDE DEF b
  <2> QED
    BY <1>0, <2>1, <2>2, DispatchKeepsRoutes
<1>6. ASSUME StopWorkers PROVE RouteInv'
  <2>1. Dispatch(queue, ahead, assigned, busy, TRUE) /\ UNCHANGED <<home, bound, current>>
    BY <1>6 DEF StopWorkers
  <2>2. \A s \in Slots : assigned[s] # NoJob => busy[s] /\ assigned[s] = assigned[s]
    BY <1>0
  <2> QED
    BY <1>0, <2>1, <2>2, DispatchKeepsRoutes
<1>7. ASSUME NEW s \in Slots,
             \/ SyncInterrupted(s) \/ PrefillAbandon(s) \/ PrefillLeave(s)
             \/ StreamStartFails(s) \/ ReplyCancelled(s) \/ Publish(s) \/ SendFails(s)
      PROVE  RouteInv'
  <2>1. /\ UNCHANGED <<queue, ahead, busy, home, assigned, current>>
        /\ worker[s] \in HoldingPCs
    BY <1>7 DEF SyncInterrupted, PrefillAbandon, PrefillLeave, StreamStartFails,
       ReplyCancelled, Publish, SendFails, HoldingPCs, RunningPCs, InnerPCs
  <2>2. \/ bound' = bound
        \/ bound' = [j \in Jobs |-> IF bound[j] = s THEN NoSlot ELSE bound[j]]
    BY <1>7 DEF SyncInterrupted, PrefillAbandon, PrefillLeave, StreamStartFails,
       ReplyCancelled, Publish, SendFails, SyncFails, SyncSucceeds, ClearBindingIf,
       ClearBinding
  <2> QED
    BY <2>1, <2>2, <1>1
<1>8. ASSUME NEW s \in Slots, WorkerTake(s) PROVE RouteInv'
  BY <1>8, <1>1 DEF WorkerTake
<1>9. ASSUME NEW s \in Slots, CompleteJob(s) PROVE RouteInv'
  BY <1>9, <1>1 DEF CompleteJob
<1>10. ASSUME NEW s \in Slots,
              \/ WorkerSleep(s) \/ WorkerExit(s) \/ JobEndsEarly(s) \/ BeginPrompt(s)
              \/ PrefillRequest(s) \/ PrefillSleep(s) \/ PrefillGrant(s)
              \/ GenerationEnter(s) \/ DecodeStop(s) \/ StreamWriteFails(s)
              \/ EvalRequest(s) \/ EvalWithdraw(s) \/ EvalSleep(s) \/ EvalReturn(s)
              \/ GenerationLeave(s) \/ BeginRepair(s) \/ SendResponse(s) \/ FinishJob(s)
       PROVE  RouteInv'
  <2>1. UNCHANGED <<queue, ahead, busy, home, bound, assigned, current>>
    BY <1>10 DEF WorkerSleep, WorkerExit, JobEndsEarly, BeginPrompt, PrefillRequest,
       PrefillSleep, PrefillGrant, GenerationEnter, DecodeStop, StreamWriteFails,
       EvalRequest, EvalWithdraw, EvalSleep, EvalReturn, GenerationLeave, BeginRepair,
       SendResponse, FinishJob
  <2> QED
    BY <2>1, <1>1
<1>11. ASSUME NEW j \in Jobs,
              \/ AcceptOther(j) \/ EnqueueRefused(j) \/ CancelMark(j) \/ CancelWithdraw(j)
              \/ CancelComplete(j) \/ ClientDone(j)
       PROVE  RouteInv'
  <2>1. UNCHANGED <<queue, ahead, busy, home, bound, assigned, current>>
    BY <1>11 DEF AcceptOther, EnqueueRefused, CancelMark, CancelWithdraw,
       CancelComplete, ClientDone
  <2> QED
    BY <2>1, <1>1
<1>12. ASSUME \/ DecoderStep \/ StopSignal \/ StopDecoder \/ JoinDecoder
              \/ Close \/ Rest \/ UNCHANGED vars
       PROVE  RouteInv'
  <2>1. UNCHANGED <<queue, ahead, busy, home, bound, assigned, current>>
    BY <1>12 DEF DecoderStep, DecoderSleep, DecoderCoalesce, DecoderBusyWait,
       DecoderFindsNone, DecoderCollect, DecoderFinish, DecoderExit, StopSignal,
       StopDecoder, JoinDecoder, Close, Rest, vars
  <2> QED
    BY <2>1, <1>1
<1> QED
  BY <1>2, <1>3, <1>4, <1>5, <1>6, <1>7, <1>8, <1>9, <1>10, <1>11, <1>12
     DEF Next, ClientStep, WorkerStep, MainStep

\* At start the list is empty and nothing is bound.
LEMMA InitRouted == Init => RouteInv
BY SchedulerAssumption
   DEF Init, RouteInv, RunsWhereBound, WorkConserving, AheadOnList

\* No slot is busy and no job bound at start, and every step keeps what the two
\* theorems below state about the router.
LEMMA RoutesKept == Spec => []RouteInv
<1>1. Init => SlotInv
  BY DEF Init, SlotInv, FreeSlotIsIdle, HoldingPCs, RunningPCs, InnerPCs
<1> QED
  BY <1>1, InitRouted, RouteInvStep, SlotInvStep, InitOwned, OwnerInvStep,
     TypeCorrect, PTL DEF Spec

\* A continuation that still has its live binding is handed only to the slot
\* that holds it (dispatch_jobs_locked), whatever cancellations, publications
\* and later jobs do to the bindings of that slot.
THEOREM ContinuationsRunWhereBound == Spec => []RunsWhereBound
<1>1. RouteInv => RunsWhereBound
  BY DEF RouteInv
<1> QED
  BY <1>1, RoutesKept, PTL

\* No queued job is left waiting beside a free slot that may take it, except one
\* whose live binding was lost while it waited, and that only until the slot
\* of the binding is released.
THEOREM QueueConservesWork == Spec => []WorkConserving
<1>1. RouteInv => WorkConserving
  BY DEF RouteInv
<1> QED
  BY <1>1, RoutesKept, PTL

-----------------------------------------------------------------------------
(* The refinement: ServerScheduler implements the safety part of           *)
(* JobService.  Every step maps to a step of JobService, or changes        *)
(* neither the status of a job nor what a slot serves.  The argument rests *)
(* on the ownership of jobs (OwnerInv).                                    *)

\* The variable status of JobService under the refinement mapping.
Statuses == [j \in Jobs |-> StatusOf(j)]

-----------------------------------------------------------------------------
(* The refinement mapping.                                                 *)

\* The status of a job depends on its client, its flag done and on whether a
\* worker has it.
LEMMA StatusFrame ==
    ASSUME NEW j \in Jobs, client'[j] = client[j], done'[j] = done[j],
           Served(j)' <=> Served(j)
    PROVE  StatusOf(j)' = StatusOf(j)
BY DEF StatusOf, Outstanding

\* A step that changes one status is an assignment to that entry of the function.
LEMMA OneStatusChanges ==
    ASSUME NEW j \in Jobs, NEW status,
           \A k \in Jobs \ {j} : StatusOf(k)' = StatusOf(k),
           StatusOf(j)' = status
    PROVE  Statuses' = [Statuses EXCEPT ![j] = status]
BY DEF Statuses

\* A job on the list or in an assignment is accepted, one that a worker has is
\* served.
LEMMA StatusOfHeld ==
    ASSUME TypeOK, OwnerInv, NEW j \in Jobs
    PROVE  /\ Served(j) => StatusOf(j) = "served"
           /\ j \in queue \/ (\E s \in Slots : assigned[s] = j)
                => Outstanding(j) /\ StatusOf(j) = "accepted"
           /\ Served(j) => Outstanding(j)
<1>1. /\ OutstandingJobs = queue \cup ({assigned[t] : t \in Slots} \ {NoJob})
                                 \cup ({current[t] : t \in Slots} \ {NoJob})
      /\ \A t \in Slots : assigned[t] \notin queue /\ current[t] \notin queue
      /\ \A t, u \in Slots : assigned[t] = current[u] => assigned[t] = NoJob
  BY DEF OwnerInv, Owners
<1>2. j # NoJob /\ (Outstanding(j) <=> j \in OutstandingJobs)
  BY SchedulerAssumption DEF OutstandingJobs
<1>3. Outstanding(j) => StatusOf(j) = IF Served(j) THEN "served" ELSE "accepted"
  BY DEF StatusOf, Outstanding
<1>4. Served(j) => Outstanding(j)
  BY <1>1, <1>2 DEF Served
<1>5. j \in queue \/ (\E s \in Slots : assigned[s] = j) => ~Served(j) /\ Outstanding(j)
  BY <1>1, <1>2 DEF Served
<1> QED
  BY <1>3, <1>4, <1>5

-----------------------------------------------------------------------------
(* What each step is to JobService.                                        *)

\* A step that only one client takes.
LEMMA ClientStatus ==
    ASSUME TypeOK, NEW j \in Jobs, UNCHANGED current,
           client' = [client EXCEPT ![j] = client'[j]],
           done' = [done EXCEPT ![j] = done'[j]]
    PROVE  Statuses' = [Statuses EXCEPT ![j] = StatusOf(j)']
<1>1. \A k \in Jobs \ {j} : client'[k] = client[k] /\ done'[k] = done[k]
  BY DEF TypeOK, JobTypeOK
<1>2. \A k \in Jobs : Served(k)' <=> Served(k)
  BY DEF Served
<1>3. \A k \in Jobs \ {j} : StatusOf(k)' = StatusOf(k)
  BY <1>1, <1>2, StatusFrame
<1> QED
  BY <1>3, OneStatusChanges

\* A step of a client leaves what the slots serve alone and maps to one step of its
\* own connection (accepted or refused, taken back, ended), or to nothing.
LEMMA ClientSteps ==
    ASSUME TypeOK, OwnerInv, NEW j \in Jobs,
           \/ AcceptRequest(j) \/ AcceptOther(j) \/ CancelMark(j)
           \/ Enqueue(j) \/ EnqueueRefused(j) \/ CancelDetach(j)
           \/ CancelWithdraw(j) \/ CancelComplete(j) \/ LeaveWait(j)
           \/ ClientDone(j)
    PROVE  /\ current' = current
           /\ Statuses' = [Statuses EXCEPT ![j] = StatusOf(j)']
           /\ \/ StatusOf(j)' = StatusOf(j)
              \/ StatusOf(j) = "new" /\ StatusOf(j)' \in {"accepted", "gone"}
              \/ StatusOf(j) = "accepted" /\ StatusOf(j)' = "answered"
              \/ StatusOf(j) = "answered" /\ StatusOf(j)' = "gone"
<1> USE DEF TypeOK, JobTypeOK
<1>1. /\ UNCHANGED current
      /\ client' = [client EXCEPT ![j] = client'[j]]
      /\ done' = [done EXCEPT ![j] = done'[j]]
  BY DEF AcceptRequest, AcceptOther, CancelMark, Enqueue, EnqueueRefused,
     CancelDetach, CancelWithdraw, CancelComplete, LeaveWait, ClientDone,
     workerVars
<1>2. Served(j)' <=> Served(j)
  BY <1>1 DEF Served
<1>3. ASSUME \/ AcceptRequest(j) \/ CancelMark(j) \/ CancelWithdraw(j)
             \/ CancelComplete(j) \/ ClientDone(j)
      PROVE  StatusOf(j)' = StatusOf(j)
  BY <1>1, <1>2, <1>3 DEF AcceptRequest, CancelMark, CancelWithdraw,
     CancelComplete, ClientDone, StatusOf, Outstanding
<1>4. ASSUME AcceptOther(j) \/ EnqueueRefused(j)
      PROVE  StatusOf(j) = "new" /\ StatusOf(j)' = "gone"
  BY <1>4 DEF AcceptOther, EnqueueRefused, StatusOf, Outstanding
<1>5. ASSUME Enqueue(j)
      PROVE  StatusOf(j) = "new" /\ StatusOf(j)' = "accepted"
  <2>1. /\ client[j] = "enqueue" /\ client'[j] = "waiting"
        /\ done'[j] = done[j] /\ ~done[j]
    BY <1>5 DEF Enqueue, OwnerInv
  <2>2. ~Served(j)
    BY <2>1, StatusOfHeld DEF Outstanding
  <2> QED
    BY <1>2, <2>1, <2>2 DEF StatusOf, Outstanding
<1>6. ASSUME LeaveWait(j)
      PROVE  StatusOf(j) = "answered" /\ StatusOf(j)' = "gone"
  BY <1>6 DEF LeaveWait, StatusOf, Outstanding
<1>7. ASSUME CancelDetach(j)
      PROVE  \/ StatusOf(j)' = StatusOf(j)
             \/ StatusOf(j) = "accepted" /\ StatusOf(j)' = "answered"
  <2>1. client[j] = "detach" /\ UNCHANGED done
    BY <1>7 DEF CancelDetach
  <2>2. CASE client' = [client EXCEPT ![j] = "withdraw"]
    BY <1>2, <2>1, <2>2 DEF StatusOf, Outstanding
  <2>3. CASE /\ client' = [client EXCEPT ![j] = "withdraw_detached"]
             /\ j \in queue \/ \E s \in Slots : assigned[s] = j
    <3>1. StatusOf(j) = "accepted"
      BY <2>3, StatusOfHeld
    <3>2. StatusOf(j)' = "answered"
      BY <2>3 DEF StatusOf, Outstanding
    <3> QED
      BY <3>1, <3>2
  <2> QED
    BY <1>7, <2>2, <2>3 DEF CancelDetach, CanTakeBack
<1> QED
  BY <1>1, <1>3, <1>4, <1>5, <1>6, <1>7, ClientStatus

\* The worker that takes its job starts to serve it.
LEMMA TakeServes ==
    ASSUME TypeOK, OwnerInv, NEW s \in Slots, WorkerTake(s)
    PROVE  /\ assigned[s] \in Jobs /\ current[s] = NoJob
           /\ StatusOf(assigned[s]) = "accepted"
           /\ current' = [current EXCEPT ![s] = assigned[s]]
           /\ Statuses' = [Statuses EXCEPT ![assigned[s]] = "served"]
<1> USE DEF TypeOK, JobTypeOK, QueueTypeOK, WorkerTypeOK
<1>0. PICK j \in Jobs : j = assigned[s]
  BY DEF WorkerTake
<1>1. /\ worker[s] = "wait" /\ j # NoJob
      /\ current' = [current EXCEPT ![s] = j]
      /\ UNCHANGED <<client, done>>
  BY <1>0 DEF WorkerTake, jobVars
<1>2. current[s] = NoJob
  BY <1>1 DEF OwnerInv, HoldingPCs, RunningPCs, InnerPCs
<1>3. StatusOf(j) = "accepted" /\ Outstanding(j)
  BY <1>0, StatusOfHeld
<1>6. Served(j)'
  BY <1>1 DEF Served
<1>7. StatusOf(j)' = "served"
  BY <1>1, <1>3, <1>6 DEF StatusOf, Outstanding
<1>8. \A k \in Jobs \ {j} : Served(k)' <=> Served(k)
  <2>1. \A t \in Slots : current'[t] = IF t = s THEN j ELSE current[t]
    BY <1>1
  <2>2. \A k \in Jobs : k # NoJob
    BY SchedulerAssumption
  <2> QED
    BY <1>2, <2>1, <2>2 DEF Served
<1>9. \A k \in Jobs \ {j} : StatusOf(k)' = StatusOf(k)
  BY <1>1, <1>8, StatusFrame
<1>10. Statuses' = [Statuses EXCEPT ![j] = "served"]
  BY <1>7, <1>9, OneStatusChanges
<1> QED
  BY <1>0, <1>1, <1>2, <1>3, <1>10

\* The worker that completes its job answers it.
LEMMA CompleteAnswers ==
    ASSUME TypeOK, OwnerInv, NEW s \in Slots, CompleteJob(s)
    PROVE  /\ current[s] # NoJob
           /\ current' = [current EXCEPT ![s] = NoJob]
           /\ Statuses' = [Statuses EXCEPT ![current[s]] = "answered"]
<1> USE DEF TypeOK, JobTypeOK, QueueTypeOK, WorkerTypeOK
<1>0. PICK j \in Jobs : j = current[s]
  BY DEF CompleteJob, OwnerInv, HoldingPCs
<1>1. /\ UNCHANGED client
      /\ done' = [done EXCEPT ![j] = TRUE]
      /\ current' = [current EXCEPT ![s] = NoJob]
  BY <1>0 DEF CompleteJob
<1>2. j # NoJob
  BY SchedulerAssumption
<1>3. Outstanding(j)
  <2>1. Served(j)
    BY <1>0 DEF Served
  <2> QED
    BY <2>1, StatusOfHeld
<1>4. StatusOf(j)' = "answered"
  BY <1>1, <1>2, <1>3 DEF StatusOf, Outstanding
<1>5. \A k \in Jobs \ {j} : Served(k)' <=> Served(k)
  <2>1. \A t \in Slots : current'[t] = IF t = s THEN NoJob ELSE current[t]
    BY <1>1
  <2>2. \A k \in Jobs : k # NoJob
    BY SchedulerAssumption
  <2> QED
    BY <1>0, <2>1, <2>2 DEF Served
<1>6. \A k \in Jobs \ {j} : StatusOf(k)' = StatusOf(k)
  <2>1. \A k \in Jobs \ {j} : client'[k] = client[k] /\ done'[k] = done[k]
    BY <1>1
  <2> QED
    BY <2>1, <1>5, StatusFrame
<1>7. Statuses' = [Statuses EXCEPT ![j] = "answered"]
  BY <1>4, <1>6, OneStatusChanges
<1> QED
  BY <1>0, <1>1, <1>2, <1>7

-----------------------------------------------------------------------------
(* The refinement.                                                         *)

LEMMA ServiceStep == TypeOK /\ OwnerInv /\ [Next]_vars => [Service!Next]_(Service!vars)
<1> SUFFICES ASSUME TypeOK, OwnerInv, [Next]_vars
             PROVE  Service!Next \/ UNCHANGED <<Statuses, current>>
  BY DEF Service!vars, Statuses
<1> USE DEF jobVars, queueVars, bindVars, localVars, workerVars, turnVars,
            tokenVars, modelVars, stopVars
<1>1. ASSUME NEW j \in Jobs,
             \/ AcceptRequest(j) \/ AcceptOther(j) \/ CancelMark(j) \/ ClientStep(j)
      PROVE  Service!Next \/ UNCHANGED <<Statuses, current>>
  <2>1. /\ current' = current
        /\ Statuses' = [Statuses EXCEPT ![j] = StatusOf(j)']
        /\ \/ StatusOf(j)' = StatusOf(j)
           \/ StatusOf(j) = "new" /\ StatusOf(j)' \in {"accepted", "gone"}
           \/ StatusOf(j) = "accepted" /\ StatusOf(j)' = "answered"
           \/ StatusOf(j) = "answered" /\ StatusOf(j)' = "gone"
    BY <1>1, ClientSteps DEF ClientStep
  <2>2. Statuses[j] = StatusOf(j)
    BY DEF Statuses
  <2>3. CASE StatusOf(j)' = StatusOf(j)
    <3>1. Statuses' = Statuses
      BY <2>1, <2>2, <2>3 DEF Statuses
    <3> QED
      BY <2>1, <3>1
  <2>4. CASE StatusOf(j) = "new" /\ StatusOf(j)' = "accepted"
    <3>1. Service!Accept(j)
      BY <2>1, <2>2, <2>4 DEF Service!Accept, Statuses
    <3> QED
      BY <3>1 DEF Service!Next
  <2>5. CASE StatusOf(j) = "new" /\ StatusOf(j)' = "gone"
    <3>1. Service!Refuse(j)
      BY <2>1, <2>2, <2>5 DEF Service!Refuse, Statuses
    <3> QED
      BY <3>1 DEF Service!Next
  <2>6. CASE StatusOf(j) = "accepted" /\ StatusOf(j)' = "answered"
    <3>1. Service!TakeBack(j)
      BY <2>1, <2>2, <2>6 DEF Service!TakeBack, Statuses
    <3> QED
      BY <3>1 DEF Service!Next
  <2>7. CASE StatusOf(j) = "answered" /\ StatusOf(j)' = "gone"
    <3>1. Service!Leave(j)
      BY <2>1, <2>2, <2>7 DEF Service!Leave, Statuses
    <3> QED
      BY <3>1 DEF Service!Next
  <2> QED
    BY <2>1, <2>3, <2>4, <2>5, <2>6, <2>7
<1>2. ASSUME NEW s \in Slots, WorkerTake(s) PROVE Service!Next
  <2>1. /\ assigned[s] \in Jobs /\ current[s] = NoJob
        /\ StatusOf(assigned[s]) = "accepted"
        /\ current' = [current EXCEPT ![s] = assigned[s]]
        /\ Statuses' = [Statuses EXCEPT ![assigned[s]] = "served"]
    BY <1>2, TakeServes
  <2>2. Statuses[assigned[s]] = StatusOf(assigned[s])
    BY <2>1 DEF Statuses
  <2>3. Service!Serve(assigned[s], s)
    BY <2>1, <2>2 DEF Service!Serve, Statuses
  <2> QED
    BY <2>1, <2>3 DEF Service!Next
<1>3. ASSUME NEW s \in Slots, CompleteJob(s) PROVE Service!Next
  <2>1. Service!Answer(s)
    BY <1>3, CompleteAnswers DEF Service!Answer, Statuses
  <2> QED
    BY <2>1 DEF Service!Next
<1>4. ASSUME UNCHANGED <<client, done, current>> PROVE UNCHANGED <<Statuses, current>>
  <2>1. \A j \in Jobs : StatusOf(j)' = StatusOf(j)
    BY <1>4 DEF StatusOf, Outstanding
  <2> QED
    BY <1>4, <2>1 DEF Statuses
<1>5. ASSUME NEW s \in Slots,
             HoldingMove(s) \/ WorkerSleep(s) \/ WorkerExit(s) \/ FreeSlot(s)
      PROVE  UNCHANGED <<client, done, current>>
  <2>1. CASE HoldingMove(s)
    BY <2>1, HoldingMoves DEF TypeOK
  <2>2. CASE WorkerSleep(s) \/ WorkerExit(s) \/ FreeSlot(s)
    BY <2>2 DEF WorkerSleep, WorkerExit, FreeSlot
  <2> QED
    BY <1>5, <2>1, <2>2
<1>6. ASSUME DecoderStep \/ StopSignal \/ MainStep \/ Rest \/ UNCHANGED vars
      PROVE  UNCHANGED <<client, done, current>>
  BY <1>6 DEF DecoderStep, DecoderSleep, DecoderCoalesce, DecoderBusyWait,
     DecoderFindsNone, DecoderCollect, DecoderFinish, DecoderExit, StopSignal,
     MainStep, StopWorkers, StopDecoder, JoinDecoder, Close, Rest, vars
<1> QED
  BY <1>1, <1>2, <1>3, <1>4, <1>5, <1>6 DEF Next, WorkerStep, HoldingMove

\* The scheduler serves every job at most once, by one slot that serves nothing
\* else meanwhile; it answers no job that it has not served or that its client
\* has not taken back, and no client destroys a job before that.
THEOREM SchedulerImplementsService == Spec => ImplementsService
<1>1. Init => Service!Init
  BY SchedulerAssumption DEF Init, Service!Init, StatusOf, Outstanding
<1>2. Spec => []OwnerInv
  BY InitOwned, OwnerInvStep, TypeCorrect, PTL DEF Spec
<1> QED
  BY <1>1, <1>2, ServiceStep, TypeCorrect, PTL DEF Spec, ImplementsService, Service!Spec
=============================================================================
