---------------------- MODULE ServerSchedulerWakeProofs ----------------------
(***************************************************************************)
(* Theorems about the two condition variables of ServerScheduler and about *)
(* the end of the process, for any number of jobs and slots: no thread     *)
(* sleeps while it could go on, and the server is closed when nobody uses  *)
(* it any more.  They rest on the owners of jobs and slots proved in       *)
(* ServerSchedulerQueueProofs.                                             *)
(***************************************************************************)
EXTENDS ServerSchedulerQueueProofs

-----------------------------------------------------------------------------
(* No lost wake-up.                                                        *)

\* A worker asleep on server.cv has nothing to do.
IdleSleepsWell == \A s \in idle_asleep : assigned[s] = NoJob /\ (~stopping \/ queue # {})

\* A worker asleep on server.model_cv waits for a turn or for a token, and for a
\* reason, or somebody is about to wake it.
SleepsWell(s) ==
    /\ worker[s] \in {"turn", "eval"}
    /\ \/ worker[s] = "turn" /\ ~Interrupted(s) /\ MustWaitForTurn(s)
       \/ /\ worker[s] = "eval" /\ ~decode_done[s]
          /\ ~(Interrupted(s) /\ CanWithdraw(s))
       \/ g_stop_requested
       \/ client[current[s]] \in {"detach", "withdraw"}

\* The decode coordinator asleep on it has no token, or no executor.
DecoderSleepsWell ==
    Decoder \in model_asleep =>
        \/ decoder = "top" /\ decode_pending = 0 /\ ~model_stopping
        \/ decoder = "busy_wait" /\ model_busy

\* NoLostWakeup, and where a sleeping worker is: it takes no step but those that
\* the wait loops of server_prefill_enter and server_eval_tokens leave to it.
WakeInv ==
    /\ IdleSleepsWell
    /\ \A s \in model_asleep \cap Slots : SleepsWell(s)
    /\ DecoderSleepsWell

\* Running the router either wakes the workers or assigns nothing.
LEMMA DispatchWakes ==
    ASSUME NEW q \in SUBSET Jobs, NEW ah \in [Jobs -> SUBSET Jobs],
           NEW a \in [Slots -> Jobs \cup {NoJob}], NEW b \in [Slots -> BOOLEAN],
           NEW wake \in BOOLEAN, Dispatch(q, ah, a, b, wake)
    PROVE  \/ idle_asleep' = {}
           \/ idle_asleep' = idle_asleep /\ queue' = q /\ assigned' = a
<1>1. PICK r \in Routes(q, ah, {s \in Slots : ~b[s] /\ a[s] = NoJob}) :
        LET routed == {j \in q : r[j] # NoSlot}
            taken  == {r[j] : j \in routed}
        IN  /\ queue' = q \ routed
            /\ assigned' = [s \in Slots |-> IF s \in taken
                                            THEN CHOOSE j \in routed : r[j] = s
                                            ELSE a[s]]
            /\ idle_asleep' = IF wake \/ routed # {} THEN {} ELSE idle_asleep
  BY DEF Dispatch
<1> DEFINE routed == {j \in q : r[j] # NoSlot}
<1>2. CASE routed # {}
  BY <1>1, <1>2
<1>3. CASE routed = {}
  <2>1. assigned' = [s \in Slots |-> a[s]] /\ queue' = q
    BY <1>1, <1>3
  <2> QED
    BY <1>1, <1>3, <2>1
<1> QED
  BY <1>2, <1>3

\* server.cv is broadcast whenever an assignment is made, and whenever a stop or
\* the last queued job that leaves lets the workers exit.
LEMMA IdleStep == TypeOK /\ IdleSleepsWell /\ [Next]_vars => IdleSleepsWell'
<1> SUFFICES ASSUME TypeOK, IdleSleepsWell, [Next]_vars PROVE IdleSleepsWell'
  OBVIOUS
<1> USE DEF TypeOK, QueueTypeOK
<1> USE DEF jobVars, queueVars, bindVars, localVars, workerVars, turnVars,
            tokenVars, modelVars, stopVars
<1>1. ASSUME idle_asleep' = {} PROVE IdleSleepsWell'
  BY <1>1 DEF IdleSleepsWell
<1>2. ASSUME UNCHANGED <<queue, assigned, stopping, idle_asleep>> PROVE IdleSleepsWell'
  BY <1>2 DEF IdleSleepsWell
<1>3. ASSUME NEW j \in Jobs, Enqueue(j) PROVE IdleSleepsWell'
  BY <1>3, <1>1 DEF Enqueue, Dispatch
<1>4. ASSUME NEW j \in Jobs, CancelDetach(j) PROVE IdleSleepsWell'
  <2>1. idle_asleep' = {}
    BY <1>4 DEF CancelDetach, Dispatch
  <2> QED
    BY <2>1, <1>1
<1>5. ASSUME NEW s \in Slots, FreeSlot(s) PROVE IdleSleepsWell'
  <2>1. /\ Dispatch(queue, ahead, assigned, [busy EXCEPT ![s] = FALSE], FALSE)
        /\ stopping' = stopping
    BY <1>5 DEF FreeSlot
  <2>2. [busy EXCEPT ![s] = FALSE] \in [Slots -> BOOLEAN]
    OBVIOUS
  <2>3. idle_asleep' = {} \/ UNCHANGED <<idle_asleep, queue, assigned>>
    BY <2>1, <2>2, DispatchWakes
  <2> QED
    BY <2>1, <2>3, <1>1, <1>2
<1>6. ASSUME StopWorkers PROVE IdleSleepsWell'
  BY <1>6, <1>1 DEF StopWorkers, Dispatch
<1>7. ASSUME NEW s \in Slots, WorkerSleep(s) PROVE IdleSleepsWell'
  BY <1>7 DEF WorkerSleep, MustWaitForJob, IdleSleepsWell
<1>8. ASSUME NEW s \in Slots, WorkerTake(s) PROVE IdleSleepsWell'
  BY <1>8 DEF WorkerTake, IdleSleepsWell
<1>9. ASSUME NEW s \in Slots, HoldingMove(s) PROVE IdleSleepsWell'
  BY <1>9, <1>2, HoldingMoves
<1>10. ASSUME NEW s \in Slots, WorkerExit(s) \/ CompleteJob(s) PROVE IdleSleepsWell'
  BY <1>10, <1>2 DEF WorkerExit, CompleteJob
<1>11. ASSUME NEW j \in Jobs,
              \/ AcceptRequest(j) \/ AcceptOther(j) \/ EnqueueRefused(j) \/ CancelMark(j)
              \/ CancelWithdraw(j) \/ CancelComplete(j) \/ LeaveWait(j) \/ ClientDone(j)
       PROVE  IdleSleepsWell'
  BY <1>11, <1>2 DEF AcceptRequest, AcceptOther, EnqueueRefused, CancelMark,
     CancelWithdraw, CancelComplete, LeaveWait, ClientDone
<1>12. ASSUME \/ DecoderStep \/ StopSignal \/ StopDecoder \/ JoinDecoder
              \/ Close \/ Rest \/ UNCHANGED vars
       PROVE  IdleSleepsWell'
  BY <1>12, <1>2 DEF DecoderStep, DecoderSleep, DecoderCoalesce, DecoderBusyWait,
     DecoderFindsNone, DecoderCollect, DecoderFinish, DecoderExit, StopSignal,
     StopDecoder, JoinDecoder, Close, Rest, vars
<1> QED
  BY <1>3, <1>4, <1>5, <1>6, <1>7, <1>8, <1>9, <1>10, <1>11, <1>12
     DEF Next, ClientStep, WorkerStep, MainStep, HoldingMove

\* A job taken by a worker is outstanding, on no list and nobody else's.
LEMMA HeldJob ==
    ASSUME TypeOK, OwnerInv, NEW t \in Slots, worker[t] \in {"turn", "eval"}
    PROVE  /\ current[t] \in Jobs /\ Outstanding(current[t])
           /\ current[t] \notin queue
           /\ \A s \in Slots : assigned[s] # current[t]
           /\ \A s \in Slots \ {t} : current[s] # current[t]
<1>1. current[t] # NoJob /\ current[t] \in Jobs
  BY DEF OwnerInv, HoldingPCs, RunningPCs, InnerPCs, TypeOK, WorkerTypeOK
<1>2. current[t] \in OutstandingJobs /\ current[t] \notin queue
  BY <1>1 DEF OwnerInv, Owners
<1>3. /\ \A s \in Slots : assigned[s] # current[t]
      /\ \A s \in Slots \ {t} : current[s] # current[t]
  BY <1>1 DEF OwnerInv, Owners
<1> QED
  BY <1>1, <1>2, <1>3 DEF OutstandingJobs

\* A sleeping worker has still a reason to sleep after a step that leaves its
\* token and its job alone, or marks the job in the course of a cancellation, and
\* that gives the executor away rather than take it back.
LEMMA SleepFrame ==
    ASSUME TypeOK, NEW t \in Slots, SleepsWell(t),
           worker'[t] = worker[t], current'[t] = current[t],
           decode_done'[t] = decode_done[t],
           \/ slot_pending'[t] = slot_pending[t] /\ in_flight'[t] = in_flight[t]
           \/ ~slot_pending'[t],
           \/ UNCHANGED <<prefill_waiting, last_prefill_slot, model_busy, decode_pending>>
           \/ model_busy',
           \/ g_stop_requested'
           \/ client'[current[t]] \in {"detach", "withdraw"}
           \/ /\ g_stop_requested' = g_stop_requested
              /\ client'[current[t]] = client[current[t]]
              /\ cancelled'[current[t]] = cancelled[current[t]]
    PROVE  SleepsWell(t)'
<1>1. worker'[t] \in {"turn", "eval"}
  BY DEF SleepsWell
<1>2. CASE g_stop_requested' \/ client'[current[t]] \in {"detach", "withdraw"}
  BY <1>1, <1>2 DEF SleepsWell
<1>3. CASE /\ g_stop_requested' = g_stop_requested
           /\ client'[current[t]] = client[current[t]]
           /\ cancelled'[current[t]] = cancelled[current[t]]
  <2>1. Interrupted(t)' = Interrupted(t)
    BY <1>3 DEF Interrupted, JobCancelled
  <2>2. MustWaitForTurn(t) => MustWaitForTurn(t)'
    BY DEF MustWaitForTurn, IsNextPrefill, Distance
  <2>3. CanWithdraw(t)' => CanWithdraw(t)
    BY DEF CanWithdraw
  <2> QED
    BY <1>1, <1>3, <2>1, <2>2, <2>3 DEF SleepsWell
<1> QED
  BY <1>2, <1>3

\* The client of a sleeping worker's job takes it through a cancellation or leaves
\* it alone.
LEMMA ClientSleepers ==
    ASSUME TypeOK, OwnerInv, NEW t \in model_asleep' \cap Slots,
           t \in model_asleep => SleepsWell(t),
           NEW j \in Jobs,
           AcceptRequest(j) \/ AcceptOther(j) \/ CancelMark(j) \/ ClientStep(j)
    PROVE  SleepsWell(t)'
<1> USE DEF jobVars, queueVars, bindVars, localVars, workerVars, turnVars,
            tokenVars, modelVars, stopVars
<1>1. ~CancelWithdraw(j)
  BY DEF CancelWithdraw, WithdrawToken
<1>2. UNCHANGED <<worker, current, turnVars, tokenVars, model_busy, model_asleep,
                  g_stop_requested>>
  BY <1>1 DEF AcceptRequest, AcceptOther, CancelMark, ClientStep, Enqueue,
     EnqueueRefused, CancelDetach, CancelComplete, LeaveWait, ClientDone
<1>3. SleepsWell(t)
  BY <1>2
<1>4. CASE current[t] # j
  <2>1. /\ client'[current[t]] = client[current[t]]
        /\ cancelled'[current[t]] = cancelled[current[t]]
    <3>1. \A k \in Jobs \ {j} : client'[k] = client[k] /\ cancelled'[k] = cancelled[k]
      BY <1>1 DEF AcceptRequest, AcceptOther, CancelMark, ClientStep, Enqueue,
         EnqueueRefused, CancelDetach, CancelComplete, LeaveWait, ClientDone,
         TypeOK, JobTypeOK
    <3>2. current[t] \in Jobs
      BY <1>3, HeldJob DEF SleepsWell
    <3> QED
      BY <1>4, <3>1, <3>2
  <2> QED
    BY <1>2, <1>3, <2>1, SleepFrame
<1>5. CASE current[t] = j
  <2>1. /\ client[j] \in {"waiting", "detach", "withdraw"} /\ ~done[j]
        /\ j \notin queue /\ \A s \in Slots : assigned[s] # j
    BY <1>3, <1>5, HeldJob DEF SleepsWell, Outstanding
  <2>2. CancelMark(j) \/ CancelDetach(j)
    BY <1>1, <2>1 DEF AcceptRequest, AcceptOther, ClientStep, Enqueue,
       EnqueueRefused, CancelComplete, LeaveWait, ClientDone
  <2>3. client'[j] \in {"detach", "withdraw"}
    BY <2>1, <2>2 DEF CancelMark, CancelDetach, CanTakeBack, TypeOK, JobTypeOK
  <2> QED
    BY <1>2, <1>3, <1>5, <2>3, SleepFrame
<1> QED
  BY <1>4, <1>5

\* A worker that falls asleep has a reason, and the steps of the other workers
\* that take one away wake everybody.
LEMMA WorkerSleepers ==
    ASSUME TypeOK, OwnerInv, NEW t \in model_asleep' \cap Slots,
           t \in model_asleep => SleepsWell(t),
           NEW s \in Slots, WorkerStep(s)
    PROVE  SleepsWell(t)'
<1> USE DEF jobVars, queueVars, bindVars, localVars, workerVars, turnVars,
            tokenVars, modelVars, stopVars
<1> USE DEF TypeOK, WorkerTypeOK, JobTypeOK, TokenTypeOK
<1>1. ~(\/ PrefillRequest(s) \/ PrefillAbandon(s) \/ PrefillLeave(s)
        \/ GenerationEnter(s) \/ EvalRequest(s) \/ EvalWithdraw(s)
        \/ GenerationLeave(s) \/ FinishJob(s))
  BY DEF PrefillRequest, PrefillAbandon, PrefillLeave, GenerationEnter,
     EvalRequest, EvalWithdraw, WithdrawToken, GenerationLeave, FinishJob
<1>2. UNCHANGED <<client, g_stop_requested>>
  BY <1>1 DEF WorkerStep, WorkerSleep, WorkerExit, WorkerTake, JobEndsEarly,
     BeginPrompt, PrefillSleep, PrefillGrant, SyncInterrupted, StreamStartFails,
     DecodeStop, StreamWriteFails, EvalSleep, EvalReturn, ReplyCancelled,
     BeginRepair, Publish, SendResponse, SendFails, CompleteJob, FreeSlot
<1>3. ASSUME PrefillSleep(s), t = s PROVE SleepsWell(t)'
  BY <1>3 DEF PrefillSleep, SleepsWell, Interrupted, JobCancelled,
     MustWaitForTurn, IsNextPrefill, Distance
<1>4. ASSUME EvalSleep(s), t = s PROVE SleepsWell(t)'
  BY <1>4 DEF EvalSleep, SleepsWell, Interrupted, JobCancelled, CanWithdraw
<1>5. ASSUME ~((PrefillSleep(s) \/ EvalSleep(s)) /\ t = s) PROVE SleepsWell(t)'
  <2>1. t \in model_asleep
    BY <1>1, <1>5 DEF WorkerStep, WorkerSleep, WorkerExit, WorkerTake, JobEndsEarly,
       BeginPrompt, PrefillSleep, PrefillGrant, SyncInterrupted, StreamStartFails,
       DecodeStop, StreamWriteFails, EvalSleep, EvalReturn, ReplyCancelled,
       BeginRepair, Publish, SendResponse, SendFails, CompleteJob, FreeSlot
  <2>2. SleepsWell(t) /\ worker[t] \in {"turn", "eval"}
    BY <2>1 DEF SleepsWell
  <2>3. t # s
    BY <1>1, <1>5, <2>1, <2>2 DEF WorkerStep, WorkerSleep, WorkerExit, WorkerTake,
       JobEndsEarly, BeginPrompt, PrefillSleep, PrefillGrant, SyncInterrupted,
       StreamStartFails, DecodeStop, StreamWriteFails, EvalSleep, EvalReturn,
       ReplyCancelled, BeginRepair, Publish, SendResponse, SendFails, CompleteJob,
       FreeSlot
  <2>4. /\ current[t] \in Jobs /\ current[s] # current[t]
        /\ assigned[s] # current[t]
    BY <2>2, <2>3, HeldJob
  <2>5. worker'[t] = worker[t] /\ current'[t] = current[t]
    <3>1. CASE HoldingMove(s)
      BY <2>3, <3>1, HoldingMoves
    <3>2. CASE WorkerSleep(s) \/ WorkerExit(s) \/ WorkerTake(s) \/ CompleteJob(s) \/ FreeSlot(s)
      BY <2>3, <3>2 DEF WorkerSleep, WorkerExit, WorkerTake, CompleteJob, FreeSlot, Goto
    <3> QED
      BY <3>1, <3>2 DEF WorkerStep, HoldingMove
  <2>6. cancelled'[current[t]] = cancelled[current[t]]
    BY <1>1, <2>4 DEF WorkerStep, WorkerSleep, WorkerExit, WorkerTake,
       JobEndsEarly, BeginPrompt, PrefillSleep, PrefillGrant, SyncInterrupted,
       StreamStartFails, DecodeStop, StreamWriteFails, EvalSleep, EvalReturn,
       ReplyCancelled, BeginRepair, Publish, SendResponse, SendFails, CompleteJob,
       FreeSlot
  <2>7. /\ decode_done'[t] = decode_done[t]
        /\ UNCHANGED <<slot_pending, in_flight>>
        /\ \/ UNCHANGED <<prefill_waiting, last_prefill_slot, model_busy, decode_pending>>
           \/ model_busy'
    BY <1>1, <2>3 DEF WorkerStep, WorkerSleep, WorkerExit, WorkerTake,
       JobEndsEarly, BeginPrompt, PrefillSleep, PrefillGrant, SyncInterrupted,
       StreamStartFails, DecodeStop, StreamWriteFails, EvalSleep, EvalReturn,
       ReplyCancelled, BeginRepair, Publish, SendResponse, SendFails, CompleteJob,
       FreeSlot
  <2> QED
    BY <1>2, <2>2, <2>5, <2>6, <2>7, SleepFrame
<1> QED
  BY <1>3, <1>4, <1>5

\* The same of the coordinator, which takes the executor for a batch and wakes
\* everybody when it gives it back, and of the signal and the main thread.
LEMMA OtherSleepers ==
    ASSUME TypeOK, NEW t \in model_asleep' \cap Slots,
           t \in model_asleep => SleepsWell(t),
           DecoderStep \/ StopSignal \/ MainStep \/ Rest \/ UNCHANGED vars
    PROVE  SleepsWell(t)'
<1> USE DEF jobVars, queueVars, bindVars, localVars, workerVars, turnVars,
            tokenVars, modelVars, stopVars
<1>1. ~DecoderFinish /\ ~StopDecoder
  BY DEF DecoderFinish, StopDecoder
<1>2. t # Decoder
  BY SchedulerAssumption DEF Slots, Decoder
<1>3. /\ UNCHANGED <<worker, current, client, cancelled, decode_done>>
      /\ g_stop_requested' \/ g_stop_requested' = g_stop_requested
      /\ model_asleep' \in {model_asleep, model_asleep \cup {Decoder}}
  BY <1>1 DEF DecoderStep, DecoderSleep, DecoderCoalesce, DecoderBusyWait,
     DecoderFindsNone, DecoderCollect, DecoderExit, StopSignal, MainStep,
     StopWorkers, JoinDecoder, Close, Rest, vars
<1>4. /\ UNCHANGED <<slot_pending, in_flight>> \/ ~slot_pending'[t]
      /\ \/ UNCHANGED <<prefill_waiting, last_prefill_slot, model_busy, decode_pending>>
         \/ model_busy'
  BY <1>1 DEF DecoderStep, DecoderSleep, DecoderCoalesce, DecoderBusyWait,
     DecoderFindsNone, DecoderCollect, DecoderExit, StopSignal, MainStep,
     StopWorkers, JoinDecoder, Close, Rest, vars
<1>5. SleepsWell(t)
  BY <1>2, <1>3
<1> QED
  BY <1>3, <1>4, <1>5, SleepFrame

\* The coordinator is woken by the first token, by the executor coming free and
\* by its own stop.
LEMMA DecoderSleepStep ==
    TypeOK /\ DecoderSleepsWell /\ [Next]_vars => DecoderSleepsWell'
<1> SUFFICES ASSUME TypeOK, DecoderSleepsWell, [Next]_vars PROVE DecoderSleepsWell'
  OBVIOUS
<1> USE DEF jobVars, queueVars, bindVars, localVars, workerVars, turnVars,
            tokenVars, modelVars, stopVars
<1>1. ASSUME Decoder \notin model_asleep' PROVE DecoderSleepsWell'
  BY <1>1 DEF DecoderSleepsWell
<1>2. ASSUME Decoder \in model_asleep' => Decoder \in model_asleep,
             UNCHANGED <<decoder, decode_pending, model_stopping>>,
             model_busy' = model_busy \/ model_busy'
      PROVE  DecoderSleepsWell'
  BY <1>2 DEF DecoderSleepsWell
<1>3. ASSUME NEW j \in Jobs,
             AcceptRequest(j) \/ AcceptOther(j) \/ CancelMark(j) \/ ClientStep(j)
      PROVE  DecoderSleepsWell'
  <2>1. CASE CancelWithdraw(j)
    <3>1. model_asleep' = {}
      BY <2>1 DEF CancelWithdraw, WithdrawToken
    <3> QED
      BY <3>1, <1>1
  <2>2. CASE ~CancelWithdraw(j)
    BY <1>3, <2>2, <1>2 DEF AcceptRequest, AcceptOther, CancelMark, ClientStep,
       Enqueue, EnqueueRefused, CancelDetach, CancelComplete, LeaveWait, ClientDone
  <2> QED
    BY <2>1, <2>2
<1>4. ASSUME NEW s \in Slots, WorkerStep(s) PROVE DecoderSleepsWell'
  <2>1. CASE \/ PrefillRequest(s) \/ PrefillAbandon(s) \/ PrefillLeave(s)
             \/ GenerationEnter(s) \/ EvalRequest(s) \/ EvalWithdraw(s)
             \/ GenerationLeave(s) \/ FinishJob(s)
    <3>1. model_asleep' = {}
      BY <2>1 DEF PrefillRequest, PrefillAbandon, PrefillLeave, GenerationEnter,
         EvalRequest, EvalWithdraw, WithdrawToken, GenerationLeave, FinishJob
    <3> QED
      BY <3>1, <1>1
  <2>2. CASE PrefillSleep(s) \/ EvalSleep(s)
    <3>1. s # Decoder
      BY SchedulerAssumption DEF Slots, Decoder
    <3>2. /\ model_asleep' = model_asleep \cup {s}
          /\ UNCHANGED <<decoder, decode_pending, model_stopping, model_busy>>
      BY <2>2 DEF PrefillSleep, EvalSleep
    <3> QED
      BY <3>1, <3>2, <1>2
  <2>3. CASE PrefillGrant(s)
    BY <2>3, <1>2 DEF PrefillGrant
  <2>4. CASE \/ WorkerSleep(s) \/ WorkerExit(s) \/ WorkerTake(s) \/ JobEndsEarly(s)
             \/ BeginPrompt(s) \/ SyncInterrupted(s) \/ StreamStartFails(s)
             \/ DecodeStop(s) \/ StreamWriteFails(s) \/ EvalReturn(s)
             \/ ReplyCancelled(s) \/ BeginRepair(s) \/ Publish(s) \/ SendResponse(s)
             \/ SendFails(s) \/ CompleteJob(s) \/ FreeSlot(s)
    BY <2>4, <1>2 DEF WorkerSleep, WorkerExit, WorkerTake, JobEndsEarly, BeginPrompt,
       SyncInterrupted, StreamStartFails, DecodeStop, StreamWriteFails, EvalReturn,
       ReplyCancelled, BeginRepair, Publish, SendResponse, SendFails, CompleteJob,
       FreeSlot
  <2> QED
    BY <1>4, <2>1, <2>2, <2>3, <2>4 DEF WorkerStep
<1>5. ASSUME DecoderSleep \/ DecoderBusyWait PROVE DecoderSleepsWell'
  BY <1>5 DEF DecoderSleep, DecoderBusyWait, DecoderSleepsWell
<1>6. ASSUME DecoderCoalesce \/ DecoderFindsNone \/ DecoderCollect \/ DecoderExit
      PROVE  DecoderSleepsWell'
  <2>1. Decoder \notin model_asleep /\ model_asleep' = model_asleep
    BY <1>6 DEF DecoderCoalesce, DecoderFindsNone, DecoderCollect, DecoderExit,
       AtBusyWait, DecoderSleepsWell
  <2> QED
    BY <2>1, <1>1
<1>7. ASSUME DecoderFinish \/ StopDecoder PROVE DecoderSleepsWell'
  BY <1>7, <1>1 DEF DecoderFinish, StopDecoder
<1>8. ASSUME StopSignal \/ StopWorkers \/ JoinDecoder \/ Close \/ Rest \/ UNCHANGED vars
      PROVE  DecoderSleepsWell'
  BY <1>8, <1>2 DEF StopSignal, StopWorkers, JoinDecoder, Close, Rest, vars
<1> QED
  BY <1>3, <1>4, <1>5, <1>6, <1>7, <1>8 DEF Next, DecoderStep, MainStep

LEMMA WakeInvStep == TypeOK /\ OwnerInv /\ WakeInv /\ [Next]_vars => WakeInv'
<1> SUFFICES ASSUME TypeOK, OwnerInv, WakeInv, [Next]_vars PROVE WakeInv'
  OBVIOUS
<1>1. IdleSleepsWell' /\ DecoderSleepsWell'
  BY IdleStep, DecoderSleepStep DEF WakeInv
<1>2. ASSUME NEW t \in model_asleep' \cap Slots PROVE SleepsWell(t)'
  <2>1. t \in model_asleep => SleepsWell(t)
    BY <1>2 DEF WakeInv
  <2>2. ASSUME NEW j \in Jobs,
               AcceptRequest(j) \/ AcceptOther(j) \/ CancelMark(j) \/ ClientStep(j)
        PROVE  SleepsWell(t)'
    BY <2>1, <2>2, ClientSleepers
  <2>3. ASSUME NEW s \in Slots, WorkerStep(s) PROVE SleepsWell(t)'
    BY <2>1, <2>3, WorkerSleepers
  <2>4. ASSUME DecoderStep \/ StopSignal \/ MainStep \/ Rest \/ UNCHANGED vars
        PROVE  SleepsWell(t)'
    BY <2>1, <2>4, OtherSleepers
  <2> QED
    BY <2>2, <2>3, <2>4 DEF Next
<1> QED
  BY <1>1, <1>2 DEF WakeInv

\* Nobody sleeps at start.
LEMMA InitAwake == Init => WakeInv
BY DEF Init, WakeInv, IdleSleepsWell, DecoderSleepsWell

\* No worker and no coordinator sleeps on server.cv or server.model_cv while it
\* could go on: whatever makes the condition of a wait loop false is followed by
\* a broadcast in the same critical section, or later in the same cancellation.
THEOREM NoWakeupIsLost == Spec => []NoLostWakeup
<1>1. Spec => []WakeInv
  BY InitAwake, WakeInvStep, InitOwned, OwnerInvStep, TypeCorrect, PTL DEF Spec
<1>2. WakeInv => NoLostWakeup
  BY DEF WakeInv, IdleSleepsWell, SleepsWell, DecoderSleepsWell, NoLostWakeup
<1> QED
  BY <1>1, <1>2, PTL

-----------------------------------------------------------------------------
(* The end of the process.                                                 *)

\* The connections that main must wait for.
OpenClients == {j \in Jobs : client[j] \notin {"none", "gone"}}

\* clients is the number of threads that have started and not ended.
ClientsCounted == IsFiniteSet(OpenClients) /\ clients = Cardinality(OpenClients)

\* How far main has come, and what has ended by then: the workers before the
\* coordinator, the coordinator before the clients; and that nothing starts
\* again, since a worker exits only when no job can come any more.
StopInv ==
    /\ stopping <=> main # "accept"
    /\ model_stopping <=> main \in {"join_decode", "join_clients", "closed"}
    /\ model_stopping => \A s \in Slots : worker[s] = "exited"
    /\ decoder = "exited" => model_stopping
    /\ main \in {"join_clients", "closed"} => decoder = "exited"
    /\ \A s \in Slots : worker[s] = "exited" => stopping /\ queue = {} /\ assigned[s] = NoJob
    /\ ClientsCounted
    /\ main = "closed" => OpenClients = {}

\* client_main counts itself, and only the accept loop starts one.
LEMMA ClientCount ==
    ASSUME TypeOK, ClientsCounted, [Next]_vars
    PROVE  ClientsCounted' /\ (main # "accept" => OpenClients' \subseteq OpenClients)
<1> USE DEF TypeOK, JobTypeOK
<1> USE DEF jobVars, queueVars, bindVars, localVars, workerVars, turnVars,
            tokenVars, modelVars, stopVars
<1> DEFINE Goal == ClientsCounted' /\ (main # "accept" => OpenClients' \subseteq OpenClients)
<1>1. ASSUME OpenClients' = OpenClients, clients' = clients PROVE Goal
  BY <1>1 DEF ClientsCounted
<1>2. ASSUME NEW j \in Jobs, AcceptRequest(j) \/ AcceptOther(j) PROVE Goal
  <2>1. /\ OpenClients' = OpenClients \cup {j} /\ j \notin OpenClients
        /\ clients' = clients + 1 /\ main = "accept"
    BY <1>2 DEF AcceptRequest, AcceptOther, OpenClients
  <2>2. /\ IsFiniteSet(OpenClients \cup {j})
        /\ Cardinality(OpenClients \cup {j}) = Cardinality(OpenClients) + 1
    BY <2>1, FS_AddElement DEF ClientsCounted
  <2> QED
    BY <2>1, <2>2 DEF ClientsCounted
<1>3. ASSUME NEW j \in Jobs, ClientDone(j) PROVE Goal
  <2>1. OpenClients' = OpenClients \ {j} /\ j \in OpenClients
    BY <1>3 DEF ClientDone, OpenClients
  <2>2. /\ IsFiniteSet(OpenClients \ {j})
        /\ Cardinality(OpenClients \ {j}) = Cardinality(OpenClients) - 1
    BY <2>1, FS_RemoveElement DEF ClientsCounted
  <2>3. clients > 0
    BY <2>1, FS_EmptySet DEF ClientsCounted
  <2>4. clients' = clients - 1
    BY <1>3, <2>3 DEF ClientDone
  <2> QED
    BY <2>1, <2>2, <2>4 DEF ClientsCounted
<1>4. ASSUME NEW j \in Jobs,
             \/ Enqueue(j) \/ EnqueueRefused(j) \/ CancelMark(j) \/ CancelDetach(j)
             \/ CancelWithdraw(j) \/ CancelComplete(j) \/ LeaveWait(j)
      PROVE  Goal
  <2>1. /\ client[j] \notin {"none", "gone"} /\ client'[j] \notin {"none", "gone"}
        /\ \A k \in Jobs \ {j} : client'[k] = client[k]
        /\ clients' = clients
    BY <1>4 DEF Enqueue, EnqueueRefused, CancelMark, CancelDetach, CancelWithdraw,
       CancelComplete, LeaveWait
  <2>2. OpenClients' = OpenClients
    BY <2>1 DEF OpenClients
  <2> QED
    BY <2>1, <2>2, <1>1
<1>5. ASSUME NEW s \in Slots, WorkerStep(s) PROVE Goal
  <2>1. UNCHANGED <<client, clients>>
    BY <1>5 DEF WorkerStep, WorkerSleep, WorkerExit, WorkerTake, JobEndsEarly,
       BeginPrompt, PrefillRequest, PrefillSleep, PrefillGrant, SyncInterrupted,
       PrefillAbandon, PrefillLeave, StreamStartFails, GenerationEnter, DecodeStop,
       StreamWriteFails, EvalRequest, EvalWithdraw, EvalSleep, EvalReturn,
       GenerationLeave, ReplyCancelled, BeginRepair, Publish, SendResponse,
       SendFails, FinishJob, CompleteJob, FreeSlot
  <2> QED
    BY <2>1, <1>1 DEF OpenClients
<1>6. ASSUME DecoderStep \/ StopSignal \/ MainStep \/ Rest \/ UNCHANGED vars PROVE Goal
  <2>1. UNCHANGED <<client, clients>>
    BY <1>6 DEF DecoderStep, DecoderSleep, DecoderCoalesce, DecoderBusyWait,
       DecoderFindsNone, DecoderCollect, DecoderFinish, DecoderExit, StopSignal,
       MainStep, StopWorkers, StopDecoder, JoinDecoder, Close, Rest, vars
  <2> QED
    BY <2>1, <1>1 DEF OpenClients
<1> QED
  BY <1>2, <1>3, <1>4, <1>5, <1>6 DEF Next, ClientStep

\* On an empty list the router does nothing.
LEMMA DispatchNothing ==
    ASSUME NEW ah, NEW a \in [Slots -> Jobs \cup {NoJob}], NEW b, NEW wake,
           Dispatch({}, ah, a, b, wake)
    PROVE  queue' = {} /\ assigned' = a
<1>1. PICK r \in Routes({}, ah, {s \in Slots : ~b[s] /\ a[s] = NoJob}) :
        LET routed == {j \in {} : r[j] # NoSlot}
            taken  == {r[j] : j \in routed}
        IN  /\ queue' = {} \ routed
            /\ assigned' = [s \in Slots |-> IF s \in taken
                                            THEN CHOOSE j \in routed : r[j] = s
                                            ELSE a[s]]
  BY DEF Dispatch
<1>2. assigned' = [s \in Slots |-> a[s]]
  BY <1>1
<1> QED
  BY <1>1, <1>2

\* Once the workers may exit no job reaches a slot any more.
LEMMA NothingComes ==
    ASSUME TypeOK, stopping, queue = {}, [Next]_vars,
           NEW s \in Slots, assigned[s] = NoJob
    PROVE  stopping' /\ queue' = {} /\ assigned'[s] = NoJob
<1> USE DEF TypeOK, QueueTypeOK
<1> USE DEF jobVars, queueVars, bindVars, localVars, workerVars, turnVars,
            tokenVars, modelVars, stopVars
<1> DEFINE Goal == stopping' /\ queue' = {} /\ assigned'[s] = NoJob
<1>1. ASSUME UNCHANGED <<queue, assigned, stopping>> PROVE Goal
  BY <1>1
<1>2. ASSUME NEW j \in Jobs, CancelDetach(j) PROVE Goal
  <2>1. stopping' = stopping
    BY <1>2 DEF CancelDetach
  <2>2. ASSUME NEW t \in Slots,
               Dispatch(queue, ahead, [assigned EXCEPT ![t] = NoJob], FreedBy(t), TRUE)
        PROVE  queue' = {} /\ assigned' = [assigned EXCEPT ![t] = NoJob]
    <3> DEFINE a == [assigned EXCEPT ![t] = NoJob]
    <3>1. Dispatch({}, ahead, a, FreedBy(t), TRUE)
      BY <2>2
    <3>2. a \in [Slots -> Jobs \cup {NoJob}]
      OBVIOUS
    <3> HIDE DEF a
    <3>3. queue' = {} /\ assigned' = a
      BY <3>1, <3>2, DispatchNothing
    <3> QED
      BY <3>3 DEF a
  <2>3. \/ assigned' = assigned /\ queue' \subseteq queue
        \/ \E t \in Slots :
              Dispatch(queue, ahead, [assigned EXCEPT ![t] = NoJob], FreedBy(t), TRUE)
    BY <1>2 DEF CancelDetach
  <2>4. queue' = {} /\ assigned'[s] = NoJob
    BY <2>2, <2>3
  <2> QED
    BY <2>1, <2>4
<1>3. ASSUME NEW t \in Slots, FreeSlot(t) PROVE Goal
  BY <1>3, DispatchNothing DEF FreeSlot
<1>4. ASSUME StopWorkers PROVE Goal
  BY <1>4, DispatchNothing DEF StopWorkers
<1>5. ASSUME NEW t \in Slots, HoldingMove(t) PROVE Goal
  BY <1>5, <1>1, HoldingMoves
<1>6. ASSUME NEW t \in Slots, WorkerSleep(t) \/ WorkerExit(t) \/ WorkerTake(t) \/ CompleteJob(t)
      PROVE  Goal
  BY <1>6 DEF WorkerSleep, WorkerExit, WorkerTake, CompleteJob
<1>7. ASSUME NEW j \in Jobs,
             \/ AcceptRequest(j) \/ AcceptOther(j) \/ Enqueue(j) \/ EnqueueRefused(j)
             \/ CancelMark(j) \/ CancelWithdraw(j) \/ CancelComplete(j) \/ LeaveWait(j)
             \/ ClientDone(j)
      PROVE  Goal
  BY <1>7, <1>1 DEF AcceptRequest, AcceptOther, Enqueue, EnqueueRefused, CancelMark,
     CancelWithdraw, CancelComplete, LeaveWait, ClientDone
<1>8. ASSUME DecoderStep \/ StopSignal \/ StopDecoder \/ JoinDecoder \/ Close \/ Rest
             \/ UNCHANGED vars
      PROVE  Goal
  BY <1>8, <1>1 DEF DecoderStep, DecoderSleep, DecoderCoalesce, DecoderBusyWait,
     DecoderFindsNone, DecoderCollect, DecoderFinish, DecoderExit, StopSignal,
     StopDecoder, JoinDecoder, Close, Rest, vars
<1> QED
  BY <1>2, <1>3, <1>4, <1>5, <1>6, <1>7, <1>8
     DEF Next, ClientStep, WorkerStep, MainStep, HoldingMove

\* A worker exits by WorkerExit only, and then for good.
LEMMA Exits ==
    ASSUME TypeOK, [Next]_vars, NEW s \in Slots
    PROVE  /\ worker'[s] = "exited" => worker[s] = "exited" \/ WorkerExit(s)
           /\ worker[s] = "exited" => worker'[s] = "exited"
<1> USE DEF TypeOK, WorkerTypeOK
<1> USE DEF jobVars, queueVars, bindVars, localVars, workerVars, turnVars,
            tokenVars, modelVars, stopVars
<1>1. CASE UNCHANGED worker
  BY <1>1
<1>2. ASSUME NEW t \in Slots, HoldingMove(t)
      PROVE  worker'[s] = "exited" <=> worker[s] = "exited"
  <2>1. PICK pc \in HoldingPCs : worker' = [worker EXCEPT ![t] = pc]
    BY <1>2, HoldingMoves
  <2>2. worker[t] \in HoldingPCs
    BY <1>2, HoldingMoves
  <2> QED
    BY <2>1, <2>2 DEF HoldingPCs, RunningPCs, InnerPCs
<1>3. ASSUME NEW t \in Slots, WorkerSleep(t) \/ WorkerTake(t) \/ CompleteJob(t) \/ FreeSlot(t)
      PROVE  worker'[s] = "exited" <=> worker[s] = "exited"
  BY <1>3 DEF WorkerSleep, WorkerTake, CompleteJob, FreeSlot, Goto
<1>4. ASSUME NEW t \in Slots, WorkerExit(t)
      PROVE  worker'[s] = "exited" <=> worker[s] = "exited" \/ s = t
  BY <1>4 DEF WorkerExit, Goto
<1>5. ASSUME NEW j \in Jobs,
             AcceptRequest(j) \/ AcceptOther(j) \/ CancelMark(j) \/ ClientStep(j)
      PROVE  UNCHANGED worker
  BY <1>5 DEF AcceptRequest, AcceptOther, CancelMark, ClientStep, Enqueue,
     EnqueueRefused, CancelDetach, CancelWithdraw, CancelComplete, LeaveWait, ClientDone
<1>6. ASSUME DecoderStep \/ StopSignal \/ MainStep \/ Rest \/ UNCHANGED vars
      PROVE  UNCHANGED worker
  BY <1>6 DEF DecoderStep, DecoderSleep, DecoderCoalesce, DecoderBusyWait,
     DecoderFindsNone, DecoderCollect, DecoderFinish, DecoderExit, StopSignal,
     MainStep, StopWorkers, StopDecoder, JoinDecoder, Close, Rest, vars
<1> QED
  BY <1>1, <1>2, <1>3, <1>4, <1>5, <1>6 DEF Next, WorkerStep, HoldingMove

\* Only main moves main, and the coordinator exits by DecoderExit only.
LEMMA MainMoves ==
    ASSUME [Next]_vars
    PROVE  \/ MainStep
           \/ /\ UNCHANGED <<main, stopping, model_stopping>>
              /\ decoder = "exited" => decoder' = "exited"
              /\ decoder' = "exited" => decoder = "exited" \/ model_stopping
<1> USE DEF jobVars, queueVars, bindVars, localVars, workerVars, turnVars,
            tokenVars, modelVars, stopVars
<1>1. ASSUME NEW j \in Jobs,
             AcceptRequest(j) \/ AcceptOther(j) \/ CancelMark(j) \/ ClientStep(j)
      PROVE  UNCHANGED <<main, stopping, model_stopping, decoder>>
  BY <1>1 DEF AcceptRequest, AcceptOther, CancelMark, ClientStep, Enqueue,
     EnqueueRefused, CancelDetach, CancelWithdraw, CancelComplete, LeaveWait, ClientDone
<1>2. ASSUME NEW s \in Slots, WorkerStep(s)
      PROVE  UNCHANGED <<main, stopping, model_stopping, decoder>>
  BY <1>2 DEF WorkerStep, WorkerSleep, WorkerExit, WorkerTake, JobEndsEarly,
     BeginPrompt, PrefillRequest, PrefillSleep, PrefillGrant, SyncInterrupted,
     PrefillAbandon, PrefillLeave, StreamStartFails, GenerationEnter, DecodeStop,
     StreamWriteFails, EvalRequest, EvalWithdraw, EvalSleep, EvalReturn,
     GenerationLeave, ReplyCancelled, BeginRepair, Publish, SendResponse,
     SendFails, FinishJob, CompleteJob, FreeSlot
<1>3. ASSUME DecoderStep
      PROVE  /\ UNCHANGED <<main, stopping, model_stopping>>
             /\ decoder # "exited"
             /\ decoder' = "exited" => model_stopping
  BY <1>3 DEF DecoderStep, DecoderSleep, DecoderCoalesce, DecoderBusyWait,
     DecoderFindsNone, DecoderCollect, DecoderFinish, DecoderExit, AtBusyWait
<1>4. ASSUME StopSignal \/ Rest \/ UNCHANGED vars
      PROVE  UNCHANGED <<main, stopping, model_stopping, decoder>>
  BY <1>4 DEF StopSignal, Rest, vars
<1> QED
  BY <1>1, <1>2, <1>3, <1>4 DEF Next

LEMMA StopInvStep == TypeOK /\ StopInv /\ [Next]_vars => StopInv'
<1> SUFFICES ASSUME TypeOK, StopInv, [Next]_vars PROVE StopInv'
  OBVIOUS
<1> USE DEF jobVars, queueVars, bindVars, localVars, workerVars, turnVars,
            tokenVars, modelVars, stopVars
<1>1. ASSUME NEW s \in Slots, worker'[s] = "exited"
      PROVE  stopping' /\ queue' = {} /\ assigned'[s] = NoJob
  <2>1. CASE worker[s] = "exited"
    BY <2>1, NothingComes DEF StopInv
  <2>2. CASE WorkerExit(s)
    BY <2>2 DEF WorkerExit
  <2> QED
    BY <1>1, <2>1, <2>2, Exits
<1>2. ClientsCounted' /\ (main # "accept" => OpenClients' \subseteq OpenClients)
  BY ClientCount DEF StopInv
<1>3. (\A s \in Slots : worker[s] = "exited") => \A s \in Slots : worker'[s] = "exited"
  BY Exits
<1>4. /\ stopping' <=> main' # "accept"
      /\ model_stopping' <=> main' \in {"join_decode", "join_clients", "closed"}
      /\ model_stopping' => \A s \in Slots : worker'[s] = "exited"
      /\ decoder' = "exited" => model_stopping'
      /\ main' \in {"join_clients", "closed"} => decoder' = "exited"
      /\ main' = "closed" => OpenClients' = {}
  <2>1. CASE StopWorkers
    BY <2>1 DEF StopWorkers, StopInv
  <2>2. CASE StopDecoder
    BY <2>2, <1>3 DEF StopDecoder, StopInv, SlotsJoined
  <2>3. CASE JoinDecoder
    BY <2>3, <1>3 DEF JoinDecoder, StopInv
  <2>4. CASE Close
    <3>1. OpenClients = {}
      BY <2>4, FS_EmptySet DEF Close, StopInv, ClientsCounted
    <3>2. OpenClients' = {}
      BY <2>4, <3>1 DEF Close, OpenClients
    <3> QED
      BY <2>4, <1>3, <3>2 DEF Close, StopInv
  <2>5. CASE /\ UNCHANGED <<main, stopping, model_stopping>>
             /\ decoder = "exited" => decoder' = "exited"
             /\ decoder' = "exited" => decoder = "exited" \/ model_stopping
    BY <2>5, <1>2, <1>3 DEF StopInv
  <2> QED
    BY <2>1, <2>2, <2>3, <2>4, <2>5, MainMoves DEF MainStep
<1> QED
  BY <1>1, <1>2, <1>4 DEF StopInv

\* At start nothing has stopped and nobody is connected.
LEMMA InitRunning == Init => StopInv
<1> SUFFICES ASSUME Init PROVE StopInv
  OBVIOUS
<1>1. OpenClients = {}
  BY DEF Init, OpenClients
<1> QED
  BY <1>1, FS_EmptySet DEF Init, StopInv, ClientsCounted

\* The coordinator is still there while a worker may post a token, and the
\* server is closed, its sessions persisted and freed, when no worker, no queued
\* job and no client thread is left (server_request_worker_stop,
\* server_request_decode_stop, the end of main).
THEOREM ShutdownIsOrdered == Spec => []ShutdownOrder
<1>1. Spec => []StopInv
  BY InitRunning, StopInvStep, TypeCorrect, PTL DEF Spec
<1>2. TypeOK /\ StopInv /\ FreeSlotIsIdle => ShutdownOrder
  <2> SUFFICES ASSUME TypeOK, StopInv, FreeSlotIsIdle PROVE ShutdownOrder
    OBVIOUS
  <2>1. decoder = "exited" => \A s \in Slots : worker[s] = "exited"
    BY DEF StopInv
  <2>2. ASSUME main = "closed"
        PROVE  /\ decoder = "exited" /\ queue = {}
               /\ \A s \in Slots : worker[s] = "exited" /\ ~busy[s]
               /\ \A j \in Jobs : client[j] \in {"none", "gone"}
    <3>1. decoder = "exited" /\ \A s \in Slots : worker[s] = "exited"
      BY <2>1, <2>2 DEF StopInv
    <3>2. 0 \in Slots
      BY SchedulerAssumption DEF Slots
    <3>3. queue = {} /\ \A s \in Slots : assigned[s] = NoJob
      BY <3>1, <3>2 DEF StopInv
    <3>4. \A s \in Slots : ~busy[s]
      BY <3>1, <3>3 DEF FreeSlotIsIdle, HoldingPCs, RunningPCs, InnerPCs
    <3>5. \A j \in Jobs : client[j] \in {"none", "gone"}
      BY <2>2 DEF StopInv, OpenClients
    <3> QED
      BY <3>1, <3>3, <3>4, <3>5
  <2> QED
    BY <2>1, <2>2 DEF ShutdownOrder
<1> QED
  BY <1>1, <1>2, TypeCorrect, FreeSlotsAreIdle, PTL
=============================================================================
