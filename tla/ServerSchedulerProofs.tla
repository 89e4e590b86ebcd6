----------------------- MODULE ServerSchedulerProofs -----------------------
(***************************************************************************)
(* Theorems about ServerScheduler, for any number of jobs and slots, any   *)
(* bound on the work of a request, with and without cancellation, stop     *)
(* signal and detours.                                                     *)
(*                                                                         *)
(* The type invariant is proved with EvalHasBudget, which makes it         *)
(* inductive.  Each of the others is inductive relative to it: a lemma     *)
(* shows that one step preserves it, with one step of the proof for each   *)
(* action, or group of actions, that touches it.                           *)
(***************************************************************************)
EXTENDS ServerScheduler, FiniteSetTheorems, TLAPS

\* A worker that waits for a token has paid for it: the budget is still positive.
EvalHasBudget == \A s \in Slots : worker[s] = "eval" => tokens[s] > 0

\* A slot is waiting exactly while its worker asks for a turn, and the turns it
\* has lost and those it may still lose, one for each slot between it and the
\* last turn, are fewer than the slots.
TurnInv ==
    \A s \in Slots :
        /\ prefill_waiting[s] <=> worker[s] = "turn"
        /\ IF prefill_waiting[s] THEN overtaken[s] + Distance(s) <= SlotCount - 1
                                 ELSE overtaken[s] = 0

\* The steps of a worker that neither wait nor leave a wait.
PlainMove(s) ==
    \/ WorkerExit(s) \/ WorkerTake(s) \/ JobEndsEarly(s) \/ BeginPrompt(s)
    \/ StreamStartFails(s) \/ GenerationEnter(s) \/ DecodeStop(s)
    \/ StreamWriteFails(s) \/ GenerationLeave(s) \/ ReplyCancelled(s)
    \/ BeginRepair(s) \/ Publish(s) \/ SendResponse(s) \/ SendFails(s)
    \/ FinishJob(s) \/ CompleteJob(s) \/ FreeSlot(s)

-----------------------------------------------------------------------------
(* The type invariant.                                                     *)

\* dispatch_jobs_locked keeps the types: an assignment is a job of the list.
LEMMA DispatchType ==
    ASSUME NEW q \in SUBSET Jobs, NEW ah \in [Jobs -> SUBSET Jobs],
           NEW a \in [Slots -> Jobs \cup {NoJob}], NEW b \in [Slots -> BOOLEAN],
           NEW wake \in BOOLEAN, idle_asleep \in SUBSET Slots,
           Dispatch(q, ah, a, b, wake)
    PROVE  /\ queue' \in SUBSET Jobs
           /\ ahead' \in [Jobs -> SUBSET Jobs]
           /\ assigned' \in [Slots -> Jobs \cup {NoJob}]
           /\ busy' \in [Slots -> BOOLEAN]
           /\ idle_asleep' \in SUBSET Slots
<1> DEFINE free == {s \in Slots : ~b[s] /\ a[s] = NoJob}
<1>1. PICK r \in Routes(q, ah, free) :
        LET routed == {j \in q : r[j] # NoSlot}
            taken  == {r[j] : j \in routed}
        IN  /\ queue' = q \ routed
            /\ ahead' = [j \in Jobs |-> ah[j] \ routed]
            /\ assigned' = [s \in Slots |-> IF s \in taken
                                            THEN CHOOSE j \in routed : r[j] = s
                                            ELSE a[s]]
            /\ busy' = [s \in Slots |-> s \in taken \/ b[s]]
            /\ idle_asleep' = IF wake \/ routed # {} THEN {} ELSE idle_asleep
  BY DEF Dispatch
<1> DEFINE routed == {j \in q : r[j] # NoSlot}
           taken  == {r[j] : j \in routed}
<1>2. assigned' \in [Slots -> Jobs \cup {NoJob}]
  <2> SUFFICES ASSUME NEW s \in Slots, s \in taken
               PROVE  (CHOOSE j \in routed : r[j] = s) \in Jobs
    BY <1>1
  <2>1. \E j \in routed : r[j] = s
    OBVIOUS
  <2> QED
    BY <2>1
<1> QED
  BY <1>1, <1>2

\* Starting another sync keeps the types of a worker's locals.
LEMMA BeginSyncType ==
    ASSUME WorkerTypeOK, NEW s \in Slots, NEW why \in Phases,
           BeginSync(s, why), UNCHANGED <<current, repaired>>,
           tokens' \in [Slots -> 0 .. MaxTokens]
    PROVE  WorkerTypeOK'
<1>1. PICK n \in 1 .. MaxQuanta : quanta' = [quanta EXCEPT ![s] = n]
  BY DEF BeginSync
<1>2. quanta' \in [Slots -> 0 .. MaxQuanta]
  BY <1>1, SchedulerAssumption DEF WorkerTypeOK
<1> QED
  BY <1>2 DEF WorkerTypeOK, BeginSync, Goto, WorkerPCs, HoldingPCs, RunningPCs,
     InnerPCs

\* So does a failed sync, wherever the worker goes on,
LEMMA SyncFailsType ==
    ASSUME WorkerTypeOK, NEW s \in Slots, SyncFails(s), UNCHANGED current
    PROVE  WorkerTypeOK'
<1>1. AfterFailedSync(s) \in WorkerPCs
  BY DEF AfterFailedSync, WorkerPCs, HoldingPCs, RunningPCs, InnerPCs
<1> QED
  BY <1>1, SchedulerAssumption DEF SyncFails, WorkerTypeOK, Goto, Phases

\* and a successful one.
LEMMA SyncSucceedsType ==
    ASSUME WorkerTypeOK, NEW s \in Slots, SyncSucceeds(s), UNCHANGED current
    PROVE  WorkerTypeOK'
<1> DEFINE next == CASE phase[s] = "prompt" ->
                            IF JobCancelled(s) THEN "finish" ELSE "ready"
                     [] phase[s] = "rewind" -> "decode"
                     [] phase[s] \in {"repair", "late_repair"} -> "ready"
                     [] OTHER -> "send"
<1>1. next \in WorkerPCs
  BY DEF WorkerPCs, HoldingPCs, RunningPCs, InnerPCs
<1>2. worker' \in [Slots -> WorkerPCs]
  <2>1. worker' = [worker EXCEPT ![s] = next]
    BY DEF SyncSucceeds, Goto
  <2> QED
    BY <1>1, <2>1 DEF WorkerTypeOK
<1>3. repaired' \in [Slots -> BOOLEAN]
  BY DEF SyncSucceeds, WorkerTypeOK
<1>4. /\ quanta' \in [Slots -> 0 .. MaxQuanta]
      /\ phase' \in [Slots -> Phases]
  BY SchedulerAssumption DEF SyncSucceeds, WorkerTypeOK, Phases
<1> QED
  BY <1>2, <1>3, <1>4 DEF WorkerTypeOK, SyncSucceeds

\* Every step keeps the types of the workers' state.  That a token is only
\* taken off a budget that has one left needs EvalHasBudget.
LEMMA WorkerTypeStep == TypeOK /\ EvalHasBudget /\ [Next]_vars => WorkerTypeOK'
<1> SUFFICES ASSUME TypeOK, EvalHasBudget, [Next]_vars PROVE WorkerTypeOK'
  OBVIOUS
<1> USE DEF TypeOK, WorkerTypeOK
<1> USE DEF jobVars, queueVars, bindVars, localVars, workerVars, turnVars,
            tokenVars, modelVars, stopVars
<1>1. ASSUME NEW s \in Slots, WorkerExit(s) PROVE WorkerTypeOK'
  BY <1>1 DEF WorkerExit, Goto, WorkerPCs, HoldingPCs, RunningPCs, InnerPCs
<1>2. ASSUME NEW s \in Slots, WorkerTake(s) PROVE WorkerTypeOK'
  BY <1>2 DEF WorkerTake, Goto, QueueTypeOK, WorkerPCs, HoldingPCs
<1>3. ASSUME NEW s \in Slots, JobEndsEarly(s) PROVE WorkerTypeOK'
  BY <1>3 DEF JobEndsEarly, Goto, WorkerPCs, HoldingPCs, RunningPCs, InnerPCs
<1>4. ASSUME NEW s \in Slots, BeginPrompt(s) PROVE WorkerTypeOK'
  BY <1>4 DEF BeginPrompt, Goto, WorkerPCs, HoldingPCs, RunningPCs, InnerPCs
<1>5. ASSUME NEW s \in Slots, PrefillRequest(s) PROVE WorkerTypeOK'
  BY <1>5 DEF PrefillRequest, Goto, WorkerPCs, HoldingPCs, RunningPCs,
        InnerPCs
<1>6. ASSUME NEW s \in Slots, PrefillGrant(s) PROVE WorkerTypeOK'
  BY <1>6 DEF PrefillGrant, Goto, WorkerPCs, HoldingPCs, RunningPCs, InnerPCs
<1>7. ASSUME NEW s \in Slots, SyncInterrupted(s) PROVE WorkerTypeOK'
  BY <1>7, SyncFailsType DEF SyncInterrupted
<1>8. ASSUME NEW s \in Slots, PrefillAbandon(s) PROVE WorkerTypeOK'
  BY <1>8, SyncFailsType DEF PrefillAbandon
<1>9. ASSUME NEW s \in Slots, PrefillLeave(s) PROVE WorkerTypeOK'
  <2>1. CASE SyncFails(s)
    BY <1>9, <2>1, SyncFailsType DEF PrefillLeave
  <2>2. CASE SyncSucceeds(s)
    BY <1>9, <2>2, SyncSucceedsType DEF PrefillLeave
  <2>3. ASSUME quanta[s] > 1, quanta' = [quanta EXCEPT ![s] = quanta[s] - 1],
               Goto(s, "sync"), UNCHANGED <<phase, tokens, repaired>>
        PROVE  WorkerTypeOK'
    BY <1>9, <2>3, SchedulerAssumption
       DEF PrefillLeave, Goto, WorkerPCs, HoldingPCs, RunningPCs, InnerPCs
  <2> QED
    BY <1>9, <2>1, <2>2, <2>3 DEF PrefillLeave
<1>10. ASSUME NEW s \in Slots, StreamStartFails(s) PROVE WorkerTypeOK'
  BY <1>10 DEF StreamStartFails, Goto, WorkerPCs, HoldingPCs, RunningPCs,
        InnerPCs
<1>11. ASSUME NEW s \in Slots, GenerationEnter(s) PROVE WorkerTypeOK'
  BY <1>11 DEF GenerationEnter, Goto, WorkerPCs, HoldingPCs, RunningPCs,
        InnerPCs
<1>12. ASSUME NEW s \in Slots, DecodeStop(s) PROVE WorkerTypeOK'
  BY <1>12 DEF DecodeStop, Goto, WorkerPCs, HoldingPCs, RunningPCs, InnerPCs
<1>13. ASSUME NEW s \in Slots, StreamWriteFails(s) PROVE WorkerTypeOK'
  BY <1>13 DEF StreamWriteFails, Goto, WorkerPCs, HoldingPCs, RunningPCs,
        InnerPCs
<1>14. ASSUME NEW s \in Slots, EvalRequest(s) PROVE WorkerTypeOK'
  BY <1>14 DEF EvalRequest, Goto, WorkerPCs, HoldingPCs, RunningPCs, InnerPCs
<1>15. ASSUME NEW s \in Slots, EvalWithdraw(s) PROVE WorkerTypeOK'
  BY <1>15 DEF EvalWithdraw, Goto, WorkerPCs, HoldingPCs, RunningPCs, InnerPCs
<1>16. ASSUME NEW s \in Slots, EvalReturn(s) PROVE WorkerTypeOK'
  <2>1. tokens[s] - 1 \in 0 .. MaxTokens
    BY <1>16, SchedulerAssumption DEF EvalReturn, EvalHasBudget
  <2>2. tokens' \in [Slots -> 0 .. MaxTokens]
    BY <1>16, <2>1 DEF EvalReturn
  <2>3. CASE Goto(s, "leave") /\ UNCHANGED <<phase, quanta>>
    BY <1>16, <2>2, <2>3 DEF EvalReturn, Goto, WorkerPCs, HoldingPCs,
       RunningPCs, InnerPCs
  <2>4. CASE Goto(s, "decode") /\ UNCHANGED <<phase, quanta>>
    BY <1>16, <2>2, <2>4 DEF EvalReturn, Goto, WorkerPCs, HoldingPCs,
       RunningPCs, InnerPCs
  <2>5. CASE BeginSync(s, "rewind")
    BY <1>16, <2>2, <2>5, BeginSyncType DEF EvalReturn, Phases
  <2> QED
    BY <1>16, <2>3, <2>4, <2>5 DEF EvalReturn
<1>17. ASSUME NEW s \in Slots, GenerationLeave(s) PROVE WorkerTypeOK'
  BY <1>17 DEF GenerationLeave, Goto, WorkerPCs, HoldingPCs, RunningPCs,
        InnerPCs
<1>18. ASSUME NEW s \in Slots, ReplyCancelled(s) PROVE WorkerTypeOK'
  BY <1>18 DEF ReplyCancelled, Goto, WorkerPCs, HoldingPCs, RunningPCs,
        InnerPCs
<1>19. ASSUME NEW s \in Slots, BeginRepair(s) PROVE WorkerTypeOK'
  BY <1>19, BeginSyncType DEF BeginRepair, Phases
<1>20. ASSUME NEW s \in Slots, Publish(s) PROVE WorkerTypeOK'
  <2>1. CASE Goto(s, "send") /\ UNCHANGED <<phase, quanta>>
    BY <1>20, <2>1 DEF Publish, Goto, WorkerPCs, HoldingPCs, RunningPCs, InnerPCs
  <2>2. CASE BeginSync(s, "canonical")
    BY <1>20, <2>2, BeginSyncType DEF Publish, Phases
  <2> QED
    BY <1>20, <2>1, <2>2 DEF Publish
<1>21. ASSUME NEW s \in Slots, SendResponse(s) PROVE WorkerTypeOK'
  BY <1>21 DEF SendResponse, Goto, WorkerPCs, HoldingPCs, RunningPCs, InnerPCs
<1>22. ASSUME NEW s \in Slots, SendFails(s) PROVE WorkerTypeOK'
  BY <1>22 DEF SendFails, Goto, WorkerPCs, HoldingPCs, RunningPCs, InnerPCs
<1>23. ASSUME NEW s \in Slots, FinishJob(s) PROVE WorkerTypeOK'
  BY <1>23, SchedulerAssumption DEF FinishJob, Goto, WorkerPCs, HoldingPCs
<1>24. ASSUME NEW s \in Slots, CompleteJob(s) PROVE WorkerTypeOK'
  BY <1>24 DEF CompleteJob, Goto, WorkerPCs, HoldingPCs, RunningPCs, InnerPCs
<1>25. ASSUME NEW s \in Slots, FreeSlot(s) PROVE WorkerTypeOK'
  BY <1>25 DEF FreeSlot, Goto, WorkerPCs, HoldingPCs, RunningPCs, InnerPCs
<1>26. ASSUME NEW j \in Jobs,
            \/ AcceptRequest(j) \/ AcceptOther(j) \/ CancelMark(j)
            \/ Enqueue(j) \/ EnqueueRefused(j) \/ CancelDetach(j)
            \/ CancelWithdraw(j) \/ CancelComplete(j) \/ LeaveWait(j)
            \/ ClientDone(j)
     PROVE  WorkerTypeOK'
  BY <1>26 DEF AcceptRequest, AcceptOther, CancelMark, Enqueue,
     EnqueueRefused, CancelDetach, CancelWithdraw, CancelComplete, LeaveWait,
     ClientDone
<1>27. ASSUME NEW s \in Slots,
            \/ WorkerSleep(s) \/ PrefillSleep(s) \/ EvalSleep(s)
     PROVE  WorkerTypeOK'
  BY <1>27 DEF WorkerSleep, PrefillSleep, EvalSleep
<1>28. ASSUME \/ DecoderSleep \/ DecoderCoalesce \/ DecoderBusyWait
            \/ DecoderFindsNone \/ DecoderCollect \/ DecoderFinish
            \/ DecoderExit \/ StopSignal \/ StopWorkers \/ StopDecoder
            \/ JoinDecoder \/ Close
     PROVE  WorkerTypeOK'
  BY <1>28 DEF DecoderSleep, DecoderCoalesce, DecoderBusyWait,
     DecoderFindsNone, DecoderCollect, DecoderFinish, DecoderExit, StopSignal,
     StopWorkers, StopDecoder, JoinDecoder, Close
<1>29. CASE Rest \/ UNCHANGED vars
  BY <1>29 DEF Rest, vars
<1> QED
  BY <1>1, <1>2, <1>3, <1>4, <1>5, <1>6, <1>7, <1>8, <1>9, <1>10, <1>11,
     <1>12, <1>13, <1>14, <1>15, <1>16, <1>17, <1>18, <1>19, <1>20, <1>21,
     <1>22, <1>23, <1>24, <1>25, <1>26, <1>27, <1>28, <1>29 DEF Next, ClientStep,
     WorkerStep, DecoderStep, MainStep

\* Every step keeps the types of the list and of the assignments,
LEMMA QueueTypeStep == TypeOK /\ [Next]_vars => QueueTypeOK'
<1> SUFFICES ASSUME TypeOK, [Next]_vars PROVE QueueTypeOK'
  OBVIOUS
<1> USE DEF TypeOK, QueueTypeOK
<1> USE DEF jobVars, queueVars, bindVars, localVars, workerVars, turnVars,
            tokenVars, modelVars, stopVars
<1>1. ASSUME NEW j \in Jobs, Enqueue(j) PROVE QueueTypeOK'
  BY <1>1, DispatchType DEF Enqueue
<1>2. ASSUME NEW j \in Jobs, CancelDetach(j) PROVE QueueTypeOK'
  <2>1. CASE /\ queue' = queue \ {j}
             /\ ahead' = [k \in Jobs |-> ahead[k] \ {j}]
             /\ idle_asleep' = {} /\ UNCHANGED <<assigned, busy>>
    BY <1>2, <2>1 DEF CancelDetach
  <2>3. CASE idle_asleep' = {} /\ UNCHANGED <<queue, ahead, assigned, busy>>
    BY <1>2, <2>3 DEF CancelDetach
  <2>2. ASSUME NEW s \in Slots,
               Dispatch(queue, ahead, [assigned EXCEPT ![s] = NoJob],
                        FreedBy(s), TRUE)
        PROVE  QueueTypeOK'
    BY <1>2, <2>2, DispatchType DEF CancelDetach, FreedBy
  <2> QED
    BY <1>2, <2>1, <2>2, <2>3 DEF CancelDetach
<1>3. ASSUME NEW s \in Slots, WorkerSleep(s) PROVE QueueTypeOK'
  BY <1>3 DEF WorkerSleep
<1>4. ASSUME NEW s \in Slots, WorkerTake(s) PROVE QueueTypeOK'
  BY <1>4 DEF WorkerTake
<1>5. ASSUME NEW s \in Slots, FreeSlot(s) PROVE QueueTypeOK'
  BY <1>5, DispatchType DEF FreeSlot
<1>6. ASSUME StopWorkers PROVE QueueTypeOK'
  BY <1>6, DispatchType DEF StopWorkers
<1>7. ASSUME NEW j \in Jobs,
            \/ AcceptRequest(j) \/ AcceptOther(j) \/ CancelMark(j)
            \/ EnqueueRefused(j) \/ CancelWithdraw(j) \/ CancelComplete(j)
            \/ LeaveWait(j) \/ ClientDone(j)
     PROVE  QueueTypeOK'
  BY <1>7 DEF AcceptRequest, AcceptOther, CancelMark, EnqueueRefused,
     CancelWithdraw, CancelComplete, LeaveWait, ClientDone
<1>8. ASSUME NEW s \in Slots,
            \/ WorkerExit(s) \/ JobEndsEarly(s) \/ BeginPrompt(s)
            \/ PrefillRequest(s) \/ PrefillSleep(s) \/ PrefillGrant(s)
            \/ SyncInterrupted(s) \/ PrefillAbandon(s) \/ PrefillLeave(s)
            \/ StreamStartFails(s) \/ GenerationEnter(s) \/ DecodeStop(s)
            \/ StreamWriteFails(s) \/ EvalRequest(s) \/ EvalWithdraw(s)
            \/ EvalSleep(s) \/ EvalReturn(s) \/ GenerationLeave(s)
            \/ ReplyCancelled(s) \/ BeginRepair(s) \/ Publish(s)
            \/ SendResponse(s) \/ SendFails(s) \/ FinishJob(s)
            \/ CompleteJob(s)
     PROVE  QueueTypeOK'
  BY <1>8 DEF WorkerExit, JobEndsEarly, BeginPrompt, PrefillRequest,
     PrefillSleep, PrefillGrant, SyncInterrupted, PrefillAbandon,
     PrefillLeave, StreamStartFails, GenerationEnter, DecodeStop,
     StreamWriteFails, EvalRequest, EvalWithdraw, EvalSleep, EvalReturn,
     GenerationLeave, ReplyCancelled, BeginRepair, Publish, SendResponse,
     SendFails, FinishJob, CompleteJob
<1>9. ASSUME \/ DecoderSleep \/ DecoderCoalesce \/ DecoderBusyWait
            \/ DecoderFindsNone \/ DecoderCollect \/ DecoderFinish
            \/ DecoderExit \/ StopSignal \/ StopDecoder \/ JoinDecoder
            \/ Close
     PROVE  QueueTypeOK'
  BY <1>9 DEF DecoderSleep, DecoderCoalesce, DecoderBusyWait,
     DecoderFindsNone, DecoderCollect, DecoderFinish, DecoderExit, StopSignal,
     StopDecoder, JoinDecoder, Close
<1>10. CASE Rest \/ UNCHANGED vars
  BY <1>10 DEF Rest, vars
<1> QED
  BY <1>1, <1>2, <1>3, <1>4, <1>5, <1>6, <1>7, <1>8, <1>9, <1>10 DEF Next, ClientStep,
     WorkerStep, DecoderStep, MainStep

\* of the client threads,
LEMMA JobTypeStep == TypeOK /\ [Next]_vars => JobTypeOK'
<1> SUFFICES ASSUME TypeOK, [Next]_vars PROVE JobTypeOK'
  OBVIOUS
<1> USE DEF TypeOK, JobTypeOK
<1> USE DEF jobVars, queueVars, bindVars, localVars, workerVars, turnVars,
            tokenVars, modelVars, stopVars
<1>1. ASSUME NEW j \in Jobs, AcceptRequest(j) PROVE JobTypeOK'
  BY <1>1 DEF AcceptRequest, ClientPCs
<1>2. ASSUME NEW j \in Jobs, AcceptOther(j) PROVE JobTypeOK'
  BY <1>2 DEF AcceptOther, ClientPCs
<1>3. ASSUME NEW j \in Jobs, CancelMark(j) PROVE JobTypeOK'
  BY <1>3 DEF CancelMark, ClientPCs
<1>4. ASSUME NEW j \in Jobs, Enqueue(j) PROVE JobTypeOK'
  BY <1>4 DEF Enqueue, ClientPCs
<1>5. ASSUME NEW j \in Jobs, EnqueueRefused(j) PROVE JobTypeOK'
  BY <1>5 DEF EnqueueRefused, ClientPCs
<1>6. ASSUME NEW j \in Jobs, CancelDetach(j) PROVE JobTypeOK'
  BY <1>6 DEF CancelDetach, ClientPCs
<1>7. ASSUME NEW j \in Jobs, CancelWithdraw(j) PROVE JobTypeOK'
  BY <1>7 DEF CancelWithdraw, ClientPCs
<1>8. ASSUME NEW j \in Jobs, CancelComplete(j) PROVE JobTypeOK'
  BY <1>8 DEF CancelComplete, ClientPCs
<1>9. ASSUME NEW j \in Jobs, LeaveWait(j) PROVE JobTypeOK'
  BY <1>9 DEF LeaveWait, ClientPCs
<1>10. ASSUME NEW j \in Jobs, ClientDone(j) PROVE JobTypeOK'
  BY <1>10 DEF ClientDone, ClientPCs
<1>11. ASSUME NEW s \in Slots, StreamStartFails(s) PROVE JobTypeOK'
  BY <1>11 DEF StreamStartFails, ClientPCs
<1>12. ASSUME NEW s \in Slots, StreamWriteFails(s) PROVE JobTypeOK'
  BY <1>12 DEF StreamWriteFails, ClientPCs
<1>13. ASSUME NEW s \in Slots, SendFails(s) PROVE JobTypeOK'
  BY <1>13 DEF SendFails, ClientPCs
<1>14. ASSUME NEW s \in Slots, CompleteJob(s) PROVE JobTypeOK'
  BY <1>14 DEF CompleteJob, ClientPCs
<1>15. ASSUME NEW s \in Slots,
            \/ WorkerSleep(s) \/ WorkerExit(s) \/ WorkerTake(s)
            \/ JobEndsEarly(s) \/ BeginPrompt(s) \/ PrefillRequest(s)
            \/ PrefillSleep(s) \/ PrefillGrant(s) \/ SyncInterrupted(s)
            \/ PrefillAbandon(s) \/ PrefillLeave(s) \/ GenerationEnter(s)
            \/ DecodeStop(s) \/ EvalRequest(s) \/ EvalWithdraw(s)
            \/ EvalSleep(s) \/ EvalReturn(s) \/ GenerationLeave(s)
            \/ ReplyCancelled(s) \/ BeginRepair(s) \/ Publish(s)
            \/ SendResponse(s) \/ FinishJob(s) \/ FreeSlot(s)
     PROVE  JobTypeOK'
  BY <1>15 DEF WorkerSleep, WorkerExit, WorkerTake, JobEndsEarly, BeginPrompt,
     PrefillRequest, PrefillSleep, PrefillGrant, SyncInterrupted,
     PrefillAbandon, PrefillLeave, GenerationEnter, DecodeStop, EvalRequest,
     EvalWithdraw, EvalSleep, EvalReturn, GenerationLeave, ReplyCancelled,
     BeginRepair, Publish, SendResponse, FinishJob, FreeSlot
<1>16. ASSUME \/ DecoderSleep \/ DecoderCoalesce \/ DecoderBusyWait
            \/ DecoderFindsNone \/ DecoderCollect \/ DecoderFinish
            \/ DecoderExit \/ StopSignal \/ StopWorkers \/ StopDecoder
            \/ JoinDecoder \/ Close
     PROVE  JobTypeOK'
  BY <1>16 DEF DecoderSleep, DecoderCoalesce, DecoderBusyWait,
     DecoderFindsNone, DecoderCollect, DecoderFinish, DecoderExit, StopSignal,
     StopWorkers, StopDecoder, JoinDecoder, Close
<1>17. CASE Rest \/ UNCHANGED vars
  BY <1>17 DEF Rest, vars
<1> QED
  BY <1>1, <1>2, <1>3, <1>4, <1>5, <1>6, <1>7, <1>8, <1>9, <1>10, <1>11,
     <1>12, <1>13, <1>14, <1>15, <1>16, <1>17 DEF Next, ClientStep,
     WorkerStep, DecoderStep, MainStep

\* of the live bindings,
LEMMA BindTypeStep == TypeOK /\ [Next]_vars => BindTypeOK'
<1> SUFFICES ASSUME TypeOK, [Next]_vars PROVE BindTypeOK'
  OBVIOUS
<1> USE DEF TypeOK, BindTypeOK
<1> USE DEF jobVars, queueVars, bindVars, localVars, workerVars, turnVars,
            tokenVars, modelVars, stopVars
<1>1. ASSUME NEW j \in Jobs, AcceptRequest(j) PROVE BindTypeOK'
  BY <1>1 DEF AcceptRequest
<1>2. ASSUME NEW j \in Jobs, LeaveWait(j) PROVE BindTypeOK'
  BY <1>2 DEF LeaveWait
<1>3. ASSUME NEW s \in Slots, SyncInterrupted(s) PROVE BindTypeOK'
  BY <1>3 DEF SyncInterrupted, SyncFails, ClearBindingIf, ClearBinding
<1>4. ASSUME NEW s \in Slots, PrefillAbandon(s) PROVE BindTypeOK'
  BY <1>4 DEF PrefillAbandon, SyncFails, ClearBindingIf, ClearBinding
<1>5. ASSUME NEW s \in Slots, PrefillLeave(s) PROVE BindTypeOK'
  BY <1>5 DEF PrefillLeave, SyncFails, SyncSucceeds, ClearBindingIf,
        ClearBinding
<1>6. ASSUME NEW s \in Slots, StreamStartFails(s) PROVE BindTypeOK'
  BY <1>6 DEF StreamStartFails, ClearBinding
<1>7. ASSUME NEW s \in Slots, ReplyCancelled(s) PROVE BindTypeOK'
  BY <1>7 DEF ReplyCancelled, ClearBinding
<1>8. ASSUME NEW s \in Slots, Publish(s) PROVE BindTypeOK'
  BY <1>8 DEF Publish
<1>9. ASSUME NEW s \in Slots, SendFails(s) PROVE BindTypeOK'
  BY <1>9 DEF SendFails, ClearBinding
<1>10. ASSUME NEW j \in Jobs,
            \/ AcceptOther(j) \/ CancelMark(j) \/ Enqueue(j)
            \/ EnqueueRefused(j) \/ CancelDetach(j) \/ CancelWithdraw(j)
            \/ CancelComplete(j) \/ ClientDone(j)
     PROVE  BindTypeOK'
  BY <1>10 DEF AcceptOther, CancelMark, Enqueue, EnqueueRefused, CancelDetach,
     CancelWithdraw, CancelComplete, ClientDone
<1>11. ASSUME NEW s \in Slots,
            \/ WorkerSleep(s) \/ WorkerExit(s) \/ WorkerTake(s)
            \/ JobEndsEarly(s) \/ BeginPrompt(s) \/ PrefillRequest(s)
            \/ PrefillSleep(s) \/ PrefillGrant(s) \/ GenerationEnter(s)
            \/ DecodeStop(s) \/ StreamWriteFails(s) \/ EvalRequest(s)
            \/ EvalWithdraw(s) \/ EvalSleep(s) \/ EvalReturn(s)
            \/ GenerationLeave(s) \/ BeginRepair(s) \/ SendResponse(s)
            \/ FinishJob(s) \/ CompleteJob(s) \/ FreeSlot(s)
     PROVE  BindTypeOK'
  BY <1>11 DEF WorkerSleep, WorkerExit, WorkerTake, JobEndsEarly, BeginPrompt,
     PrefillRequest, PrefillSleep, PrefillGrant, GenerationEnter, DecodeStop,
     StreamWriteFails, EvalRequest, EvalWithdraw, EvalSleep, EvalReturn,
     GenerationLeave, BeginRepair, SendResponse, FinishJob, CompleteJob,
     FreeSlot
<1>12. ASSUME \/ DecoderSleep \/ DecoderCoalesce \/ DecoderBusyWait
            \/ DecoderFindsNone \/ DecoderCollect \/ DecoderFinish
            \/ DecoderExit \/ StopSignal \/ StopWorkers \/ StopDecoder
            \/ JoinDecoder \/ Close
     PROVE  BindTypeOK'
  BY <1>12 DEF DecoderSleep, DecoderCoalesce, DecoderBusyWait,
     DecoderFindsNone, DecoderCollect, DecoderFinish, DecoderExit, StopSignal,
     StopWorkers, StopDecoder, JoinDecoder, Close
<1>13. CASE Rest \/ UNCHANGED vars
  BY <1>13 DEF Rest, vars
<1> QED
  BY <1>1, <1>2, <1>3, <1>4, <1>5, <1>6, <1>7, <1>8, <1>9, <1>10, <1>11,
     <1>12, <1>13 DEF Next, ClientStep,
     WorkerStep, DecoderStep, MainStep

\* of the stop flags,
LEMMA StopTypeStep == TypeOK /\ [Next]_vars => StopTypeOK'
<1> SUFFICES ASSUME TypeOK, [Next]_vars PROVE StopTypeOK'
  OBVIOUS
<1> USE DEF TypeOK, StopTypeOK
<1> USE DEF jobVars, queueVars, bindVars, localVars, workerVars, turnVars,
            tokenVars, modelVars, stopVars
<1>1. ASSUME StopSignal PROVE StopTypeOK'
  BY <1>1 DEF StopSignal, MainPCs
<1>2. ASSUME StopWorkers PROVE StopTypeOK'
  BY <1>2 DEF StopWorkers, MainPCs
<1>3. ASSUME StopDecoder PROVE StopTypeOK'
  BY <1>3 DEF StopDecoder, MainPCs
<1>4. ASSUME JoinDecoder PROVE StopTypeOK'
  BY <1>4 DEF JoinDecoder, MainPCs
<1>5. ASSUME Close PROVE StopTypeOK'
  BY <1>5 DEF Close, MainPCs
<1>6. ASSUME NEW j \in Jobs,
            \/ AcceptRequest(j) \/ AcceptOther(j) \/ CancelMark(j)
            \/ Enqueue(j) \/ EnqueueRefused(j) \/ CancelDetach(j)
            \/ CancelWithdraw(j) \/ CancelComplete(j) \/ LeaveWait(j)
            \/ ClientDone(j)
     PROVE  StopTypeOK'
  BY <1>6 DEF AcceptRequest, AcceptOther, CancelMark, Enqueue, EnqueueRefused,
     CancelDetach, CancelWithdraw, CancelComplete, LeaveWait, ClientDone
<1>7. ASSUME NEW s \in Slots,
            \/ WorkerSleep(s) \/ WorkerExit(s) \/ WorkerTake(s)
            \/ JobEndsEarly(s) \/ BeginPrompt(s) \/ PrefillRequest(s)
            \/ PrefillSleep(s) \/ PrefillGrant(s) \/ SyncInterrupted(s)
            \/ PrefillAbandon(s) \/ PrefillLeave(s) \/ StreamStartFails(s)
            \/ GenerationEnter(s) \/ DecodeStop(s) \/ StreamWriteFails(s)
            \/ EvalRequest(s) \/ EvalWithdraw(s) \/ EvalSleep(s)
            \/ EvalReturn(s) \/ GenerationLeave(s) \/ ReplyCancelled(s)
            \/ BeginRepair(s) \/ Publish(s) \/ SendResponse(s)
            \/ SendFails(s) \/ FinishJob(s) \/ CompleteJob(s) \/ FreeSlot(s)
     PROVE  StopTypeOK'
  BY <1>7 DEF WorkerSleep, WorkerExit, WorkerTake, JobEndsEarly, BeginPrompt,
     PrefillRequest, PrefillSleep, PrefillGrant, SyncInterrupted,
     PrefillAbandon, PrefillLeave, StreamStartFails, GenerationEnter,
     DecodeStop, StreamWriteFails, EvalRequest, EvalWithdraw, EvalSleep,
     EvalReturn, GenerationLeave, ReplyCancelled, BeginRepair, Publish,
     SendResponse, SendFails, FinishJob, CompleteJob, FreeSlot
<1>8. ASSUME \/ DecoderSleep \/ DecoderCoalesce \/ DecoderBusyWait
            \/ DecoderFindsNone \/ DecoderCollect \/ DecoderFinish
            \/ DecoderExit
     PROVE  StopTypeOK'
  BY <1>8 DEF DecoderSleep, DecoderCoalesce, DecoderBusyWait,
     DecoderFindsNone, DecoderCollect, DecoderFinish, DecoderExit
<1>9. CASE Rest \/ UNCHANGED vars
  BY <1>9 DEF Rest, vars
<1> QED
  BY <1>1, <1>2, <1>3, <1>4, <1>5, <1>6, <1>7, <1>8, <1>9 DEF Next, ClientStep,
     WorkerStep, DecoderStep, MainStep

\* of the turn taking,
LEMMA TurnTypeStep == TypeOK /\ [Next]_vars => TurnTypeOK'
<1> SUFFICES ASSUME TypeOK, [Next]_vars PROVE TurnTypeOK'
  OBVIOUS
<1> USE DEF TypeOK, TurnTypeOK
<1> USE DEF jobVars, queueVars, bindVars, localVars, workerVars, turnVars,
            tokenVars, modelVars, stopVars
<1>1. ASSUME NEW j \in Jobs, CancelWithdraw(j) PROVE TurnTypeOK'
  BY <1>1 DEF CancelWithdraw, WithdrawToken
<1>2. ASSUME NEW s \in Slots, PrefillRequest(s) PROVE TurnTypeOK'
  BY <1>2 DEF PrefillRequest
<1>3. ASSUME NEW s \in Slots, PrefillSleep(s) PROVE TurnTypeOK'
  BY <1>3 DEF PrefillSleep
<1>4. ASSUME NEW s \in Slots, PrefillGrant(s) PROVE TurnTypeOK'
  BY <1>4 DEF PrefillGrant
<1>5. ASSUME NEW s \in Slots, PrefillAbandon(s) PROVE TurnTypeOK'
  BY <1>5 DEF PrefillAbandon
<1>6. ASSUME NEW s \in Slots, PrefillLeave(s) PROVE TurnTypeOK'
  BY <1>6 DEF PrefillLeave
<1>7. ASSUME NEW s \in Slots, GenerationEnter(s) PROVE TurnTypeOK'
  BY <1>7 DEF GenerationEnter
<1>8. ASSUME NEW s \in Slots, EvalRequest(s) PROVE TurnTypeOK'
  BY <1>8 DEF EvalRequest
<1>9. ASSUME NEW s \in Slots, EvalWithdraw(s) PROVE TurnTypeOK'
  BY <1>9 DEF EvalWithdraw, WithdrawToken
<1>10. ASSUME NEW s \in Slots, EvalSleep(s) PROVE TurnTypeOK'
  BY <1>10 DEF EvalSleep
<1>11. ASSUME NEW s \in Slots, GenerationLeave(s) PROVE TurnTypeOK'
  BY <1>11 DEF GenerationLeave
<1>12. ASSUME NEW s \in Slots, FinishJob(s) PROVE TurnTypeOK'
  BY <1>12 DEF FinishJob
<1>13. ASSUME DecoderSleep PROVE TurnTypeOK'
  BY <1>13 DEF DecoderSleep
<1>14. ASSUME DecoderBusyWait PROVE TurnTypeOK'
  BY <1>14 DEF DecoderBusyWait
<1>15. ASSUME DecoderCollect PROVE TurnTypeOK'
  BY <1>15 DEF DecoderCollect
<1>16. ASSUME DecoderFinish PROVE TurnTypeOK'
  BY <1>16 DEF DecoderFinish
<1>17. ASSUME StopDecoder PROVE TurnTypeOK'
  BY <1>17 DEF StopDecoder
<1>18. ASSUME NEW j \in Jobs,
            \/ AcceptRequest(j) \/ AcceptOther(j) \/ CancelMark(j)
            \/ Enqueue(j) \/ EnqueueRefused(j) \/ CancelDetach(j)
            \/ CancelComplete(j) \/ LeaveWait(j) \/ ClientDone(j)
     PROVE  TurnTypeOK'
  BY <1>18 DEF AcceptRequest, AcceptOther, CancelMark, Enqueue,
     EnqueueRefused, CancelDetach, CancelComplete, LeaveWait, ClientDone
<1>19. ASSUME NEW s \in Slots,
            \/ WorkerSleep(s) \/ WorkerExit(s) \/ WorkerTake(s)
            \/ JobEndsEarly(s) \/ BeginPrompt(s) \/ SyncInterrupted(s)
            \/ StreamStartFails(s) \/ DecodeStop(s) \/ StreamWriteFails(s)
            \/ EvalReturn(s) \/ ReplyCancelled(s) \/ BeginRepair(s)
            \/ Publish(s) \/ SendResponse(s) \/ SendFails(s)
            \/ CompleteJob(s) \/ FreeSlot(s)
     PROVE  TurnTypeOK'
  BY <1>19 DEF WorkerSleep, WorkerExit, WorkerTake, JobEndsEarly, BeginPrompt,
     SyncInterrupted, StreamStartFails, DecodeStop, StreamWriteFails,
     EvalReturn, ReplyCancelled, BeginRepair, Publish, SendResponse,
     SendFails, CompleteJob, FreeSlot
<1>20. ASSUME \/ DecoderCoalesce \/ DecoderFindsNone \/ DecoderExit
            \/ StopSignal \/ StopWorkers \/ JoinDecoder \/ Close
     PROVE  TurnTypeOK'
  BY <1>20 DEF DecoderCoalesce, DecoderFindsNone, DecoderExit, StopSignal,
     StopWorkers, JoinDecoder, Close
<1>21. CASE Rest \/ UNCHANGED vars
  BY <1>21 DEF Rest, vars
<1> QED
  BY <1>1, <1>2, <1>3, <1>4, <1>5, <1>6, <1>7, <1>8, <1>9, <1>10, <1>11,
     <1>12, <1>13, <1>14, <1>15, <1>16, <1>17, <1>18, <1>19, <1>20, <1>21 DEF Next, ClientStep,
     WorkerStep, DecoderStep, MainStep

\* of the decode coordinator's state.
LEMMA TokenTypeStep == TypeOK /\ [Next]_vars => TokenTypeOK'
<1> SUFFICES ASSUME TypeOK, [Next]_vars PROVE TokenTypeOK'
  OBVIOUS
<1> USE DEF TypeOK, TokenTypeOK
<1> USE DEF jobVars, queueVars, bindVars, localVars, workerVars, turnVars,
            tokenVars, modelVars, stopVars
<1>1. ASSUME NEW j \in Jobs, CancelWithdraw(j) PROVE TokenTypeOK'
  <2>1. CASE UNCHANGED tokenVars
    BY <1>1, <2>1 DEF CancelWithdraw
  <2>2. ASSUME NEW s \in Slots, WithdrawToken(s), UNCHANGED in_flight,
               decode_done' = [decode_done EXCEPT ![s] = TRUE]
        PROVE  TokenTypeOK'
    BY <1>1, <2>2 DEF CancelWithdraw, WithdrawToken
  <2> QED
    BY <1>1, <2>1, <2>2 DEF CancelWithdraw
<1>2. ASSUME NEW s \in Slots, GenerationEnter(s) PROVE TokenTypeOK'
  BY <1>2 DEF GenerationEnter
<1>3. ASSUME NEW s \in Slots, EvalRequest(s) PROVE TokenTypeOK'
  BY <1>3 DEF EvalRequest
<1>4. ASSUME NEW s \in Slots, EvalWithdraw(s) PROVE TokenTypeOK'
  BY <1>4 DEF EvalWithdraw, WithdrawToken
<1>5. ASSUME NEW s \in Slots, EvalReturn(s) PROVE TokenTypeOK'
  BY <1>5 DEF EvalReturn
<1>6. ASSUME NEW s \in Slots, GenerationLeave(s) PROVE TokenTypeOK'
  BY <1>6 DEF GenerationLeave
<1>7. ASSUME DecoderCoalesce PROVE TokenTypeOK'
  BY <1>7 DEF DecoderCoalesce, DecoderPCs
<1>8. ASSUME DecoderBusyWait PROVE TokenTypeOK'
  BY <1>8 DEF DecoderBusyWait, DecoderPCs
<1>9. ASSUME DecoderFindsNone PROVE TokenTypeOK'
  BY <1>9 DEF DecoderFindsNone, DecoderPCs
<1>10. ASSUME DecoderCollect PROVE TokenTypeOK'
  BY <1>10 DEF DecoderCollect, DecoderPCs
<1>11. ASSUME DecoderFinish PROVE TokenTypeOK'
  BY <1>11 DEF DecoderFinish, DecoderPCs
<1>12. ASSUME DecoderExit PROVE TokenTypeOK'
  BY <1>12 DEF DecoderExit, DecoderPCs
<1>13. ASSUME NEW j \in Jobs,
            \/ AcceptRequest(j) \/ AcceptOther(j) \/ CancelMark(j)
            \/ Enqueue(j) \/ EnqueueRefused(j) \/ CancelDetach(j)
            \/ CancelComplete(j) \/ LeaveWait(j) \/ ClientDone(j)
     PROVE  TokenTypeOK'
  BY <1>13 DEF AcceptRequest, AcceptOther, CancelMark, Enqueue,
     EnqueueRefused, CancelDetach, CancelComplete, LeaveWait, ClientDone
<1>14. ASSUME NEW s \in Slots,
            \/ WorkerSleep(s) \/ WorkerExit(s) \/ WorkerTake(s)
            \/ JobEndsEarly(s) \/ BeginPrompt(s) \/ PrefillRequest(s)
            \/ PrefillSleep(s) \/ PrefillGrant(s) \/ SyncInterrupted(s)
            \/ PrefillAbandon(s) \/ PrefillLeave(s) \/ StreamStartFails(s)
            \/ DecodeStop(s) \/ StreamWriteFails(s) \/ EvalSleep(s)
            \/ ReplyCancelled(s) \/ BeginRepair(s) \/ Publish(s)
            \/ SendResponse(s) \/ SendFails(s) \/ FinishJob(s)
            \/ CompleteJob(s) \/ FreeSlot(s)
     PROVE  TokenTypeOK'
  BY <1>14 DEF WorkerSleep, WorkerExit, WorkerTake, JobEndsEarly, BeginPrompt,
     PrefillRequest, PrefillSleep, PrefillGrant, SyncInterrupted,
     PrefillAbandon, PrefillLeave, StreamStartFails, DecodeStop,
     StreamWriteFails, EvalSleep, ReplyCancelled, BeginRepair, Publish,
     SendResponse, SendFails, FinishJob, CompleteJob, FreeSlot
<1>15. ASSUME \/ DecoderSleep \/ StopSignal \/ StopWorkers \/ StopDecoder
            \/ JoinDecoder \/ Close
     PROVE  TokenTypeOK'
  BY <1>15 DEF DecoderSleep, StopSignal, StopWorkers, StopDecoder,
     JoinDecoder, Close
<1>16. CASE Rest \/ UNCHANGED vars
  BY <1>16 DEF Rest, vars
<1> QED
  BY <1>1, <1>2, <1>3, <1>4, <1>5, <1>6, <1>7, <1>8, <1>9, <1>10, <1>11,
     <1>12, <1>13, <1>14, <1>15, <1>16 DEF Next, ClientStep,
     WorkerStep, DecoderStep, MainStep

\* After a sync, failed or not, the worker does not wait for a turn or a token.
LEMMA SyncEnds ==
    ASSUME WorkerTypeOK, NEW s \in Slots, SyncFails(s) \/ SyncSucceeds(s)
    PROVE  /\ UNCHANGED tokens
           /\ \E pc \in WorkerPCs \ {"turn", "prefill", "eval"} :
                 worker' = [worker EXCEPT ![s] = pc]
<1>1. CASE SyncFails(s)
  <2>1. AfterFailedSync(s) \in WorkerPCs \ {"turn", "prefill", "eval"}
    BY DEF AfterFailedSync, WorkerPCs, HoldingPCs, RunningPCs, InnerPCs
  <2> QED
    BY <1>1, <2>1 DEF SyncFails, Goto
<1>2. CASE SyncSucceeds(s)
  <2> DEFINE next == CASE phase[s] = "prompt" ->
                              IF JobCancelled(s) THEN "finish" ELSE "ready"
                       [] phase[s] = "rewind" -> "decode"
                       [] phase[s] \in {"repair", "late_repair"} -> "ready"
                       [] OTHER -> "send"
  <2>1. next \in WorkerPCs \ {"turn", "prefill", "eval"}
    BY DEF WorkerPCs, HoldingPCs, RunningPCs, InnerPCs
  <2>2. worker' = [worker EXCEPT ![s] = next] /\ UNCHANGED tokens
    BY <1>2 DEF SyncSucceeds, Goto
  <2> QED
    BY <2>1, <2>2
<1> QED
  BY <1>1, <1>2

\* They leave what the executor, the coordinator and the turns decide by alone.
LEMMA PlainMoves ==
    ASSUME WorkerTypeOK, NEW s \in Slots, PlainMove(s)
    PROVE  /\ UNCHANGED <<turnVars, slot_pending, in_flight, decode_done,
                        decoder, model_busy>>
           /\ \A t \in Slots \ {s} : tokens'[t] = tokens[t]
           /\ worker[s] \notin {"turn", "prefill", "eval"}
           /\ \E pc \in WorkerPCs \ {"turn", "prefill", "eval"} :
                 worker' = [worker EXCEPT ![s] = pc]
<1> USE DEF WorkerTypeOK, Goto, BeginSync, WorkerPCs, HoldingPCs, RunningPCs,
            InnerPCs, tokenVars, modelVars, turnVars, localVars, workerVars
<1>1. CASE WorkerExit(s) \/ WorkerTake(s) \/ JobEndsEarly(s) \/ BeginPrompt(s)
          \/ StreamStartFails(s)
  BY <1>1 DEF WorkerExit, WorkerTake, JobEndsEarly, BeginPrompt,
     StreamStartFails
<1>2. CASE GenerationEnter(s) \/ DecodeStop(s) \/ StreamWriteFails(s)
          \/ GenerationLeave(s) \/ ReplyCancelled(s)
  BY <1>2 DEF GenerationEnter, DecodeStop, StreamWriteFails, GenerationLeave,
     ReplyCancelled
<1>3. CASE BeginRepair(s) \/ Publish(s) \/ SendResponse(s) \/ SendFails(s)
          \/ FinishJob(s)
  BY <1>3 DEF BeginRepair, Publish, SendResponse, SendFails, FinishJob
<1>4. CASE CompleteJob(s) \/ FreeSlot(s)
  BY <1>4 DEF CompleteJob, FreeSlot
<1> QED
  BY <1>1, <1>2, <1>3, <1>4 DEF PlainMove

\* A worker posts a token only while its budget has one left.
LEMMA BudgetStep == TypeOK /\ EvalHasBudget /\ [Next]_vars => EvalHasBudget'
<1> SUFFICES ASSUME TypeOK, EvalHasBudget, [Next]_vars PROVE EvalHasBudget'
  OBVIOUS
<1> USE DEF TypeOK, WorkerTypeOK, EvalHasBudget
<1> USE DEF jobVars, queueVars, bindVars, localVars, workerVars, turnVars,
            tokenVars, modelVars, stopVars
<1>1. ASSUME NEW s \in Slots,
            EvalRequest(s)
     PROVE  EvalHasBudget'
  BY <1>1 DEF EvalRequest, Goto, BudgetLeft
<1>2. ASSUME NEW s \in Slots, PlainMove(s) PROVE EvalHasBudget'
  BY <1>2, PlainMoves
<1>3. ASSUME NEW s \in Slots,
            EvalReturn(s)
     PROVE  EvalHasBudget'
  BY <1>3 DEF EvalReturn, BeginSync, Goto
<1>4. ASSUME NEW s \in Slots,
            \/ SyncInterrupted(s) \/ PrefillAbandon(s) \/ PrefillLeave(s)
     PROVE  EvalHasBudget'
  BY <1>4, SyncEnds DEF SyncInterrupted, PrefillAbandon, PrefillLeave, Goto
<1>5. ASSUME NEW s \in Slots,
            \/ PrefillRequest(s) \/ PrefillGrant(s) \/ EvalWithdraw(s)
     PROVE  EvalHasBudget'
  BY <1>5 DEF PrefillRequest, PrefillGrant, EvalWithdraw, Goto
<1>6. ASSUME NEW j \in Jobs,
            \/ AcceptRequest(j) \/ AcceptOther(j) \/ CancelMark(j)
            \/ Enqueue(j) \/ EnqueueRefused(j) \/ CancelDetach(j)
            \/ CancelWithdraw(j) \/ CancelComplete(j) \/ LeaveWait(j)
            \/ ClientDone(j)
     PROVE  EvalHasBudget'
  BY <1>6 DEF AcceptRequest, AcceptOther, CancelMark, Enqueue, EnqueueRefused,
     CancelDetach, CancelWithdraw, CancelComplete, LeaveWait, ClientDone
<1>7. ASSUME NEW s \in Slots,
            \/ WorkerSleep(s) \/ PrefillSleep(s) \/ EvalSleep(s)
     PROVE  EvalHasBudget'
  BY <1>7 DEF WorkerSleep, PrefillSleep, EvalSleep
<1>8. ASSUME \/ DecoderSleep \/ DecoderCoalesce \/ DecoderBusyWait
            \/ DecoderFindsNone \/ DecoderCollect \/ DecoderFinish
            \/ DecoderExit \/ StopSignal \/ StopWorkers \/ StopDecoder
            \/ JoinDecoder \/ Close
     PROVE  EvalHasBudget'
  BY <1>8 DEF DecoderSleep, DecoderCoalesce, DecoderBusyWait,
     DecoderFindsNone, DecoderCollect, DecoderFinish, DecoderExit, StopSignal,
     StopWorkers, StopDecoder, JoinDecoder, Close
<1>9. CASE Rest \/ UNCHANGED vars
  BY <1>9 DEF Rest, vars
<1> QED
  BY <1>1, <1>2, <1>3, <1>4, <1>5, <1>6, <1>7, <1>8, <1>9 DEF Next, ClientStep,
     WorkerStep, DecoderStep, MainStep, PlainMove

\* Initially every variable has its type and no worker waits for a token.
LEMMA InitTyped == Init => TypeOK /\ EvalHasBudget
<1> SUFFICES ASSUME Init PROVE TypeOK /\ EvalHasBudget
  OBVIOUS
<1>1. EvalHasBudget
  BY DEF Init, EvalHasBudget
<1>2. JobTypeOK /\ QueueTypeOK /\ BindTypeOK
  BY DEF Init, JobTypeOK, QueueTypeOK, BindTypeOK, ClientPCs
<1>3. WorkerTypeOK
  BY SchedulerAssumption DEF Init, WorkerTypeOK, WorkerPCs, Phases
<1>4. TurnTypeOK
  <2>1. last_prefill_slot \in Slots
    BY SchedulerAssumption DEF Init, Slots
  <2>2. overtaken \in [Slots -> Nat] /\ prefill_waiting \in [Slots -> BOOLEAN]
    BY DEF Init
  <2>3. model_busy \in BOOLEAN /\ model_asleep \in SUBSET (Slots \cup {Decoder})
    BY DEF Init
  <2> QED
    BY <2>1, <2>2, <2>3 DEF TurnTypeOK
<1>5. TokenTypeOK
  <2>1. /\ slot_pending \in [Slots -> BOOLEAN]
        /\ in_flight \in [Slots -> BOOLEAN]
        /\ decode_done \in [Slots -> BOOLEAN]
    BY DEF Init
  <2>2. decode_rc \in [Slots -> {"ok", "error"}]
    BY DEF Init
  <2>3. decode_pending \in Int /\ active_generations \in Nat
    BY DEF Init
  <2>4. decoder \in DecoderPCs
    BY DEF Init, DecoderPCs
  <2> QED
    BY <2>1, <2>2, <2>3, <2>4 DEF TokenTypeOK
<1>6. StopTypeOK
  BY DEF Init, StopTypeOK, MainPCs
<1> QED
  BY <1>1, <1>2, <1>3, <1>4, <1>5, <1>6 DEF TypeOK

\* Type correctness of the scheduler, with the budget of a waiting worker.
THEOREM Typed == Spec => [](TypeOK /\ EvalHasBudget)
<1>1. Init => TypeOK /\ EvalHasBudget
  BY InitTyped
<1>2. TypeOK /\ EvalHasBudget /\ [Next]_vars => TypeOK' /\ EvalHasBudget'
  BY WorkerTypeStep, QueueTypeStep, JobTypeStep, BindTypeStep, StopTypeStep,
     TurnTypeStep, TokenTypeStep, BudgetStep DEF TypeOK
<1> QED
  BY <1>1, <1>2, PTL DEF Spec

\* Type correctness alone, as the runs check it.
THEOREM TypeCorrect == Spec => []TypeOK
BY Typed, PTL

-----------------------------------------------------------------------------
(* One user of the model.                                                  *)

\* A worker is granted the executor, and the coordinator takes it, only while
\* model_busy is off, and then nobody uses it.
LEMMA ModelExclusiveStep == TypeOK /\ ModelExclusive /\ [Next]_vars => ModelExclusive'
<1> SUFFICES ASSUME TypeOK, ModelExclusive, [Next]_vars PROVE ModelExclusive'
  OBVIOUS
<1> USE DEF TypeOK, WorkerTypeOK, ModelExclusive
<1> USE DEF jobVars, queueVars, bindVars, localVars, workerVars, turnVars,
            tokenVars, modelVars, stopVars
<1>1. ASSUME NEW s \in Slots,
            PrefillGrant(s)
     PROVE  ModelExclusive'
  BY <1>1 DEF PrefillGrant, Goto, MustWaitForTurn
<1>2. ASSUME NEW s \in Slots,
            PrefillLeave(s)
     PROVE  ModelExclusive'
  BY <1>2, SyncEnds DEF PrefillLeave, Goto
<1>3. ASSUME NEW s \in Slots,
            \/ SyncInterrupted(s) \/ PrefillAbandon(s)
     PROVE  ModelExclusive'
  BY <1>3, SyncEnds DEF SyncInterrupted, PrefillAbandon, Goto
<1>4. ASSUME NEW s \in Slots, PlainMove(s) PROVE ModelExclusive'
  BY <1>4, PlainMoves
<1>5. ASSUME NEW s \in Slots,
            \/ PrefillRequest(s) \/ EvalRequest(s) \/ EvalWithdraw(s)
            \/ EvalReturn(s)
     PROVE  ModelExclusive'
  BY <1>5 DEF PrefillRequest, EvalRequest, EvalWithdraw, EvalReturn, Goto,
     BeginSync
<1>6. ASSUME \/ DecoderCoalesce \/ DecoderBusyWait \/ DecoderFindsNone
            \/ DecoderCollect \/ DecoderExit
     PROVE  ModelExclusive'
  BY <1>6 DEF DecoderCoalesce, DecoderBusyWait, DecoderFindsNone,
     DecoderCollect, DecoderExit, AtBusyWait
<1>7. ASSUME DecoderFinish
     PROVE  ModelExclusive'
  BY <1>7 DEF DecoderFinish
<1>8. ASSUME NEW j \in Jobs,
            \/ AcceptRequest(j) \/ AcceptOther(j) \/ CancelMark(j)
            \/ Enqueue(j) \/ EnqueueRefused(j) \/ CancelDetach(j)
            \/ CancelWithdraw(j) \/ CancelComplete(j) \/ LeaveWait(j)
            \/ ClientDone(j)
     PROVE  ModelExclusive'
  <2>1. UNCHANGED <<worker, decoder, model_busy>>
    BY <1>8 DEF AcceptRequest, AcceptOther, CancelMark, Enqueue, EnqueueRefused,
       CancelDetach, CancelWithdraw, CancelComplete, LeaveWait, ClientDone
  <2> QED
    BY <1>8, <2>1
<1>9. ASSUME NEW s \in Slots,
            \/ WorkerSleep(s) \/ PrefillSleep(s) \/ EvalSleep(s)
     PROVE  ModelExclusive'
  <2>1. UNCHANGED <<worker, decoder, model_busy>>
    BY <1>9 DEF WorkerSleep, PrefillSleep, EvalSleep
  <2> QED
    BY <1>9, <2>1
<1>10. ASSUME \/ DecoderSleep \/ StopSignal \/ StopWorkers \/ StopDecoder
            \/ JoinDecoder \/ Close
     PROVE  ModelExclusive'
  <2>1. UNCHANGED <<worker, decoder, model_busy>>
    BY <1>10 DEF DecoderSleep, StopSignal, StopWorkers, StopDecoder,
       JoinDecoder, Close
  <2> QED
    BY <1>10, <2>1
<1>11. CASE Rest \/ UNCHANGED vars
  BY <1>11 DEF Rest, vars
<1> QED
  BY <1>1, <1>2, <1>3, <1>4, <1>5, <1>6, <1>7, <1>8, <1>9, <1>10, <1>11 DEF Next, ClientStep,
     WorkerStep, DecoderStep, MainStep, PlainMove

\* The model has one user at a time, a prefill quantum or a batch, and
\* model_busy says exactly whether it has one.
THEOREM ModelHasOneUser == Spec => []ModelExclusive
<1>1. Init => ModelExclusive
  BY DEF Init, ModelExclusive
<1> QED
  BY <1>1, ModelExclusiveStep, TypeCorrect, PTL DEF Spec

-----------------------------------------------------------------------------
(* Tokens.                                                                 *)

\* The flags of a slot change hands in one order: pending, in flight, done.  A
\* withdrawal skips the middle, and only while no batch has the token.
LEMMA OneTokenStep == TypeOK /\ OneTokenPerSlot /\ [Next]_vars => OneTokenPerSlot'
<1> SUFFICES ASSUME TypeOK, OneTokenPerSlot, [Next]_vars PROVE OneTokenPerSlot'
  OBVIOUS
<1> USE DEF TypeOK, WorkerTypeOK, TokenTypeOK, OneTokenPerSlot
<1> USE DEF jobVars, queueVars, bindVars, localVars, workerVars, turnVars,
            tokenVars, modelVars, stopVars
<1>1. ASSUME NEW j \in Jobs,
            CancelWithdraw(j)
     PROVE  OneTokenPerSlot'
  BY <1>1 DEF CancelWithdraw, WithdrawToken, CanWithdraw
<1>2. ASSUME NEW s \in Slots,
            EvalRequest(s)
     PROVE  OneTokenPerSlot'
  BY <1>2 DEF EvalRequest, Goto
<1>3. ASSUME NEW s \in Slots,
            EvalWithdraw(s)
     PROVE  OneTokenPerSlot'
  BY <1>3 DEF EvalWithdraw, Goto, WithdrawToken, CanWithdraw
<1>4. ASSUME NEW s \in Slots,
            EvalReturn(s)
     PROVE  OneTokenPerSlot'
  BY <1>4 DEF EvalReturn, Goto, BeginSync
<1>5. ASSUME NEW s \in Slots, PlainMove(s) PROVE OneTokenPerSlot'
  BY <1>5, PlainMoves
<1>6. ASSUME NEW s \in Slots,
            \/ SyncInterrupted(s) \/ PrefillAbandon(s) \/ PrefillLeave(s)
     PROVE  OneTokenPerSlot'
  BY <1>6, SyncEnds DEF SyncInterrupted, PrefillAbandon, PrefillLeave, Goto
<1>7. ASSUME NEW s \in Slots,
            \/ PrefillRequest(s) \/ PrefillGrant(s)
     PROVE  OneTokenPerSlot'
  BY <1>7 DEF PrefillRequest, PrefillGrant, Goto
<1>8. ASSUME DecoderCollect
     PROVE  OneTokenPerSlot'
  BY <1>8 DEF DecoderCollect, AtBusyWait
<1>9. ASSUME DecoderFinish
     PROVE  OneTokenPerSlot'
  BY <1>9 DEF DecoderFinish
<1>10. ASSUME \/ DecoderCoalesce \/ DecoderBusyWait \/ DecoderFindsNone
            \/ DecoderExit
     PROVE  OneTokenPerSlot'
  BY <1>10 DEF DecoderCoalesce, DecoderBusyWait, DecoderFindsNone,
     DecoderExit, AtBusyWait
<1>11. ASSUME NEW j \in Jobs,
            \/ AcceptRequest(j) \/ AcceptOther(j) \/ CancelMark(j)
            \/ Enqueue(j) \/ EnqueueRefused(j) \/ CancelDetach(j)
            \/ CancelComplete(j) \/ LeaveWait(j) \/ ClientDone(j)
     PROVE  OneTokenPerSlot'
  BY <1>11 DEF AcceptRequest, AcceptOther, CancelMark, Enqueue,
     EnqueueRefused, CancelDetach, CancelComplete, LeaveWait, ClientDone
<1>12. ASSUME NEW s \in Slots,
            \/ WorkerSleep(s) \/ PrefillSleep(s) \/ EvalSleep(s)
     PROVE  OneTokenPerSlot'
  BY <1>12 DEF WorkerSleep, PrefillSleep, EvalSleep
<1>13. ASSUME \/ DecoderSleep \/ StopSignal \/ StopWorkers \/ StopDecoder
            \/ JoinDecoder \/ Close
     PROVE  OneTokenPerSlot'
  BY <1>13 DEF DecoderSleep, StopSignal, StopWorkers, StopDecoder,
     JoinDecoder, Close
<1>14. CASE Rest \/ UNCHANGED vars
  BY <1>14 DEF Rest, vars
<1> QED
  BY <1>1, <1>2, <1>3, <1>4, <1>5, <1>6, <1>7, <1>8, <1>9, <1>10, <1>11,
     <1>12, <1>13, <1>14 DEF Next, ClientStep,
     WorkerStep, DecoderStep, MainStep, PlainMove

\* A slot has at most one token with the coordinator, while its worker waits
\* for it, and a token in flight belongs to the batch that runs.
THEOREM TokensAreExclusive == Spec => []OneTokenPerSlot
<1>1. Init => OneTokenPerSlot
  BY DEF Init, OneTokenPerSlot
<1> QED
  BY <1>1, OneTokenStep, TypeCorrect, PTL DEF Spec

-----------------------------------------------------------------------------
(* Turns.                                                                  *)

\* The distance of a slot behind the last turn, around the ring of slots.
LEMMA DistanceBound ==
    ASSUME TurnTypeOK, NEW s \in Slots PROVE Distance(s) \in 0 .. SlotCount - 1
BY SchedulerAssumption DEF TurnTypeOK, Distance, Slots

\* The turn goes to the nearest waiting slot, so every other one comes nearer.
LEMMA GrantComesNearer ==
    ASSUME TurnTypeOK, NEW s \in Slots, NEW t \in Slots, t # s,
           Distance(s) <= Distance(t), last_prefill_slot' = s
    PROVE  Distance(t)' <= Distance(t) - 1
BY SchedulerAssumption DEF TurnTypeOK, Distance, Slots

\* A turn granted to another slot costs a waiting one at least 1 of its distance.
LEMMA TurnInvStep == TypeOK /\ TurnInv /\ [Next]_vars => TurnInv'
<1> SUFFICES ASSUME TypeOK, TurnInv, [Next]_vars PROVE TurnInv'
  OBVIOUS
<1> USE DEF TypeOK, WorkerTypeOK, TurnTypeOK, TurnInv
<1> USE DEF jobVars, queueVars, bindVars, localVars, workerVars, turnVars,
            tokenVars, modelVars, stopVars
<1>1. ASSUME NEW s \in Slots, PrefillRequest(s) PROVE TurnInv'
  <2>1. /\ prefill_waiting' = [prefill_waiting EXCEPT ![s] = TRUE]
        /\ overtaken' = [overtaken EXCEPT ![s] = 0]
        /\ worker' = [worker EXCEPT ![s] = "turn"]
        /\ \A t \in Slots : Distance(t)' = Distance(t)
    BY <1>1 DEF PrefillRequest, Goto, Distance
  <2>2. Distance(s) \in 0 .. SlotCount - 1
    BY DistanceBound
  <2> HIDE DEF Distance
  <2> QED
    BY <2>1, <2>2, SchedulerAssumption
<1>2. ASSUME NEW s \in Slots, PrefillGrant(s) PROVE TurnInv'
  <2>1. /\ prefill_waiting' = [prefill_waiting EXCEPT ![s] = FALSE]
        /\ overtaken' = [t \in Slots |-> IF prefill_waiting[t] /\ t # s
                                         THEN overtaken[t] + 1 ELSE 0]
        /\ worker' = [worker EXCEPT ![s] = "prefill"]
        /\ last_prefill_slot' = s
        /\ \A t \in Slots : prefill_waiting[t] => Distance(s) <= Distance(t)
    BY <1>2 DEF PrefillGrant, Goto, MustWaitForTurn, IsNextPrefill
  <2>2. ASSUME NEW t \in Slots, prefill_waiting[t], t # s
        PROVE  overtaken[t] + 1 + Distance(t)' <= SlotCount - 1
    <3>1. Distance(t)' <= Distance(t) - 1
      BY <2>1, <2>2, GrantComesNearer
    <3>2. overtaken[t] + Distance(t) <= SlotCount - 1
      BY <2>2
    <3>3. overtaken[t] \in Nat /\ Distance(t) \in Int /\ Distance(t)' \in Int
      BY <2>1, DistanceBound, SchedulerAssumption DEF Slots, Distance
    <3> QED
      BY <3>1, <3>2, <3>3, SchedulerAssumption
  <2> QED
    BY <2>1, <2>2
<1>3. ASSUME NEW s \in Slots,
            PrefillAbandon(s)
     PROVE  TurnInv'
  BY <1>3, SyncEnds DEF PrefillAbandon, Goto, Distance
<1>4. ASSUME NEW s \in Slots,
            \/ SyncInterrupted(s) \/ PrefillLeave(s)
     PROVE  TurnInv'
  BY <1>4, SyncEnds DEF SyncInterrupted, PrefillLeave, Goto, Distance
<1>5. ASSUME NEW s \in Slots, PlainMove(s) PROVE TurnInv'
  BY <1>5, PlainMoves DEF Distance, turnVars
<1>6. ASSUME NEW s \in Slots,
            \/ EvalRequest(s) \/ EvalWithdraw(s) \/ EvalReturn(s)
     PROVE  TurnInv'
  BY <1>6 DEF EvalRequest, EvalWithdraw, EvalReturn, Goto, BeginSync, Distance
<1>7. ASSUME NEW j \in Jobs,
            \/ AcceptRequest(j) \/ AcceptOther(j) \/ CancelMark(j)
            \/ Enqueue(j) \/ EnqueueRefused(j) \/ CancelDetach(j)
            \/ CancelWithdraw(j) \/ CancelComplete(j) \/ LeaveWait(j)
            \/ ClientDone(j)
     PROVE  TurnInv'
  BY <1>7 DEF AcceptRequest, AcceptOther, CancelMark, Enqueue, EnqueueRefused,
     CancelDetach, CancelWithdraw, CancelComplete, LeaveWait, ClientDone,
     Distance
<1>8. ASSUME NEW s \in Slots,
            \/ WorkerSleep(s) \/ PrefillSleep(s) \/ EvalSleep(s)
     PROVE  TurnInv'
  BY <1>8 DEF WorkerSleep, PrefillSleep, EvalSleep, Distance
<1>9. ASSUME \/ DecoderSleep \/ DecoderCoalesce \/ DecoderBusyWait
            \/ DecoderFindsNone \/ DecoderCollect \/ DecoderFinish
            \/ DecoderExit \/ StopSignal \/ StopWorkers \/ StopDecoder
            \/ JoinDecoder \/ Close
     PROVE  TurnInv'
  BY <1>9 DEF DecoderSleep, DecoderCoalesce, DecoderBusyWait,
     DecoderFindsNone, DecoderCollect, DecoderFinish, DecoderExit, StopSignal,
     StopWorkers, StopDecoder, JoinDecoder, Close, Distance
<1>10. CASE Rest \/ UNCHANGED vars
  BY <1>10 DEF Rest, vars, Distance
<1> QED
  BY <1>1, <1>2, <1>3, <1>4, <1>5, <1>6, <1>7, <1>8, <1>9, <1>10 DEF Next, ClientStep,
     WorkerStep, DecoderStep, MainStep, PlainMove

\* A slot that waits for a prefill turn loses at most SlotCount - 1 turns to
\* others before its own, however many requests arrive meanwhile.
THEOREM TurnsAreFair == Spec => []BoundedOvertaking
<1>1. Init => TurnInv
  BY DEF Init, TurnInv
<1>2. TypeOK /\ TurnInv => BoundedOvertaking
  <2> SUFFICES ASSUME TypeOK, TurnInv, NEW s \in Slots
               PROVE  overtaken[s] <= SlotCount - 1
    BY DEF BoundedOvertaking
  <2>1. Distance(s) \in Nat /\ overtaken[s] \in Nat
    BY DistanceBound, SchedulerAssumption DEF TypeOK, TurnTypeOK
  <2>2. CASE prefill_waiting[s]
    BY <2>1, <2>2, SchedulerAssumption DEF TurnInv
  <2>3. CASE ~prefill_waiting[s]
    BY <2>3, SchedulerAssumption DEF TurnInv
  <2> QED
    BY <2>2, <2>3
<1> QED
  BY <1>1, <1>2, TurnInvStep, TypeCorrect, PTL DEF Spec

-----------------------------------------------------------------------------
(* The counters that decide who uses the model next: decode_pending and    *)
(* active_generations are exact, for any number of slots, and so no        *)
(* prefill is started over a waiting token.                                *)

\* The slots with a token that waits for a batch.
Pending == {s \in Slots : slot_pending[s]}

\* The slots whose worker is inside a generation.
Generations == {s \in Slots : Generating(s)}

\* The steps of a worker inside a sync.
SyncPCs == {"sync", "turn", "prefill"}

\* CountersExact, and a worker outside a sync has the reason "prompt", the one
\* that its next sync starts with.
CounterInv ==
    /\ CountersExact
    /\ \A s \in Slots : worker[s] \notin SyncPCs => phase[s] = "prompt"

\* The steps of a worker that neither enter nor leave a generation.
InnerMove(s) ==
    \/ WorkerTake(s) \/ WorkerExit(s) \/ JobEndsEarly(s) \/ BeginPrompt(s)
    \/ PrefillRequest(s) \/ PrefillGrant(s) \/ SyncInterrupted(s)
    \/ PrefillAbandon(s) \/ PrefillLeave(s) \/ StreamStartFails(s)
    \/ DecodeStop(s) \/ StreamWriteFails(s) \/ EvalRequest(s)
    \/ EvalWithdraw(s) \/ EvalReturn(s) \/ ReplyCancelled(s)
    \/ BeginRepair(s) \/ Publish(s) \/ SendResponse(s) \/ SendFails(s)
    \/ FinishJob(s) \/ CompleteJob(s) \/ FreeSlot(s)

-----------------------------------------------------------------------------
(* Counting slots.                                                         *)

\* There are finitely many slots, so sets of slots can be counted.
LEMMA SlotsAreFinite == \A A \in SUBSET Slots : IsFiniteSet(A) /\ Cardinality(A) \in Nat
<1>1. IsFiniteSet(Slots)
  BY FS_Interval, SchedulerAssumption DEF Slots
<1> QED
  BY <1>1, FS_Subset, FS_CardinalityType

\* A set of slots that gains a slot counts one more.
LEMMA OneMore ==
    ASSUME NEW A \in SUBSET Slots, NEW s \in Slots \ A
    PROVE  Cardinality(A \cup {s}) = Cardinality(A) + 1
BY SlotsAreFinite, FS_AddElement

\* A set of slots that loses a slot counts one less, and counted at least one.
LEMMA OneLess ==
    ASSUME NEW A \in SUBSET Slots, NEW s \in A
    PROVE  Cardinality(A \ {s}) = Cardinality(A) - 1 /\ Cardinality(A) > 0
<1>1. IsFiniteSet(A) /\ Cardinality(A) \in Nat
  BY SlotsAreFinite
<1>2. Cardinality(A \ {s}) = Cardinality(A) - 1
  BY <1>1, FS_RemoveElement
<1>3. Cardinality(A) # 0
  BY <1>1, FS_EmptySet
<1> QED
  BY <1>1, <1>2, <1>3

-----------------------------------------------------------------------------
(* decode_pending.                                                         *)

\* A withdrawal takes one token off the flags and off the count.
LEMMA WithdrawCounts ==
    ASSUME TypeOK, CountersExact, NEW s \in Slots, CanWithdraw(s), WithdrawToken(s)
    PROVE  decode_pending' = Cardinality(Pending')
<1>1. s \in Pending /\ Pending \in SUBSET Slots
  BY DEF CanWithdraw, Pending
<1>2. Pending' = Pending \ {s}
  BY DEF WithdrawToken, Pending, TypeOK, TokenTypeOK
<1>3. decode_pending = Cardinality(Pending)
  BY DEF CountersExact, Pending
<1>4. decode_pending' = decode_pending - 1
  BY DEF WithdrawToken
<1> QED
  BY <1>1, <1>2, <1>3, <1>4, OneLess

\* Every step that changes slot_pending changes decode_pending_count with it:
\* posting a token, withdrawing it and collecting a batch.
LEMMA PendingStep ==
    TypeOK /\ OneTokenPerSlot /\ CountersExact /\ [Next]_vars
      => decode_pending' = Cardinality(Pending')
<1> SUFFICES ASSUME TypeOK, OneTokenPerSlot, CountersExact, [Next]_vars
             PROVE  decode_pending' = Cardinality(Pending')
  OBVIOUS
<1>0. decode_pending = Cardinality(Pending) /\ Pending \in SUBSET Slots
  BY DEF CountersExact, Pending
<1> USE DEF jobVars, queueVars, bindVars, localVars, workerVars, turnVars,
            tokenVars, modelVars, stopVars
<1>1. CASE UNCHANGED <<slot_pending, decode_pending>>
  BY <1>0, <1>1 DEF Pending
<1>2. ASSUME NEW j \in Jobs, CancelWithdraw(j)
      PROVE  decode_pending' = Cardinality(Pending')
  <2>1. \/ UNCHANGED <<slot_pending, decode_pending>>
        \/ \E s \in Slots : CanWithdraw(s) /\ WithdrawToken(s)
    BY <1>2 DEF CancelWithdraw
  <2> QED
    BY <2>1, <1>1, WithdrawCounts
<1>3. ASSUME NEW s \in Slots, EvalWithdraw(s)
      PROVE  decode_pending' = Cardinality(Pending')
  BY <1>3, WithdrawCounts DEF EvalWithdraw
<1>4. ASSUME NEW s \in Slots, EvalRequest(s)
      PROVE  decode_pending' = Cardinality(Pending')
  <2>1. s \notin Pending
    BY <1>4 DEF EvalRequest, OneTokenPerSlot, Pending
  <2>2. Pending' = Pending \cup {s} /\ decode_pending' = decode_pending + 1
    BY <1>4 DEF EvalRequest, Pending, TypeOK, TokenTypeOK
  <2> QED
    BY <1>0, <2>1, <2>2, OneMore
<1>5. ASSUME DecoderCollect
      PROVE  decode_pending' = Cardinality(Pending')
  <2>1. Pending' = {} /\ decode_pending' = decode_pending - Cardinality(Pending)
    BY <1>5 DEF DecoderCollect, Pending
  <2>2. Cardinality(Pending) \in Nat
    BY <1>0, SlotsAreFinite
  <2> QED
    BY <1>0, <2>1, <2>2, FS_EmptySet
<1>6. ASSUME NEW j \in Jobs,
            \/ AcceptRequest(j) \/ AcceptOther(j) \/ CancelMark(j)
            \/ Enqueue(j) \/ EnqueueRefused(j) \/ CancelDetach(j)
            \/ CancelComplete(j) \/ LeaveWait(j) \/ ClientDone(j)
     PROVE  UNCHANGED <<slot_pending, decode_pending>>
  BY <1>6 DEF AcceptRequest, AcceptOther, CancelMark, Enqueue,
     EnqueueRefused, CancelDetach, CancelComplete, LeaveWait, ClientDone
<1>7. ASSUME NEW s \in Slots,
            \/ WorkerSleep(s) \/ WorkerExit(s) \/ WorkerTake(s)
            \/ JobEndsEarly(s) \/ BeginPrompt(s) \/ PrefillRequest(s)
            \/ PrefillSleep(s) \/ PrefillGrant(s) \/ SyncInterrupted(s)
            \/ PrefillAbandon(s) \/ PrefillLeave(s) \/ StreamStartFails(s)
            \/ GenerationEnter(s) \/ DecodeStop(s) \/ StreamWriteFails(s)
            \/ EvalSleep(s) \/ EvalReturn(s) \/ GenerationLeave(s)
            \/ ReplyCancelled(s) \/ BeginRepair(s) \/ Publish(s)
            \/ SendResponse(s) \/ SendFails(s) \/ FinishJob(s)
            \/ CompleteJob(s) \/ FreeSlot(s)
     PROVE  UNCHANGED <<slot_pending, decode_pending>>
  BY <1>7 DEF WorkerSleep, WorkerExit, WorkerTake, JobEndsEarly, BeginPrompt,
     PrefillRequest, PrefillSleep, PrefillGrant, SyncInterrupted,
     PrefillAbandon, PrefillLeave, StreamStartFails, GenerationEnter,
     DecodeStop, StreamWriteFails, EvalSleep, EvalReturn, GenerationLeave,
     ReplyCancelled, BeginRepair, Publish, SendResponse, SendFails,
     FinishJob, CompleteJob, FreeSlot
<1>8. ASSUME \/ DecoderSleep \/ DecoderCoalesce \/ DecoderBusyWait
             \/ DecoderFindsNone \/ DecoderFinish \/ DecoderExit
             \/ StopSignal \/ MainStep \/ Rest \/ UNCHANGED vars
     PROVE  UNCHANGED <<slot_pending, decode_pending>>
  BY <1>8 DEF DecoderSleep, DecoderCoalesce, DecoderBusyWait, DecoderFindsNone,
     DecoderFinish, DecoderExit, StopSignal, MainStep, StopWorkers,
     StopDecoder, JoinDecoder, Close, Rest, vars
<1> QED
  BY <1>1, <1>2, <1>3, <1>4, <1>5, <1>6, <1>7, <1>8
     DEF Next, ClientStep, WorkerStep, DecoderStep

-----------------------------------------------------------------------------
(* active_generations.                                                     *)

\* A worker that moves within or outside the bracket stays there, and takes the
\* reason of its sync with it.
LEMMA InnerMoves ==
    ASSUME TypeOK, CounterInv, NEW s \in Slots, InnerMove(s)
    PROVE  /\ UNCHANGED active_generations
           /\ \E pc \in WorkerPCs, why \in Phases :
                 /\ worker' = [worker EXCEPT ![s] = pc]
                 /\ phase' = [phase EXCEPT ![s] = why]
                 /\ pc \notin SyncPCs => why = "prompt"
                 /\ (\/ pc \in {"decode", "eval", "leave"}
                     \/ pc \in SyncPCs /\ why = "rewind") <=> Generating(s)
<1> USE DEF TypeOK, WorkerTypeOK
<1> USE DEF jobVars, queueVars, bindVars, localVars, workerVars, turnVars,
            tokenVars, modelVars, stopVars
<1> DEFINE Kept == \E pc \in WorkerPCs, why \in Phases :
                 /\ worker' = [worker EXCEPT ![s] = pc]
                 /\ phase' = [phase EXCEPT ![s] = why]
                 /\ pc \notin SyncPCs => why = "prompt"
                 /\ (\/ pc \in {"decode", "eval", "leave"}
                     \/ pc \in SyncPCs /\ why = "rewind") <=> Generating(s)
<1>0. worker[s] \notin SyncPCs => phase[s] = "prompt"
  BY DEF CounterInv
<1>10. phase = [phase EXCEPT ![s] = phase[s]] /\ phase[s] \in Phases
  OBVIOUS
<1>1. ASSUME SyncFails(s), worker[s] \in SyncPCs PROVE Kept
  <2>1. worker' = [worker EXCEPT ![s] = AfterFailedSync(s)]
        /\ phase' = [phase EXCEPT ![s] = "prompt"]
    BY <1>1 DEF SyncFails, Goto
  <2>2. /\ AfterFailedSync(s) \in WorkerPCs \ SyncPCs
        /\ AfterFailedSync(s) \in {"decode", "eval", "leave"} <=> phase[s] = "rewind"
    BY DEF AfterFailedSync, WorkerPCs, HoldingPCs, RunningPCs, InnerPCs,
       SyncPCs, Phases
  <2>3. Generating(s) <=> phase[s] = "rewind"
    BY <1>1 DEF Generating, SyncPCs
  <2> QED
    BY <2>1, <2>2, <2>3 DEF Phases
<1>2. ASSUME SyncSucceeds(s), worker[s] \in SyncPCs PROVE Kept
  <2> DEFINE next == CASE phase[s] = "prompt" ->
                              IF JobCancelled(s) THEN "finish" ELSE "ready"
                       [] phase[s] = "rewind" -> "decode"
                       [] phase[s] \in {"repair", "late_repair"} -> "ready"
                       [] OTHER -> "send"
  <2>1. worker' = [worker EXCEPT ![s] = next]
        /\ phase' = [phase EXCEPT ![s] = "prompt"]
    BY <1>2 DEF SyncSucceeds, Goto
  <2>2. /\ next \in WorkerPCs \ SyncPCs
        /\ next \in {"decode", "eval", "leave"} <=> phase[s] = "rewind"
    BY DEF WorkerPCs, HoldingPCs, RunningPCs, InnerPCs, SyncPCs, Phases
  <2>3. Generating(s) <=> phase[s] = "rewind"
    BY <1>2 DEF Generating, SyncPCs
  <2> HIDE DEF next
  <2> QED
    BY <2>1, <2>2, <2>3 DEF Phases
<1>3. CASE SyncInterrupted(s) \/ PrefillAbandon(s) \/ PrefillLeave(s)
  <2>1. UNCHANGED active_generations /\ worker[s] \in SyncPCs
    BY <1>3 DEF SyncInterrupted, PrefillAbandon, PrefillLeave, SyncPCs
  <2>2. \/ SyncFails(s) \/ SyncSucceeds(s)
        \/ worker' = [worker EXCEPT ![s] = "sync"] /\ UNCHANGED phase
    BY <1>3 DEF SyncInterrupted, PrefillAbandon, PrefillLeave, Goto
  <2>3. CASE worker' = [worker EXCEPT ![s] = "sync"] /\ UNCHANGED phase
    BY <2>1, <2>3 DEF Generating, SyncPCs, WorkerPCs, HoldingPCs, RunningPCs,
       InnerPCs
  <2> QED
    BY <2>1, <2>2, <2>3, <1>1, <1>2
<1>4. CASE PrefillRequest(s) \/ PrefillGrant(s)
  <2>1. /\ UNCHANGED <<active_generations, phase>>
        /\ worker[s] \in SyncPCs
        /\ \E pc \in SyncPCs : worker' = [worker EXCEPT ![s] = pc]
    BY <1>4 DEF PrefillRequest, PrefillGrant, Goto, SyncPCs
  <2>2. PICK pc \in SyncPCs : worker' = [worker EXCEPT ![s] = pc]
    BY <2>1
  <2>3. pc \in WorkerPCs /\ (phase[s] = "rewind" <=> Generating(s))
    BY <2>1 DEF Generating, SyncPCs, WorkerPCs, HoldingPCs, RunningPCs, InnerPCs
  <2>4. phase' = [phase EXCEPT ![s] = phase[s]]
    BY <1>10, <2>1
  <2>5. pc \notin {"decode", "eval", "leave"}
    BY DEF SyncPCs
  <2> QED
    BY <1>10, <2>1, <2>2, <2>3, <2>4, <2>5
<1>5. CASE \/ WorkerTake(s) \/ WorkerExit(s) \/ JobEndsEarly(s)
           \/ StreamStartFails(s) \/ ReplyCancelled(s) \/ SendResponse(s)
           \/ SendFails(s) \/ FinishJob(s) \/ CompleteJob(s) \/ FreeSlot(s)
  <2>1. /\ UNCHANGED <<active_generations, phase>>
        /\ worker[s] \notin SyncPCs \cup {"decode", "eval", "leave"}
        /\ \E pc \in WorkerPCs \ (SyncPCs \cup {"decode", "eval", "leave"}) :
              worker' = [worker EXCEPT ![s] = pc]
    BY <1>5 DEF WorkerTake, WorkerExit, JobEndsEarly, StreamStartFails,
       ReplyCancelled, SendResponse, SendFails, FinishJob, CompleteJob,
       FreeSlot, Goto, SyncPCs, WorkerPCs, HoldingPCs, RunningPCs, InnerPCs
  <2>2. PICK pc \in WorkerPCs \ (SyncPCs \cup {"decode", "eval", "leave"}) :
              worker' = [worker EXCEPT ![s] = pc]
    BY <2>1
  <2>3. ~Generating(s)
    BY <2>1 DEF Generating, SyncPCs
  <2>4. phase' = [phase EXCEPT ![s] = "prompt"] /\ "prompt" \in Phases
    BY <1>0, <1>10, <2>1
  <2> QED
    BY <2>1, <2>2, <2>3, <2>4
<1>6. CASE DecodeStop(s) \/ StreamWriteFails(s) \/ EvalRequest(s) \/ EvalWithdraw(s)
  <2>1. /\ UNCHANGED <<active_generations, phase>>
        /\ worker[s] \in {"decode", "eval", "leave"}
        /\ \E pc \in {"decode", "eval", "leave"} : worker' = [worker EXCEPT ![s] = pc]
    BY <1>6 DEF DecodeStop, StreamWriteFails, EvalRequest, EvalWithdraw, Goto
  <2>2. PICK pc \in {"decode", "eval", "leave"} : worker' = [worker EXCEPT ![s] = pc]
    BY <2>1
  <2>3. pc \in WorkerPCs \ SyncPCs /\ Generating(s) /\ phase[s] = "prompt"
    BY <1>0, <2>1 DEF Generating, SyncPCs, WorkerPCs, HoldingPCs, RunningPCs,
       InnerPCs
  <2>4. phase' = [phase EXCEPT ![s] = "prompt"] /\ "prompt" \in Phases
    BY <1>10, <2>1, <2>3
  <2> QED
    BY <2>1, <2>2, <2>3, <2>4
<1>7. CASE EvalReturn(s)
  <2>1. UNCHANGED active_generations /\ worker[s] = "eval"
    BY <1>7 DEF EvalReturn
  <2>2. \/ /\ \E pc \in {"leave", "decode"} : worker' = [worker EXCEPT ![s] = pc]
           /\ UNCHANGED phase
        \/ /\ worker' = [worker EXCEPT ![s] = "sync"]
           /\ phase' = [phase EXCEPT ![s] = "rewind"]
    BY <1>7 DEF EvalReturn, BeginSync, Goto
  <2>3. Generating(s) /\ phase[s] = "prompt"
    BY <1>0, <2>1 DEF Generating, SyncPCs
  <2> QED
    BY <2>1, <2>2, <2>3 DEF SyncPCs, WorkerPCs, HoldingPCs, RunningPCs,
       InnerPCs, Phases
<1>8. CASE BeginPrompt(s) \/ BeginRepair(s) \/ Publish(s)
  <2>1. /\ UNCHANGED active_generations
        /\ worker[s] \in {"taken", "reply", "publish"}
    BY <1>8 DEF BeginPrompt, BeginRepair, Publish
  <2>2. ~Generating(s) /\ phase[s] = "prompt"
    BY <1>0, <2>1 DEF Generating, SyncPCs
  <2>3. \/ /\ \E pc \in {"send", "sync"} : worker' = [worker EXCEPT ![s] = pc]
           /\ UNCHANGED phase
        \/ /\ worker' = [worker EXCEPT ![s] = "sync"]
           /\ \E why \in Phases \ {"rewind"} : phase' = [phase EXCEPT ![s] = why]
    BY <1>8 DEF BeginPrompt, BeginRepair, Publish, BeginSync, Goto, Phases
  <2> QED
    BY <2>1, <2>2, <2>3 DEF SyncPCs, WorkerPCs, HoldingPCs, RunningPCs,
       InnerPCs, Phases
<1> QED
  BY <1>3, <1>4, <1>5, <1>6, <1>7, <1>8 DEF InnerMove

\* A generation that a worker enters or leaves changes the count by one.
LEMMA GenerationsStep ==
    TypeOK /\ CounterInv /\ [Next]_vars
      => /\ active_generations' = Cardinality(Generations')
         /\ \A s \in Slots : worker'[s] \notin SyncPCs => phase'[s] = "prompt"
<1> SUFFICES ASSUME TypeOK, CounterInv, [Next]_vars
             PROVE  /\ active_generations' = Cardinality(Generations')
                    /\ \A s \in Slots : worker'[s] \notin SyncPCs => phase'[s] = "prompt"
  OBVIOUS
<1> USE DEF TypeOK, WorkerTypeOK
<1> DEFINE Kept == /\ active_generations' = Cardinality(Generations')
                   /\ \A s \in Slots : worker'[s] \notin SyncPCs => phase'[s] = "prompt"
<1>0. /\ active_generations = Cardinality(Generations)
      /\ Generations \in SUBSET Slots
      /\ \A s \in Slots : worker[s] \notin SyncPCs => phase[s] = "prompt"
  BY DEF CounterInv, CountersExact, Generations
<1> USE DEF jobVars, queueVars, bindVars, localVars, workerVars, turnVars,
            tokenVars, modelVars, stopVars
<1>1. ASSUME UNCHANGED <<active_generations, worker, phase>> PROVE Kept
  <2>1. Generations' = Generations
    BY <1>1 DEF Generations, Generating
  <2> QED
    BY <1>0, <1>1, <2>1
<1>2. ASSUME NEW s \in Slots, InnerMove(s) PROVE Kept
  <2>1. PICK pc \in WorkerPCs, why \in Phases :
              /\ worker' = [worker EXCEPT ![s] = pc]
              /\ phase' = [phase EXCEPT ![s] = why]
              /\ pc \notin SyncPCs => why = "prompt"
              /\ (\/ pc \in {"decode", "eval", "leave"}
                  \/ pc \in SyncPCs /\ why = "rewind") <=> Generating(s)
    BY <1>2, InnerMoves
  <2>2. UNCHANGED active_generations
    BY <1>2, InnerMoves
  <2>3. \A t \in Slots : Generating(t)' <=> Generating(t)
    BY <2>1 DEF Generating, SyncPCs
  <2>4. Generations' = Generations
    BY <2>3 DEF Generations
  <2>5. \A t \in Slots : worker'[t] \notin SyncPCs => phase'[t] = "prompt"
    BY <1>0, <2>1
  <2> QED
    BY <1>0, <2>2, <2>4, <2>5
<1>3. ASSUME NEW s \in Slots, GenerationEnter(s) PROVE Kept
  <2>1. /\ worker[s] = "ready" /\ worker' = [worker EXCEPT ![s] = "decode"]
        /\ active_generations' = active_generations + 1 /\ UNCHANGED phase
    BY <1>3 DEF GenerationEnter, Goto
  <2>2. s \notin Generations /\ Generations' = Generations \cup {s}
    BY <2>1 DEF Generations, Generating
  <2>3. \A t \in Slots : worker'[t] \notin SyncPCs => phase'[t] = "prompt"
    BY <1>0, <2>1 DEF SyncPCs
  <2> QED
    BY <1>0, <2>1, <2>2, <2>3, OneMore
<1>4. ASSUME NEW s \in Slots, GenerationLeave(s) PROVE Kept
  <2>1. /\ worker[s] = "leave" /\ worker' = [worker EXCEPT ![s] = "reply"]
        /\ UNCHANGED phase
    BY <1>4 DEF GenerationLeave, Goto
  <2>2. phase[s] = "prompt"
    BY <1>0, <2>1 DEF SyncPCs
  <2>3. s \in Generations /\ Generations' = Generations \ {s}
    BY <2>1, <2>2 DEF Generations, Generating
  <2>4. active_generations > 0 /\ active_generations' = Cardinality(Generations')
    BY <1>0, <1>4, <2>3, OneLess DEF GenerationLeave
  <2>5. \A t \in Slots : worker'[t] \notin SyncPCs => phase'[t] = "prompt"
    BY <1>0, <2>1, <2>2
  <2> QED
    BY <2>4, <2>5
<1>5. ASSUME NEW j \in Jobs,
            \/ AcceptRequest(j) \/ AcceptOther(j) \/ CancelMark(j)
            \/ Enqueue(j) \/ EnqueueRefused(j) \/ CancelDetach(j)
            \/ CancelWithdraw(j) \/ CancelComplete(j) \/ LeaveWait(j)
            \/ ClientDone(j)
     PROVE  UNCHANGED <<active_generations, worker, phase>>
  BY <1>5 DEF AcceptRequest, AcceptOther, CancelMark, Enqueue,
     EnqueueRefused, CancelDetach, CancelWithdraw, CancelComplete, LeaveWait,
     ClientDone
<1>6. ASSUME NEW s \in Slots, WorkerSleep(s) \/ PrefillSleep(s) \/ EvalSleep(s)
     PROVE  UNCHANGED <<active_generations, worker, phase>>
  BY <1>6 DEF WorkerSleep, PrefillSleep, EvalSleep
<1>7. ASSUME DecoderStep \/ StopSignal \/ MainStep \/ Rest \/ UNCHANGED vars
     PROVE  UNCHANGED <<active_generations, worker, phase>>
  BY <1>7 DEF DecoderStep, DecoderSleep, DecoderCoalesce, DecoderBusyWait,
     DecoderFindsNone, DecoderCollect, DecoderFinish, DecoderExit, StopSignal,
     MainStep, StopWorkers, StopDecoder, JoinDecoder, Close, Rest, vars
<1> QED
  BY <1>1, <1>2, <1>3, <1>4, <1>5, <1>6, <1>7
     DEF Next, ClientStep, WorkerStep, InnerMove

-----------------------------------------------------------------------------
(* The counters are exact, and tokens go first.                            *)

LEMMA CounterInvStep ==
    TypeOK /\ OneTokenPerSlot /\ CounterInv /\ [Next]_vars => CounterInv'
<1> SUFFICES ASSUME TypeOK, OneTokenPerSlot, CounterInv, [Next]_vars
             PROVE  CounterInv'
  OBVIOUS
<1>1. decode_pending' = Cardinality(Pending')
  BY PendingStep DEF CounterInv
<1>2. /\ active_generations' = Cardinality(Generations')
      /\ \A s \in Slots : worker'[s] \notin SyncPCs => phase'[s] = "prompt"
  BY GenerationsStep
<1> QED
  BY <1>1, <1>2 DEF CounterInv, CountersExact, Pending, Generations

\* At start no slot has a token or a generation, and both counters are zero.
LEMMA InitCounted == Init => CounterInv
<1> SUFFICES ASSUME Init PROVE CounterInv
  OBVIOUS
<1>1. Pending = {} /\ Generations = {}
  BY DEF Init, Pending, Generations, Generating
<1>2. \A s \in Slots : phase[s] = "prompt"
  BY DEF Init
<1>3. decode_pending = 0 /\ active_generations = 0
  BY DEF Init
<1> QED
  BY <1>1, <1>2, <1>3, FS_EmptySet DEF CounterInv, CountersExact, Pending, Generations

\* decode_pending counts the slots whose token waits, and active_generations the
\* workers between server_generation_enter and server_generation_leave, along
\* every path of a request: withdrawals, failed syncs, rewinds and repairs.
THEOREM CountersAreExact == Spec => []CountersExact
<1>1. Spec => []CounterInv
  BY InitCounted, CounterInvStep, TypeCorrect, TokensAreExclusive, PTL DEF Spec
<1>2. CounterInv => CountersExact
  BY DEF CounterInv
<1> QED
  BY <1>1, <1>2, PTL

\* A worker takes the executor for a quantum of prefill only while no token of
\* another slot waits for a batch (server_prefill_enter).
LEMMA GrantStep ==
    TypeOK /\ CountersExact /\ [Next]_vars
      => ((\E s \in Slots : worker[s] = "turn" /\ worker'[s] = "prefill")
            => \A t \in Slots : ~slot_pending'[t])
<1> SUFFICES ASSUME TypeOK, CountersExact, [Next]_vars,
                    NEW s \in Slots, worker[s] = "turn", worker'[s] = "prefill"
             PROVE  \A t \in Slots : ~slot_pending'[t]
  OBVIOUS
<1> USE DEF TypeOK, WorkerTypeOK
<1> USE DEF jobVars, queueVars, bindVars, localVars, workerVars, turnVars,
            tokenVars, modelVars, stopVars
<1>1. CASE PrefillGrant(s)
  <2>1. UNCHANGED slot_pending /\ decode_pending <= 0
    BY <1>1 DEF PrefillGrant, MustWaitForTurn, TokenTypeOK
  <2>2. decode_pending = Cardinality(Pending) /\ Pending \in SUBSET Slots
    BY DEF CountersExact, Pending
  <2>3. IsFiniteSet(Pending) /\ Cardinality(Pending) \in Nat
    BY <2>2, SlotsAreFinite
  <2>4. Pending = {}
    BY <2>1, <2>2, <2>3, FS_EmptySet
  <2> QED
    BY <2>1, <2>4 DEF Pending
<1>2. ASSUME UNCHANGED worker PROVE FALSE
  BY <1>2
<1>3. ASSUME NEW t \in Slots, PlainMove(t) PROVE FALSE
  <2>1. PICK pc \in WorkerPCs \ {"turn", "prefill", "eval"} :
              worker' = [worker EXCEPT ![t] = pc]
    BY <1>3, PlainMoves
  <2> QED
    BY <2>1
<1>4. ASSUME NEW t \in Slots,
             \/ PrefillRequest(t) \/ SyncInterrupted(t) \/ PrefillAbandon(t)
             \/ PrefillLeave(t) \/ EvalRequest(t) \/ EvalWithdraw(t)
             \/ EvalReturn(t)
      PROVE  FALSE
  <2>1. CASE SyncFails(t) \/ SyncSucceeds(t)
    <3>1. PICK pc \in WorkerPCs \ {"turn", "prefill", "eval"} :
                worker' = [worker EXCEPT ![t] = pc]
      BY <2>1, SyncEnds
    <3> QED
      BY <3>1
  <2>2. CASE \E pc \in {"sync", "turn", "leave", "decode", "eval"} :
                worker' = [worker EXCEPT ![t] = pc]
    BY <2>2
  <2> QED
    BY <1>4, <2>1, <2>2 DEF PrefillRequest, SyncInterrupted, PrefillAbandon,
       PrefillLeave, EvalRequest, EvalWithdraw, EvalReturn, BeginSync, Goto
<1>5. ASSUME NEW t \in Slots, PrefillGrant(t), t # s PROVE FALSE
  BY <1>5 DEF PrefillGrant, Goto
<1>6. ASSUME NEW t \in Slots, WorkerSleep(t) \/ PrefillSleep(t) \/ EvalSleep(t)
      PROVE  UNCHANGED worker
  BY <1>6 DEF WorkerSleep, PrefillSleep, EvalSleep
<1>7. ASSUME NEW j \in Jobs,
            \/ AcceptRequest(j) \/ AcceptOther(j) \/ CancelMark(j)
            \/ Enqueue(j) \/ EnqueueRefused(j) \/ CancelDetach(j)
            \/ CancelWithdraw(j) \/ CancelComplete(j) \/ LeaveWait(j)
            \/ ClientDone(j)
     PROVE  UNCHANGED worker
  BY <1>7 DEF AcceptRequest, AcceptOther, CancelMark, Enqueue,
     EnqueueRefused, CancelDetach, CancelWithdraw, CancelComplete, LeaveWait,
     ClientDone
<1>8. ASSUME DecoderStep \/ StopSignal \/ MainStep \/ Rest \/ UNCHANGED vars
     PROVE  UNCHANGED worker
  BY <1>8 DEF DecoderStep, DecoderSleep, DecoderCoalesce, DecoderBusyWait,
     DecoderFindsNone, DecoderCollect, DecoderFinish, DecoderExit, StopSignal,
     MainStep, StopWorkers, StopDecoder, JoinDecoder, Close, Rest, vars
<1> QED
  BY <1>1, <1>2, <1>3, <1>4, <1>5, <1>6, <1>7, <1>8
     DEF Next, ClientStep, WorkerStep, PlainMove

\* So no prefill quantum ever starts in front of a token that waits.
THEOREM TokensGoFirst == Spec => NoPrefillOverToken
BY GrantStep, TypeCorrect, CountersAreExact, PTL DEF Spec, NoPrefillOverToken
=============================================================================
