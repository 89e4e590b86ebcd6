-------------------------- MODULE ServerScheduler --------------------------
(***************************************************************************)
(* The request scheduler of ds4_server.c in batched mode: client threads,  *)
(* one worker thread per resident slot, the decode coordinator and the     *)
(* main thread.  A request (struct job) lives on the stack of its client   *)
(* thread; mu protects the queue and the slot assignment, model_mu the     *)
(* turn taking on the one model executor.                                  *)
(*                                                                         *)
(* Every action is one critical section of one thread, or one step between *)
(* two critical sections.  Both condition variables are modelled: a thread *)
(* that waits is put into model_asleep or idle_asleep and takes no step    *)
(* until a broadcast empties the set, so a missing broadcast is a lost     *)
(* wake-up here as it is in the code.                                      *)
(*                                                                         *)
(* Abstracted: what a request contains, what the model computes, the text  *)
(* of responses.  The work of a request is a number of prefill quanta and  *)
(* a number of tokens, chosen when the phase starts and bounded by the     *)
(* constants MaxQuanta and MaxTokens.                                      *)
(*                                                                         *)
(* A definition named Op_What is a slip in Op that the properties must     *)
(* catch; nothing refers to it.                                            *)
(***************************************************************************)
EXTENDS Integers, Sequences, FiniteSets

CONSTANTS Jobs,        \* the requests, one client thread each
          NoJob,       \* the null job pointer
          SlotCount,   \* --batched-sessions
          MaxQuanta,   \* bound: prefill quanta in one sync
          MaxTokens,   \* bound: decoded tokens in one generation
          Impatient,   \* bound: the jobs whose client may hang up
          MayStop,     \* bound: whether a stop signal may arrive
          Detours      \* bound: the syncs of a request besides the prompt's

ASSUME SchedulerAssumption ==
    /\ NoJob \notin Jobs
    /\ SlotCount \in Nat \ {0}
    /\ MaxQuanta \in Nat \ {0}
    /\ MaxTokens \in Nat
    /\ Impatient \subseteq Jobs
    /\ MayStop \in BOOLEAN
    /\ Detours \subseteq {"rewind", "repair", "late_repair", "canonical"}

Slots   == 0 .. SlotCount - 1
NoSlot  == -1
Decoder == SlotCount   \* the decode coordinator, as a waiter on model_cv

VARIABLES
    client,             \* program counter of the client thread of a job
    cancelled,          \* job.cancelled
    done,               \* job.done
    queue,              \* the jobs on the list server.head .. server.tail
    ahead,              \* for each of them, the jobs nearer to head
    assigned,           \* server_slot.assigned
    busy,               \* server_slot.busy
    stopping,           \* server.stopping
    clients,            \* server.clients
    idle_asleep,        \* slot workers asleep on server.cv
    home,               \* the slot whose live binding the request named
    bound,              \* the same, while that slot still holds the binding
    live_tools,         \* slots that hold a live tool binding
    worker,             \* program counter of a slot worker
    current,            \* the job a slot worker has taken
    phase,              \* why the worker is inside server_session_sync
    quanta,             \* quanta left in that sync
    tokens,             \* tokens left in the generation
    repaired,           \* dsml_recovery_attempted
    prefill_waiting,    \* server_slot.prefill_waiting
    last_prefill_slot,  \* server.last_prefill_slot
    model_busy,         \* server.model_busy
    slot_pending,       \* server_slot.decode_pending
    in_flight,          \* server_slot.decode_in_flight
    decode_done,        \* server_slot.decode_done
    decode_rc,          \* server_slot.decode_rc
    decode_pending,     \* server.decode_pending, the count
    active_generations, \* server.active_generations
    model_stopping,     \* server.model_stopping
    model_asleep,       \* threads asleep on server.model_cv
    decoder,            \* program counter of the decode coordinator
    main,               \* program counter of the main thread
    g_stop_requested,   \* set by the signal handler
    overtaken           \* history: turns granted to others while waiting

jobVars    == <<client, cancelled, done>>
queueVars  == <<queue, ahead, assigned, busy, stopping, idle_asleep>>
bindVars   == <<home, bound, live_tools>>
localVars  == <<phase, quanta, tokens, repaired>>
workerVars == <<worker, current, localVars>>
turnVars   == <<prefill_waiting, last_prefill_slot, overtaken>>
tokenVars  == <<slot_pending, in_flight, decode_done, decode_rc, decode_pending>>
modelVars  == <<turnVars, tokenVars, model_busy, active_generations,
                model_asleep, decoder>>
stopVars   == <<model_stopping, main, g_stop_requested>>
vars == <<client, cancelled, done, queue, ahead, assigned, busy, stopping,
          clients, idle_asleep, home, bound, live_tools, worker, current, phase, quanta,
          tokens, repaired, prefill_waiting, last_prefill_slot, model_busy,
          slot_pending, in_flight, decode_done, decode_rc, decode_pending,
          active_generations, model_stopping, model_asleep, decoder, main,
          g_stop_requested, overtaken>>

-----------------------------------------------------------------------------
(* Where the threads can be.                                               *)

ClientPCs == {"none", "enqueue", "waiting", "detach", "withdraw",
              "withdraw_detached", "complete", "leaving", "gone"}

\* The worker is inside generate_job_inner.
InnerPCs == {"sync", "turn", "prefill", "ready", "decode", "eval",
             "leave", "reply", "publish", "send"}

\* slot->running is set, from the first to the last critical section of generate_job.
RunningPCs == InnerPCs \cup {"finish"}

\* The worker holds a pointer to a job that it has taken from slot->assigned.
HoldingPCs == RunningPCs \cup {"taken", "complete"}

WorkerPCs == HoldingPCs \cup {"wait", "refresh", "exited"}

\* Inside the bracket server_generation_enter .. server_generation_leave.
Generating(s) == \/ worker[s] \in {"decode", "eval", "leave"}
                 \/ worker[s] \in {"sync", "turn", "prefill"} /\ phase[s] = "rewind"

Phases == {"prompt", "rewind", "repair", "late_repair", "canonical"}

DecoderPCs == {"top", "coalesce", "busy_wait", "batch", "exited"}

MainPCs == {"accept", "join_slots", "join_decode", "join_clients", "closed"}

\* slot_job_cancelled and job_cancelled on the job the worker runs.
JobCancelled(s) == cancelled[current[s]]

\* The conditions every long operation of a request polls.
Interrupted(s) == g_stop_requested \/ JobCancelled(s)

-----------------------------------------------------------------------------
Init ==
    /\ client = [j \in Jobs |-> "none"]
    /\ cancelled = [j \in Jobs |-> FALSE]
    /\ done = [j \in Jobs |-> FALSE]
    /\ queue = {}
    /\ ahead = [j \in Jobs |-> {}]
    /\ assigned = [s \in Slots |-> NoJob]
    /\ busy = [s \in Slots |-> FALSE]
    /\ stopping = FALSE
    /\ clients = 0
    /\ idle_asleep = {}
    /\ home = [j \in Jobs |-> NoSlot]
    /\ bound = [j \in Jobs |-> NoSlot]
    /\ live_tools = {}
    /\ worker = [s \in Slots |-> "wait"]
    /\ current = [s \in Slots |-> NoJob]
    /\ phase = [s \in Slots |-> "prompt"]
    /\ quanta = [s \in Slots |-> 0]
    /\ tokens = [s \in Slots |-> 0]
    /\ repaired = [s \in Slots |-> FALSE]
    /\ prefill_waiting = [s \in Slots |-> FALSE]
    /\ last_prefill_slot = SlotCount - 1
    /\ model_busy = FALSE
    /\ slot_pending = [s \in Slots |-> FALSE]
    /\ in_flight = [s \in Slots |-> FALSE]
    /\ decode_done = [s \in Slots |-> FALSE]
    /\ decode_rc = [s \in Slots |-> "ok"]
    /\ decode_pending = 0
    /\ active_generations = 0
    /\ model_stopping = FALSE
    /\ model_asleep = {}
    /\ decoder = "top"
    /\ main = "accept"
    /\ g_stop_requested = FALSE
    /\ overtaken = [s \in Slots |-> 0]

-----------------------------------------------------------------------------
(* Routing: dispatch_jobs_locked.                                          *)

Eligible_Any(j, free) == free

\* The slots a queued job may take out of free: the one that holds the live
\* binding it continues from, or any.  Which of them scores best depends on
\* the prompt, so any may be chosen.
Eligible(j, free) == IF bound[j] # NoSlot THEN free \cap {bound[j]} ELSE free

\* The loop takes, again and again, the first job on the list that has an
\* eligible free slot.  A job it skips stays skipped, for the free slots only
\* shrink, so the loop is one pass in list order: a job gets a slot that no
\* job ahead of it got, and gets none only when none is left for it.
Routes(q, ah, free) ==
    {r \in [q -> Slots \cup {NoSlot}] :
        \A j \in q : LET can == Eligible(j, free) \ {r[k] : k \in ah[j]}
                    IN  r[j] \in IF can = {} THEN {NoSlot} ELSE can}

\* dispatch_jobs_locked on the list q, ah with the slots in state a, b.  The
\* broadcast of server.cv is `wake`, what the caller does after it, or any
\* assignment made here.
Dispatch(q, ah, a, b, wake) ==
    \E r \in Routes(q, ah, {s \in Slots : ~b[s] /\ a[s] = NoJob}) :
        LET routed == {j \in q : r[j] # NoSlot}
            taken  == {r[j] : j \in routed}
        IN  /\ queue' = q \ routed
            /\ ahead' = [j \in Jobs |-> ah[j] \ routed]
            /\ assigned' = [s \in Slots |-> IF s \in taken
                                            THEN CHOOSE j \in routed : r[j] = s
                                            ELSE a[s]]
            /\ busy' = [s \in Slots |-> s \in taken \/ b[s]]
            /\ idle_asleep' = IF wake \/ routed # {} THEN {} ELSE idle_asleep

-----------------------------------------------------------------------------
(* Client threads: client_main, wait_for_job_or_disconnect,                *)
(* server_cancel_job.                                                      *)

\* The accept loop of main starts a client thread, and the parser notes
\* whether the request must continue a live tool binding and in which slot that
\* binding is now.
AcceptRequest(j) ==
    /\ main = "accept" /\ ~g_stop_requested
    /\ client[j] = "none"
    /\ client' = [client EXCEPT ![j] = "enqueue"]
    /\ clients' = clients + 1
    /\ \E s \in live_tools \cup {NoSlot} :
          /\ home' = [home EXCEPT ![j] = s]
          /\ bound' = [bound EXCEPT ![j] = s]
    /\ UNCHANGED <<cancelled, done, queueVars, live_tools, workerVars, modelVars,
                   stopVars>>

\* A request that is answered without a job: a bad one, a list of models.
AcceptOther(j) ==
    /\ main = "accept" /\ ~g_stop_requested
    /\ client[j] = "none"
    /\ client' = [client EXCEPT ![j] = "leaving"]
    /\ clients' = clients + 1
    /\ UNCHANGED <<cancelled, done, queueVars, bindVars, workerVars, modelVars,
                   stopVars>>

\* enqueue() accepts the job.
Enqueue(j) ==
    /\ client[j] = "enqueue" /\ ~stopping
    /\ client' = [client EXCEPT ![j] = "waiting"]
    /\ Dispatch(queue \cup {j}, [ahead EXCEPT ![j] = queue], assigned, busy, TRUE)
    /\ UNCHANGED <<cancelled, done, stopping, clients, bindVars, workerVars, modelVars,
                   stopVars>>

\* enqueue() refuses it and the client is answered 503.
EnqueueRefused(j) ==
    /\ client[j] = "enqueue" /\ stopping
    /\ client' = [client EXCEPT ![j] = "leaving"]
    /\ UNCHANGED <<cancelled, done, queueVars, clients, bindVars, workerVars, modelVars,
                   stopVars>>

\* The poll of the socket finds it closed: job_mark_cancelled.  The poll is
\* repeated until the job is done, so this may happen again.
CancelMark(j) ==
    /\ j \in Impatient /\ client[j] = "waiting" /\ ~done[j]
    /\ cancelled' = [cancelled EXCEPT ![j] = TRUE]
    /\ client' = [client EXCEPT ![j] = "detach"]
    /\ UNCHANGED <<done, queueVars, clients, bindVars, workerVars, modelVars,
                   stopVars>>

CanTakeBack_Running(j, s) == j \notin queue /\ (assigned[s] = j \/ current[s] = j)

\* The worker of slot s has not picked up its job: the client may take it back.
CanTakeBack(j, s) == j \notin queue /\ assigned[s] = j

FreedBy_Leaks(s) == busy

\* slot->busy = false.
FreedBy(s) == [busy EXCEPT ![s] = FALSE]

\* Under mu: unlink the job from the list, or take it back from a slot whose
\* worker has not picked it up.
CancelDetach(j) ==
    /\ client[j] = "detach"
    /\ \/ /\ j \in queue
          /\ queue' = queue \ {j}
          /\ ahead' = [k \in Jobs |-> ahead[k] \ {j}]
          /\ idle_asleep' = {}
          /\ client' = [client EXCEPT ![j] = "withdraw_detached"]
          /\ UNCHANGED <<assigned, busy>>
       \/ \E s \in Slots :
             /\ CanTakeBack(j, s)
             /\ Dispatch(queue, ahead, [assigned EXCEPT ![s] = NoJob], FreedBy(s), TRUE)
             /\ client' = [client EXCEPT ![j] = "withdraw_detached"]
       \/ /\ j \notin queue /\ \A s \in Slots : ~CanTakeBack(j, s)
          /\ idle_asleep' = {}
          /\ client' = [client EXCEPT ![j] = "withdraw"]
          /\ UNCHANGED <<queue, ahead, assigned, busy>>
    /\ UNCHANGED <<cancelled, done, stopping, clients, bindVars, workerVars, modelVars,
                   stopVars>>

CanWithdraw_InFlight(s) == slot_pending[s] \/ in_flight[s]

\* A token that no batch has taken can be withdrawn.
CanWithdraw(s) == slot_pending[s] /\ ~in_flight[s]

WithdrawToken_Silent(s) ==
    /\ slot_pending' = [slot_pending EXCEPT ![s] = FALSE]
    /\ decode_pending' = decode_pending - 1
    /\ decode_rc' = [decode_rc EXCEPT ![s] = "error"]
    /\ UNCHANGED model_asleep

\* The token that waits in slot s is withdrawn before a batch took it
\* (server_cancel_pending_decode_locked), with the broadcast.
WithdrawToken(s) ==
    /\ slot_pending' = [slot_pending EXCEPT ![s] = FALSE]
    /\ decode_pending' = decode_pending - 1
    /\ decode_rc' = [decode_rc EXCEPT ![s] = "error"]
    /\ model_asleep' = {}

\* Under model_mu: withdraw the token the job waits for, if no batch owns it.
CancelWithdraw(j) ==
    /\ client[j] \in {"withdraw", "withdraw_detached"}
    /\ client' = [client EXCEPT ![j] = IF client[j] = "withdraw"
                                      THEN "waiting" ELSE "complete"]
    /\ \/ \E s \in Slots :
             /\ worker[s] \in RunningPCs /\ current[s] = j
             /\ CanWithdraw(s)
             /\ WithdrawToken(s)
             /\ decode_done' = [decode_done EXCEPT ![s] = TRUE]
             /\ UNCHANGED in_flight
       \/ /\ \A s \in Slots : worker[s] \in RunningPCs /\ current[s] = j
                                => ~CanWithdraw(s)
          /\ model_asleep' = {}
          /\ UNCHANGED tokenVars
    /\ UNCHANGED <<cancelled, done, queueVars, clients, bindVars, workerVars,
                   turnVars, model_busy, active_generations, decoder, stopVars>>

\* A client that took its job back completes it itself.
CancelComplete(j) ==
    /\ client[j] = "complete"
    /\ done' = [done EXCEPT ![j] = TRUE]
    /\ client' = [client EXCEPT ![j] = "waiting"]
    /\ UNCHANGED <<cancelled, queueVars, clients, bindVars, workerVars,
                   modelVars, stopVars>>

\* wait_for_job_or_disconnect returns and client_main destroys the job: its
\* fields have no value any more.
LeaveWait(j) ==
    /\ client[j] = "waiting" /\ done[j]
    /\ client' = [client EXCEPT ![j] = "leaving"]
    /\ cancelled' = [cancelled EXCEPT ![j] = FALSE]
    /\ done' = [done EXCEPT ![j] = FALSE]
    /\ home' = [home EXCEPT ![j] = NoSlot]
    /\ bound' = [bound EXCEPT ![j] = NoSlot]
    /\ UNCHANGED <<queueVars, clients, live_tools, workerVars,
                   modelVars, stopVars>>

\* client_done.
ClientDone(j) ==
    /\ client[j] = "leaving"
    /\ clients' = IF clients > 0 THEN clients - 1 ELSE clients
    /\ client' = [client EXCEPT ![j] = "gone"]
    /\ UNCHANGED <<cancelled, done, queueVars, bindVars, workerVars,
                   modelVars, stopVars>>

-----------------------------------------------------------------------------
(* Slot workers: slot_worker_main and generate_job.                        *)

Goto(s, pc) == worker' = [worker EXCEPT ![s] = pc]

MustWaitForJob_Forever(s) == assigned[s] = NoJob

\* The condition of the wait loop in slot_worker_main.
MustWaitForJob(s) == assigned[s] = NoJob /\ (~stopping \/ queue # {})

\* pthread_cond_wait(&s->cv) in slot_worker_main.
WorkerSleep(s) ==
    /\ worker[s] = "wait" /\ s \notin idle_asleep
    /\ MustWaitForJob(s)
    /\ idle_asleep' = idle_asleep \cup {s}
    /\ UNCHANGED <<jobVars, queue, ahead, assigned, busy, stopping, clients,
                   bindVars, workerVars, modelVars, stopVars>>

WorkerExit(s) ==
    /\ worker[s] = "wait" /\ s \notin idle_asleep
    /\ ~MustWaitForJob(s) /\ assigned[s] = NoJob /\ stopping /\ queue = {}
    /\ Goto(s, "exited")
    /\ UNCHANGED <<jobVars, queueVars, clients, bindVars, current, localVars,
                   modelVars, stopVars>>

WorkerTake(s) ==
    /\ worker[s] = "wait" /\ s \notin idle_asleep
    /\ assigned[s] # NoJob
    /\ current' = [current EXCEPT ![s] = assigned[s]]
    /\ assigned' = [assigned EXCEPT ![s] = NoJob]
    /\ Goto(s, "taken")
    /\ UNCHANGED <<jobVars, queue, ahead, busy, stopping, idle_asleep, clients,
                   bindVars, localVars, modelVars, stopVars>>

\* generate_job sets slot->running and skips a cancelled job, or the job ends in
\* generate_job_inner before it uses the model: a continuation whose binding is
\* gone is answered 409.
JobEndsEarly(s) ==
    /\ worker[s] = "taken"
    /\ Goto(s, "finish")
    /\ UNCHANGED <<jobVars, queueVars, clients, bindVars, current, localVars,
                   modelVars, stopVars>>

\* generate_job sets slot->running, generate_job_inner goes on to
\* server_session_sync on the prompt.
BeginPrompt(s) ==
    /\ worker[s] = "taken" /\ ~JobCancelled(s)
    /\ home[current[s]] # NoSlot => bound[current[s]] = s
    /\ \E n \in 1 .. MaxQuanta : quanta' = [quanta EXCEPT ![s] = n]
    /\ Goto(s, "sync")
    /\ UNCHANGED <<jobVars, queueVars, clients, bindVars, current, phase, tokens,
                   repaired, modelVars, stopVars>>

\* The live tool binding of slot s is cleared: no job continues from it now.
ClearBinding(s) ==
    /\ bound' = [j \in Jobs |-> IF bound[j] = s THEN NoSlot ELSE bound[j]]
    /\ live_tools' = live_tools \ {s}

\* request_live_state_clear, on the return paths of a cancelled request.
ClearBindingIf(s, c) == IF c THEN ClearBinding(s) ELSE UNCHANGED <<bound, live_tools>>

\* server_prefill_enter: the worker asks for a turn.
PrefillRequest(s) ==
    /\ worker[s] = "sync" /\ ~Interrupted(s)
    /\ prefill_waiting' = [prefill_waiting EXCEPT ![s] = TRUE]
    /\ overtaken' = [overtaken EXCEPT ![s] = 0]
    /\ model_asleep' = {}
    /\ Goto(s, "turn")
    /\ UNCHANGED <<jobVars, queueVars, clients, bindVars, current, localVars,
                   last_prefill_slot, model_busy, tokenVars,
                   active_generations, decoder, stopVars>>

Distance_LowestFirst(s) == s

\* server_next_prefill_slot_locked: how far slot s is behind the slot that had
\* the last turn, and whether it is the waiting slot nearest to it.
Distance(s) == IF s > last_prefill_slot
               THEN s - last_prefill_slot - 1
               ELSE s - last_prefill_slot - 1 + SlotCount

IsNextPrefill(s) == /\ prefill_waiting[s]
                    /\ \A t \in Slots : prefill_waiting[t] => Distance(s) <= Distance(t)

MustWaitForTurn_IgnoresTokens(s) == model_busy \/ ~IsNextPrefill(s)

MustWaitForTurn_IgnoresBusy(s) == decode_pending > 0 \/ ~IsNextPrefill(s)

MustWaitForTurn_NeverTwice(s) == model_busy \/ decode_pending > 0 \/ s = last_prefill_slot

\* The condition of the wait loop in server_prefill_enter.
MustWaitForTurn(s) == \/ model_busy
                      \/ decode_pending > 0
                      \/ ~IsNextPrefill(s)

PrefillSleep(s) ==
    /\ worker[s] = "turn" /\ s \notin model_asleep
    /\ ~Interrupted(s) /\ MustWaitForTurn(s)
    /\ model_asleep' = model_asleep \cup {s}
    /\ UNCHANGED <<jobVars, queueVars, clients, bindVars, workerVars, turnVars,
                   model_busy, tokenVars, active_generations, decoder, stopVars>>

\* The turn is granted; the worker leaves model_mu and takes inference_mu.
PrefillGrant(s) ==
    /\ worker[s] = "turn" /\ s \notin model_asleep
    /\ ~Interrupted(s) /\ ~MustWaitForTurn(s)
    /\ prefill_waiting' = [prefill_waiting EXCEPT ![s] = FALSE]
    /\ last_prefill_slot' = s
    /\ model_busy' = TRUE
    /\ overtaken' = [t \in Slots |-> IF prefill_waiting[t] /\ t # s
                                    THEN overtaken[t] + 1 ELSE 0]
    /\ Goto(s, "prefill")
    /\ UNCHANGED <<jobVars, queueVars, clients, bindVars, current, localVars,
                   tokenVars, active_generations, model_asleep, decoder, stopVars>>

AfterFailedSync_SkipsLeave(s) ==
    CASE phase[s] = "prompt" -> "finish"
      [] phase[s] = "rewind" -> "reply"
      [] phase[s] = "repair" -> "publish"
      [] OTHER -> "send"

\* Where a worker goes on after a failed sync.
AfterFailedSync(s) ==
    CASE phase[s] = "prompt" -> "finish"
      [] phase[s] = "rewind" -> "leave"
      [] phase[s] = "repair" -> "publish"
      [] OTHER -> "send"

\* server_session_sync returns an error.  From the prompt the request ends,
\* and a cancelled one clears its slot's bindings; from a rewind the
\* generation ends; from a repair the request goes on with finish = "error",
\* which after the second chance clears the bindings; a checkpoint that cannot
\* be canonicalized does not matter.
SyncFails(s) ==
    /\ Goto(s, AfterFailedSync(s))
    /\ ClearBindingIf(s, \/ phase[s] = "prompt" /\ JobCancelled(s)
                         \/ phase[s] = "late_repair")
    /\ phase' = [phase EXCEPT ![s] = "prompt"]
    /\ quanta' = [quanta EXCEPT ![s] = 0]
    /\ UNCHANGED <<tokens, repaired>>

\* It returns 0.  After the prompt a cancelled request ends, and one that did
\* not continue from the live binding of its slot invalidates that binding.
SyncSucceeds(s) ==
    /\ Goto(s, CASE phase[s] = "prompt" -> IF JobCancelled(s) THEN "finish" ELSE "ready"
                 [] phase[s] = "rewind" -> "decode"
                 [] phase[s] \in {"repair", "late_repair"} -> "ready"
                 [] OTHER -> "send")
    /\ ClearBindingIf(s, phase[s] = "prompt" /\ (JobCancelled(s) \/ bound[current[s]] # s))
    /\ quanta' = [quanta EXCEPT ![s] = 0]
    /\ phase' = [phase EXCEPT ![s] = "prompt"]
    /\ repaired' = [repaired EXCEPT ![s] = @ \/ phase[s] \in {"repair", "late_repair"}]
    /\ UNCHANGED tokens

\* The loop of server_session_sync, or the entry of server_prefill_enter,
\* finds the request interrupted.
SyncInterrupted(s) ==
    /\ worker[s] = "sync" /\ Interrupted(s)
    /\ SyncFails(s)
    /\ UNCHANGED <<jobVars, queueVars, clients, home, current, modelVars, stopVars>>

\* The wait loop finds it interrupted: the turn is given up.
PrefillAbandon(s) ==
    /\ worker[s] = "turn" /\ s \notin model_asleep /\ Interrupted(s)
    /\ prefill_waiting' = [prefill_waiting EXCEPT ![s] = FALSE]
    /\ overtaken' = [overtaken EXCEPT ![s] = 0]
    /\ model_asleep' = {}
    /\ SyncFails(s)
    /\ UNCHANGED <<jobVars, queueVars, clients, home, current,
                   last_prefill_slot, model_busy, tokenVars,
                   active_generations, decoder, stopVars>>

\* ds4_session_sync has returned, with an error or after one quantum, and
\* server_prefill_leave gives the executor back.
PrefillLeave(s) ==
    /\ worker[s] = "prefill"
    /\ model_busy' = FALSE
    /\ model_asleep' = {}
    /\ \/ SyncFails(s)
       \/ quanta[s] = 1 /\ SyncSucceeds(s)
       \/ /\ quanta[s] > 1
          /\ quanta' = [quanta EXCEPT ![s] = quanta[s] - 1]
          /\ Goto(s, "sync")
          /\ UNCHANGED <<phase, tokens, repaired, bound, live_tools>>
    /\ UNCHANGED <<jobVars, queueVars, clients, home, current, turnVars,
                   tokenVars, active_generations, decoder, stopVars>>

\* Starts another sync for the given reason.
BeginSync(s, why) ==
    /\ why \in Detours
    /\ phase' = [phase EXCEPT ![s] = why]
    /\ \E n \in 1 .. MaxQuanta : quanta' = [quanta EXCEPT ![s] = n]
    /\ Goto(s, "sync")

\* The response stream cannot be started: job_mark_cancelled and return.
StreamStartFails(s) ==
    /\ worker[s] = "ready" /\ ~repaired[s]
    /\ cancelled' = [cancelled EXCEPT ![current[s]] = TRUE]
    /\ ClearBinding(s)
    /\ Goto(s, "finish")
    /\ UNCHANGED <<client, done, queueVars, clients, home, current, localVars,
                   modelVars, stopVars>>

\* server_generation_enter.
GenerationEnter(s) ==
    /\ worker[s] = "ready"
    /\ active_generations' = active_generations + 1
    /\ model_asleep' = {}
    /\ \E n \in 0 .. MaxTokens : tokens' = [tokens EXCEPT ![s] = n]
    /\ Goto(s, "decode")
    /\ UNCHANGED <<jobVars, queueVars, clients, bindVars, current, phase,
                   quanta, repaired, turnVars, tokenVars, model_busy, decoder,
                   stopVars>>

\* The decode loop ends: a stop token, the budget, an interruption.
DecodeStop(s) ==
    /\ worker[s] = "decode"
    /\ Goto(s, "leave")
    /\ UNCHANGED <<jobVars, queueVars, clients, bindVars, current, localVars,
                   modelVars, stopVars>>

\* A write to the stream fails: job_mark_cancelled, and the loop ends.
StreamWriteFails(s) ==
    /\ worker[s] = "decode"
    /\ cancelled' = [cancelled EXCEPT ![current[s]] = TRUE]
    /\ Goto(s, "leave")
    /\ UNCHANGED <<client, done, queueVars, clients, bindVars, current,
                   localVars, modelVars, stopVars>>

BudgetLeft_OffByOne(s) == tokens[s] >= 0

\* completion < max_tokens, and room in the context.
BudgetLeft(s) == tokens[s] > 0

\* server_eval_tokens posts one token to the decode coordinator.  Its return
\* "session already has a decode in flight" is never taken: OneTokenPerSlot.
EvalRequest(s) ==
    /\ worker[s] = "decode" /\ BudgetLeft(s) /\ ~Interrupted(s)
    /\ decode_rc' = [decode_rc EXCEPT ![s] = "error"]
    /\ decode_done' = [decode_done EXCEPT ![s] = FALSE]
    /\ slot_pending' = [slot_pending EXCEPT ![s] = TRUE]
    /\ decode_pending' = decode_pending + 1
    /\ model_asleep' = {}
    /\ Goto(s, "eval")
    /\ UNCHANGED <<jobVars, queueVars, clients, bindVars, current, localVars,
                   turnVars, in_flight, model_busy, active_generations, decoder,
                   stopVars>>

\* The wait loop of server_eval_tokens withdraws the token and breaks.
EvalWithdraw(s) ==
    /\ worker[s] = "eval" /\ s \notin model_asleep /\ ~decode_done[s]
    /\ Interrupted(s) /\ CanWithdraw(s)
    /\ WithdrawToken(s)
    /\ Goto(s, "leave")
    /\ UNCHANGED <<jobVars, queueVars, clients, bindVars, current, localVars,
                   turnVars, in_flight, decode_done, model_busy,
                   active_generations, decoder, stopVars>>

EvalSleep(s) ==
    /\ worker[s] = "eval" /\ s \notin model_asleep /\ ~decode_done[s]
    /\ ~(Interrupted(s) /\ CanWithdraw(s))
    /\ model_asleep' = model_asleep \cup {s}
    /\ UNCHANGED <<jobVars, queueVars, clients, bindVars, workerVars, turnVars,
                   tokenVars, model_busy, active_generations, decoder, stopVars>>

\* The token is done.  After a success the loop goes on, ends, or drops
\* speculated tokens (server_generation_rewind), which may rebuild the prefix.
EvalReturn(s) ==
    /\ worker[s] = "eval" /\ s \notin model_asleep /\ decode_done[s]
    /\ decode_done' = [decode_done EXCEPT ![s] = FALSE]
    /\ \/ /\ decode_rc[s] # "ok" \/ g_stop_requested
          /\ Goto(s, "leave")
          /\ UNCHANGED localVars
       \/ /\ decode_rc[s] = "ok" /\ ~g_stop_requested
          /\ tokens' = [tokens EXCEPT ![s] = tokens[s] - 1]
          /\ \/ Goto(s, "decode") /\ UNCHANGED <<phase, quanta>>
             \/ ~JobCancelled(s) /\ BeginSync(s, "rewind")
          /\ UNCHANGED repaired
    /\ UNCHANGED <<jobVars, queueVars, clients, bindVars, current, turnVars,
                   slot_pending, in_flight, decode_rc, decode_pending,
                   model_busy, active_generations, model_asleep, decoder, stopVars>>

\* server_generation_leave.
GenerationLeave(s) ==
    /\ worker[s] = "leave"
    /\ active_generations' = IF active_generations > 0
                             THEN active_generations - 1 ELSE active_generations
    /\ model_asleep' = {}
    /\ Goto(s, "reply")
    /\ UNCHANGED <<jobVars, queueVars, clients, bindVars, current, localVars,
                   turnVars, tokenVars, model_busy, decoder, stopVars>>

\* job_cancelled is polled before the response state is published.
ReplyCancelled(s) ==
    /\ worker[s] \in {"reply", "publish"} /\ JobCancelled(s)
    /\ ClearBinding(s)
    /\ Goto(s, "finish")
    /\ UNCHANGED <<jobVars, queueVars, clients, home, current, localVars,
                   modelVars, stopVars>>

\* An unterminated tool call ("repair") or one the parser rejects later on
\* ("late_repair") is answered to the model, which then generates once more
\* (continue_after_invalid_dsml).
BeginRepair(s) ==
    /\ ~repaired[s]
    /\ \/ worker[s] = "reply" /\ BeginSync(s, "repair")
       \/ worker[s] \in {"reply", "publish"} /\ BeginSync(s, "late_repair")
    /\ UNCHANGED <<jobVars, queueVars, clients, bindVars, current, tokens,
                   repaired, modelVars, stopVars>>

\* The live tool binding of the slot is replaced by the one of this response,
\* or cleared, before the response is written; a checkpoint that cannot be
\* bound may be canonicalized.
Publish(s) ==
    /\ worker[s] \in {"reply", "publish"} /\ ~JobCancelled(s)
    /\ bound' = [j \in Jobs |-> IF bound[j] = s THEN NoSlot ELSE bound[j]]
    /\ \/ /\ live_tools' = live_tools \cup {s}
          /\ Goto(s, "send") /\ UNCHANGED <<phase, quanta>>
       \/ /\ live_tools' = live_tools \ {s}
          /\ \/ Goto(s, "send") /\ UNCHANGED <<phase, quanta>>
             \/ BeginSync(s, "canonical")
    /\ UNCHANGED <<jobVars, queueVars, clients, home, current, tokens, repaired,
                   modelVars, stopVars>>

\* The last write of the response.
SendResponse(s) ==
    /\ worker[s] = "send" /\ ~JobCancelled(s)
    /\ Goto(s, "finish")
    /\ UNCHANGED <<jobVars, queueVars, clients, bindVars, current, localVars,
                   modelVars, stopVars>>

\* It fails, or the job was cancelled: what was published is taken back.
SendFails(s) ==
    /\ worker[s] = "send"
    /\ cancelled' = [cancelled EXCEPT ![current[s]] = TRUE]
    /\ ClearBinding(s)
    /\ Goto(s, "finish")
    /\ UNCHANGED <<client, done, queueVars, clients, home, current, localVars,
                   modelVars, stopVars>>

\* The end of generate_job: slot->running = NULL, and the locals are gone.
FinishJob(s) ==
    /\ worker[s] = "finish"
    /\ model_asleep' = {}
    /\ tokens' = [tokens EXCEPT ![s] = 0]
    /\ repaired' = [repaired EXCEPT ![s] = FALSE]
    /\ Goto(s, "complete")
    /\ UNCHANGED <<jobVars, queueVars, clients, bindVars, current, phase, quanta,
                   turnVars, tokenVars, model_busy, active_generations,
                   decoder, stopVars>>

\* job_complete: from here on the client may destroy the job.
CompleteJob(s) ==
    /\ worker[s] = "complete"
    /\ done' = [done EXCEPT ![current[s]] = TRUE]
    /\ current' = [current EXCEPT ![s] = NoJob]
    /\ Goto(s, "refresh")
    /\ UNCHANGED <<client, cancelled, queueVars, clients, bindVars, localVars,
                   modelVars, stopVars>>

FreeSlot_ForgetsTheList(s) ==
    /\ worker[s] = "refresh"
    /\ busy' = [busy EXCEPT ![s] = FALSE]
    /\ Goto(s, "wait")
    /\ UNCHANGED <<jobVars, queue, ahead, assigned, stopping, idle_asleep, clients,
                   bindVars, current, localVars, modelVars, stopVars>>

\* After slot_refresh_live_text the slot is free again and the list is tried.
FreeSlot(s) ==
    /\ worker[s] = "refresh"
    /\ Dispatch(queue, ahead, assigned, [busy EXCEPT ![s] = FALSE], FALSE)
    /\ Goto(s, "wait")
    /\ UNCHANGED <<jobVars, stopping, clients, bindVars, current, localVars,
                   modelVars, stopVars>>

-----------------------------------------------------------------------------
(* The decode coordinator: decode_worker_main.                             *)

DecoderSleep ==
    /\ decoder = "top" /\ Decoder \notin model_asleep
    /\ decode_pending = 0 /\ ~model_stopping
    /\ model_asleep' = model_asleep \cup {Decoder}
    /\ UNCHANGED <<jobVars, queueVars, clients, bindVars, workerVars, turnVars,
                   tokenVars, model_busy, active_generations, decoder, stopVars>>

\* Fewer tokens than generations: wait a little for the others.  The wait has
\* a deadline, so the coordinator is never asleep in it.
DecoderCoalesce ==
    /\ decoder = "top" /\ Decoder \notin model_asleep
    /\ decode_pending > 0
    /\ ~model_stopping /\ decode_pending < SlotCount
    /\ decode_pending < active_generations
    /\ decoder' = "coalesce"
    /\ UNCHANGED <<jobVars, queueVars, clients, bindVars, workerVars, turnVars,
                   tokenVars, model_busy, active_generations, model_asleep, stopVars>>

\* The coordinator is past the coalescing wait, at `while (model_busy)`.
AtBusyWait ==
    \/ decoder = "coalesce"
    \/ decoder = "busy_wait" /\ Decoder \notin model_asleep
    \/ /\ decoder = "top" /\ Decoder \notin model_asleep
       /\ decode_pending > 0
       /\ \/ model_stopping
          \/ decode_pending >= SlotCount
          \/ decode_pending >= active_generations

DecoderBusyWait ==
    /\ AtBusyWait /\ model_busy
    /\ decoder' = "busy_wait"
    /\ model_asleep' = model_asleep \cup {Decoder}
    /\ UNCHANGED <<jobVars, queueVars, clients, bindVars, workerVars, turnVars,
                   tokenVars, model_busy, active_generations, stopVars>>

\* Every waiting token was withdrawn meanwhile: back to the top of the loop.
DecoderFindsNone ==
    /\ AtBusyWait /\ ~model_busy
    /\ ~(model_stopping /\ decode_pending = 0)
    /\ \A s \in Slots : ~slot_pending[s]
    /\ decoder' = "top"
    /\ UNCHANGED <<jobVars, queueVars, clients, bindVars, workerVars, turnVars,
                   tokenVars, model_busy, active_generations, model_asleep, stopVars>>

\* All waiting tokens become one batch, and the batch runs.
DecoderCollect ==
    /\ AtBusyWait /\ ~model_busy
    /\ ~(model_stopping /\ decode_pending = 0)
    /\ \E s \in Slots : slot_pending[s]
    /\ in_flight' = [s \in Slots |-> in_flight[s] \/ slot_pending[s]]
    /\ decode_pending' = decode_pending - Cardinality({s \in Slots : slot_pending[s]})
    /\ slot_pending' = [s \in Slots |-> FALSE]
    /\ model_busy' = TRUE
    /\ decoder' = "batch"
    /\ UNCHANGED <<jobVars, queueVars, clients, bindVars, workerVars, turnVars,
                   decode_done, decode_rc, active_generations, model_asleep, stopVars>>

\* The batch has run; its result goes to every member.
DecoderFinish ==
    /\ decoder = "batch"
    /\ model_busy' = FALSE
    /\ \E rc \in {"ok", "error"} :
          decode_rc' = [s \in Slots |-> IF in_flight[s] THEN rc ELSE decode_rc[s]]
    /\ decode_done' = [s \in Slots |-> in_flight[s] \/ decode_done[s]]
    /\ in_flight' = [s \in Slots |-> FALSE]
    /\ model_asleep' = {}
    /\ decoder' = "top"
    /\ UNCHANGED <<jobVars, queueVars, clients, bindVars, workerVars, turnVars,
                   slot_pending, decode_pending, active_generations, stopVars>>

DecoderExit ==
    /\ \/ decoder = "top" /\ Decoder \notin model_asleep
       \/ AtBusyWait /\ ~model_busy
    /\ decode_pending = 0 /\ model_stopping
    /\ decoder' = "exited"
    /\ UNCHANGED <<jobVars, queueVars, clients, bindVars, workerVars, turnVars,
                   tokenVars, model_busy, active_generations, model_asleep, stopVars>>

-----------------------------------------------------------------------------
(* Signal handler and main thread.                                         *)

\* The handler sets the flag and wakes nobody that waits on server.model_cv.
StopSignal ==
    /\ MayStop /\ ~g_stop_requested
    /\ g_stop_requested' = TRUE
    /\ UNCHANGED <<jobVars, queueVars, clients, bindVars, workerVars, modelVars,
                   model_stopping, main>>

\* The accept loop ends: server_request_worker_stop.
StopWorkers ==
    /\ main = "accept" /\ g_stop_requested
    /\ stopping' = TRUE
    /\ Dispatch(queue, ahead, assigned, busy, TRUE)
    /\ main' = "join_slots"
    /\ UNCHANGED <<jobVars, clients, bindVars, workerVars, modelVars,
                   model_stopping, g_stop_requested>>

SlotsJoined_One == \E s \in Slots : worker[s] = "exited"

\* pthread_join of every slot worker.
SlotsJoined == \A s \in Slots : worker[s] = "exited"

\* Every slot worker is joined: server_request_decode_stop.
StopDecoder ==
    /\ main = "join_slots" /\ SlotsJoined
    /\ model_stopping' = TRUE
    /\ model_asleep' = {}
    /\ main' = "join_decode"
    /\ UNCHANGED <<jobVars, queueVars, clients, bindVars, workerVars, turnVars,
                   tokenVars, model_busy, active_generations, decoder,
                   g_stop_requested>>

JoinDecoder ==
    /\ main = "join_decode" /\ decoder = "exited"
    /\ main' = "join_clients"
    /\ UNCHANGED <<jobVars, queueVars, clients, bindVars, workerVars, modelVars,
                   model_stopping, g_stop_requested>>

\* No client is left: the caches are persisted and everything is freed.
Close ==
    /\ main = "join_clients" /\ clients = 0
    /\ main' = "closed"
    /\ UNCHANGED <<jobVars, queueVars, clients, bindVars, workerVars, modelVars,
                   model_stopping, g_stop_requested>>

\* The process is over, or waits for connections beyond the bounded set of jobs.
Rest ==
    /\ \/ main = "closed"
       \/ main = "accept" /\ ~g_stop_requested /\ \A j \in Jobs : client[j] = "gone"
    /\ UNCHANGED vars

-----------------------------------------------------------------------------
ClientStep(j) ==
    \/ Enqueue(j) \/ EnqueueRefused(j)
    \/ CancelDetach(j) \/ CancelWithdraw(j) \/ CancelComplete(j)
    \/ LeaveWait(j) \/ ClientDone(j)

WorkerStep(s) ==
    \/ WorkerSleep(s) \/ WorkerExit(s) \/ WorkerTake(s) \/ JobEndsEarly(s)
    \/ BeginPrompt(s)
    \/ PrefillRequest(s) \/ PrefillSleep(s) \/ PrefillGrant(s)
    \/ SyncInterrupted(s) \/ PrefillAbandon(s) \/ PrefillLeave(s)
    \/ StreamStartFails(s) \/ GenerationEnter(s) \/ DecodeStop(s)
    \/ StreamWriteFails(s) \/ EvalRequest(s) \/ EvalWithdraw(s)
    \/ EvalSleep(s) \/ EvalReturn(s) \/ GenerationLeave(s)
    \/ ReplyCancelled(s) \/ BeginRepair(s) \/ Publish(s)
    \/ SendResponse(s) \/ SendFails(s) \/ FinishJob(s) \/ CompleteJob(s)
    \/ FreeSlot(s)

DecoderStep ==
    \/ DecoderSleep \/ DecoderCoalesce \/ DecoderBusyWait \/ DecoderFindsNone
    \/ DecoderCollect \/ DecoderFinish \/ DecoderExit

MainStep == StopWorkers \/ StopDecoder \/ JoinDecoder \/ Close

Next ==
    \/ \E j \in Jobs : AcceptRequest(j) \/ AcceptOther(j) \/ CancelMark(j) \/ ClientStep(j)
    \/ \E s \in Slots : WorkerStep(s)
    \/ DecoderStep
    \/ StopSignal
    \/ MainStep
    \/ Rest

\* Every thread that can take a step takes one in the end.  Nothing is assumed
\* of the environment: connections, disconnections and signals may stay away.
Fairness ==
    /\ \A j \in Jobs : WF_vars(ClientStep(j))
    /\ \A s \in Slots : WF_vars(WorkerStep(s))
    /\ WF_vars(DecoderStep)
    /\ WF_vars(MainStep)

Spec     == Init /\ [][Next]_vars
FairSpec == Spec /\ Fairness

-----------------------------------------------------------------------------
JobTypeOK ==
    /\ client \in [Jobs -> ClientPCs]
    /\ cancelled \in [Jobs -> BOOLEAN]
    /\ done \in [Jobs -> BOOLEAN]
    /\ clients \in Nat

QueueTypeOK ==
    /\ queue \in SUBSET Jobs
    /\ ahead \in [Jobs -> SUBSET Jobs]
    /\ assigned \in [Slots -> Jobs \cup {NoJob}]
    /\ busy \in [Slots -> BOOLEAN]
    /\ stopping \in BOOLEAN
    /\ idle_asleep \in SUBSET Slots

BindTypeOK ==
    /\ home \in [Jobs -> Slots \cup {NoSlot}]
    /\ bound \in [Jobs -> Slots \cup {NoSlot}]
    /\ live_tools \in SUBSET Slots

WorkerTypeOK ==
    /\ worker \in [Slots -> WorkerPCs]
    /\ current \in [Slots -> Jobs \cup {NoJob}]
    /\ phase \in [Slots -> Phases]
    /\ quanta \in [Slots -> 0 .. MaxQuanta]
    /\ tokens \in [Slots -> 0 .. MaxTokens]
    /\ repaired \in [Slots -> BOOLEAN]

TurnTypeOK ==
    /\ prefill_waiting \in [Slots -> BOOLEAN]
    /\ last_prefill_slot \in Slots
    /\ overtaken \in [Slots -> Nat]
    /\ model_busy \in BOOLEAN
    /\ model_asleep \in SUBSET (Slots \cup {Decoder})

TokenTypeOK ==
    /\ slot_pending \in [Slots -> BOOLEAN]
    /\ in_flight \in [Slots -> BOOLEAN]
    /\ decode_done \in [Slots -> BOOLEAN]
    /\ decode_rc \in [Slots -> {"ok", "error"}]
    /\ decode_pending \in Int
    /\ active_generations \in Nat
    /\ decoder \in DecoderPCs

StopTypeOK ==
    /\ model_stopping \in BOOLEAN
    /\ main \in MainPCs
    /\ g_stop_requested \in BOOLEAN

\* Every variable has its type; the counts of connections and of generations
\* never go below zero, and no worker evaluates more tokens than its budget.
TypeOK ==
    /\ JobTypeOK /\ QueueTypeOK /\ BindTypeOK /\ WorkerTypeOK
    /\ TurnTypeOK /\ TokenTypeOK /\ StopTypeOK

-----------------------------------------------------------------------------
(* Safety.                                                                 *)

\* The client waits for an unfinished job that it has not taken back.
Outstanding(j) == client[j] \in {"waiting", "detach", "withdraw"} /\ ~done[j]

\* The places that can hold a pointer to a job.
Places == {<<"list", NoSlot>>} \cup ({"assigned", "worker"} \X Slots)

Holds(p, j) == \/ p[1] = "list" /\ j \in queue
               \/ p[1] = "assigned" /\ assigned[p[2]] = j
               \/ p[1] = "worker" /\ current[p[2]] = j

\* Ownership of the stack-allocated struct job: while it is outstanding exactly
\* one of the list, an assignment and a worker holds it; when it is done or
\* taken back nobody does, so that its client may destroy it (the comment at
\* struct job).
JobOwnership ==
    \A j \in Jobs :
        IF Outstanding(j)
        THEN \E p \in Places : \A q \in Places : Holds(q, j) <=> q = p
        ELSE \A q \in Places : ~Holds(q, j)

\* A slot that is not busy is untouched: no assignment, no worker between its
\* job and the refresh of the text cache.  The router reads the session, the
\* text cache and the time stamp of such slots without the executor.
FreeSlotIsIdle ==
    \A s \in Slots :
        busy[s] <=> assigned[s] # NoJob \/ worker[s] \in HoldingPCs \cup {"refresh"}

\* One user of the model at a time, and model_busy is set exactly while there is
\* one.
ModelExclusive ==
    /\ \A s, t \in Slots : worker[s] = "prefill" /\ worker[t] = "prefill" => s = t
    /\ decoder = "batch" => \A s \in Slots : worker[s] # "prefill"
    /\ model_busy <=> decoder = "batch" \/ \E s \in Slots : worker[s] = "prefill"

\* The counters the scheduler decides by agree with the slots: decode_pending
\* with the per-slot flags, active_generations with the workers in the bracket.
CountersExact ==
    /\ decode_pending = Cardinality({s \in Slots : slot_pending[s]})
    /\ active_generations = Cardinality({s \in Slots : Generating(s)})

\* A slot has at most one token with the coordinator, and its worker waits for
\* it: a session that a batch evaluates is not touched by its worker, whatever
\* cancellation or shutdown does meanwhile.
OneTokenPerSlot ==
    \A s \in Slots :
        /\ worker[s] = "eval" <=> slot_pending[s] \/ in_flight[s] \/ decode_done[s]
        /\ slot_pending[s] => ~in_flight[s] /\ ~decode_done[s]
        /\ in_flight[s] => ~decode_done[s] /\ decoder = "batch"

\* A continuation that still has its live binding runs on the slot that holds
\* it and on no other.
RunsWhereBound ==
    \A s \in Slots, j \in Jobs :
        /\ assigned[s] = j => bound[j] \in {s, NoSlot}
        /\ current[s] = j  => bound[j] \in {s, NoSlot}

\* A queued job waits only while no free slot may take it.  The one exception
\* is a job whose live binding was lost while it was queued: it is looked at
\* again when the slot that lost the binding becomes free.
WorkConserving ==
    LET free == {s \in Slots : ~busy[s]}
    IN  \A j \in queue :
            \/ Eligible(j, free) = {}
            \/ home[j] # bound[j] /\ busy[home[j]]

\* No thread sleeps on a condition variable while it could go on, but for the
\* two cases in which nobody holds the mutex when the condition changes: the
\* signal handler, which broadcasts nothing, and a cancellation that has marked
\* the job and will broadcast in its second or third critical section.
NoLostWakeup ==
    /\ \A s \in idle_asleep : assigned[s] = NoJob /\ (~stopping \/ queue # {})
    /\ \A s \in model_asleep \cap Slots :
          \/ worker[s] = "turn" /\ ~Interrupted(s) /\ MustWaitForTurn(s)
          \/ /\ worker[s] = "eval" /\ ~decode_done[s]
             /\ ~(Interrupted(s) /\ CanWithdraw(s))
          \/ g_stop_requested
          \/ client[current[s]] \in {"detach", "withdraw"}
    /\ Decoder \in model_asleep =>
          \/ decoder = "top" /\ decode_pending = 0 /\ ~model_stopping
          \/ decoder = "busy_wait" /\ model_busy

\* Round robin: a waiting slot sees at most SlotCount - 1 turns of others.
BoundedOvertaking ==
    \A s \in Slots : overtaken[s] <= SlotCount - 1

\* The coordinator leaves only when no worker can post a token any more, and
\* the server is closed, its sessions persisted and freed, only when no thread
\* uses them and every client thread that was started is gone.
ShutdownOrder ==
    /\ decoder = "exited" => \A s \in Slots : worker[s] = "exited"
    /\ main = "closed" =>
          /\ decoder = "exited" /\ queue = {}
          /\ \A s \in Slots : worker[s] = "exited" /\ ~busy[s]
          /\ \A j \in Jobs : client[j] \in {"none", "gone"}

\* A prefill quantum never starts in front of a token that waits for a batch.
NoPrefillOverToken ==
    [][(\E s \in Slots : worker[s] = "turn" /\ worker'[s] = "prefill")
         => \A t \in Slots : ~slot_pending'[t]]_vars

-----------------------------------------------------------------------------
(* Liveness.                                                               *)

\* Every connection is answered and its thread ends, whatever is cancelled and
\* whether or not the server stops.
EveryRequestEnds == \A j \in Jobs : client[j] = "enqueue" ~> client[j] = "gone"

\* A stop request ends the process in order: workers, coordinator, clients.
ShutdownCompletes == g_stop_requested ~> main = "closed"

-----------------------------------------------------------------------------
(* The scheduler implements JobService.                                    *)

\* A worker has taken the job.
Served(j) == \E s \in Slots : current[s] = j

\* A job is answered when it is done, or when its client has taken it back.
StatusOf(j) ==
    CASE client[j] \in {"none", "enqueue"} -> "new"
      [] client[j] \in {"leaving", "gone"} -> "gone"
      [] Outstanding(j) /\ Served(j) -> "served"
      [] Outstanding(j) /\ ~Served(j) -> "accepted"
      [] OTHER -> "answered"

Service == INSTANCE JobService WITH
             status  <- [j \in Jobs |-> StatusOf(j)],
             serving <- current

\* Every step of the scheduler is a step of JobService or changes nothing there.
ImplementsService == Service!Spec

\* And it forgets no accepted job.
ImplementsFairService == Service!FairSpec
=============================================================================
