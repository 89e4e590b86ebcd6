# Formal models of sf-q3-8flash

TLA+ specifications, TLC runs and TLAPS proofs for the inference server and engine in this
repository. The models are read from the C sources; line numbers in `PROJECT.json` ("map") say which
lines each definition stands for.

    tlasany M.tla                            parse a module
    tlc -workers 2 -config X.cfg M           check a run; PROJECT.json names M and X for each
    tlapm ServerSchedulerProofs.tla          check the proofs (and those of the other *Proofs modules)

1. Inventory  2. Modules  3. ServerScheduler  4. JobService  5. KvStore  6. QwenSession
7. LiveBindings and ToolMemory  8. Proofs  9. Findings  10. Remarks on the code  11. Limits

## 1. Inventory

The program serves one large language model (Qwen3.8, on Metal) to HTTP clients that speak the chat,
Responses or Anthropic API. Requests arrive concurrently; the model executor runs one thing at a
time; the state worth having (the KV cache of a conversation) is large, lives in a few resident
sessions and is moved to and from disk.

| Component | State it keeps | Operations | Talks to |
|---|---|---|---|
| Request scheduler (`ds4_server.c` 10763-10877, 11496-11720, 13054-13660, 14085-14350) | job list, slot assignment, prefill turn, pending tokens, counters, stop flags | enqueue, dispatch, take, prefill turn, post / collect / finish tokens, cancel, stop, join | clients (stack-allocated jobs), sessions, disk store |
| Disk checkpoints (`ds4_kvstore.c`; `ds4_server.c` 9752-9950, 11926-12158) | checkpoint files, temporary files, per-slot schedule of continued stores | store, rewrite trailer, evict, find, load, discard, open, persist at shutdown | sessions, tool memory, scheduler |
| Session (`ds4.c` 35294-35480, 41340-41530, 42120-42260, 44200-45137) | token history, validity, recurrent state, attention rows, logits, snapshots, drafts | sync, eval, speculative cycle, batch, rewind, invalidate, save, load | executor, disk store |
| Live bindings (`ds4_server.c` 8977-9147, 10013-10275, 11203-11285, 12852-12914) | per slot: call ids, visible transcript, position | remember, match, clear, probe for reuse | router, request execution, keys of checkpoints |
| Tool memory (`ds4_server.c` 8807-9258, 9424-9630) | id -> exact tool-call text, shared blocks with reference counts, LRU list | remember, attach to messages, prune, write to and read from checkpoint trailers | checkpoints, HTTP layer |
| Image cache (`ds4_server.c` 8569-8668) | embeddings, LRU with two limits | get, put, clear | request execution |
| HTTP, templates, streaming (`ds4_server.c` rest) | per request | parse, render, stream, track tool calls | all of the above |
| Tensor parallel, distributed (`ds4_tp.c`, `ds4_distributed.c`) | processes in lockstep, routes, queues | | refused when an engine is opened, see section 11 |
| SSD expert streaming (`ds4_ssd.c`, `ds4_metal.m`) | cached experts, clock, pins | plan, look up, load, evict | executor |
| Layer packing (`ds4_layer_pack.c`) | none | assign layers to devices | start-up |
| CLI, benchmark, evaluation (`ds4_cli.c`, `ds4_bench.c`, `ds4_eval.c`) | a session | front ends | session |
| Kernels, tokenizer, model files | weights | numeric and data code | session |
| `linenoise.c`, `rax.c`, `third_party/` | | vendored | |

What is hard, and what correctness means for each part:

* **Scheduler.** Client threads, one worker per slot, a decode coordinator and the main thread share
  two mutexes and two condition variables. A job is a variable on its client's stack, so a hang-up
  must not let the client return while a worker holds a pointer. Prefill and decode share one
  executor with two rules that pull against each other: tokens go first, prefills take turns.
  Correct means: a job is owned by exactly one party until it is done; one user of the model; the
  counters that everything waits on agree with the facts; no sleeper is forgotten; every request
  ends; a stop signal ends the process in order.
* **Disk checkpoints.** Stores run inside prefill callbacks, fail at every step, die in the middle,
  and two slots evict and delete each other's files. Correct means: a request is answered from its
  own prompt, a conversation is persisted before it is replaced, the budget holds, nothing leaks.
* **Session.** The recurrent state of the model cannot be rolled back, yet speculative decoding runs
  ahead and a caller may rewind. Correct means: whatever was accepted, rejected, interrupted or
  failed, a valid session has the state, the rows and the logits of just its history.
* **Live bindings.** What a client sends back is not what the model has seen. Correct means: hidden
  state continues only the conversation it belongs to, and a conversation finds its state again.
* **Tool memory.** Client threads and workers put, attach, persist and restore the texts of tool calls.
  Correct means: the exact text comes back for an id or none does, shared blocks live as long as an id
  of them, what is forgotten is what was used least recently, and a map on disk belongs to its checkpoint.
* **Expert streaming.** An expert in use by a queued kernel must not be replaced.

The complete hazard list, each at its line and with the properties that would notice, is
`PROJECT.json` "hazards". Components and their status are in "components".

## 2. Modules

| Module | Is | Runs | Proofs in |
|---|---|---|---|
| `ServerScheduler` | the scheduler, one action per critical section | sched_safety, sched_service, sched_stop | `ServerSchedulerProofs`, `...QueueProofs`, `...WakeProofs` |
| `JobService` | what a client relies on: the abstract specification the scheduler implements | with sched_safety and sched_service | `ServerSchedulerQueueProofs` |
| `KvStore` | the checkpoint directory and its schedule, with crashes | kv_slots, kv_restart, kv_discard | `KvStoreProofs` |
| `QwenSession` | one session: history, graph, snapshots | session_safety, session_deep | `QwenSessionProofs` |
| `LiveBindings` | how a request finds the state it continues from | live_bindings, live_turn_end | `LiveBindingsProofs` |
| `ToolMemory` | the texts of tool calls, in memory and in the maps of checkpoints | tool_replay, tool_torn | `ToolMemoryProofs` |

`MC...` modules give the constants of the runs. The layers meet at what each takes of the one below:
`ServerScheduler` runs a request as syncs and tokens that may fail; `KvStore` and `LiveBindings` take a
request apart into what happens to session, disk and bindings, and rely on what `QwenSession` shows,
that a valid session is what its history says; `LiveBindings` relies on `KvStore` in that a checkpoint
gives back what was stored, and on `ToolMemory` in that a call sent back as JSON is rendered as the model
wrote it; `KvStore` has the size of the map that `ToolMemory` writes at the end of a checkpoint.

Conventions. A definition `Op_What` is a slip that a programmer could make in `Op` (a dropped guard, a
forgotten reset); nothing uses it, and each property has one that breaks it. Parameters marked
"bound" in a CONSTANTS section limit the instance and have no counterpart in the code. Names follow
the code where TLA+ allows.

## 3. ServerScheduler

`ServerScheduler.tla`.

One action per critical section or per step between two. Program counters: `client[j]` for the thread
of a connection (`client_main`, `wait_for_job_or_disconnect`, `server_cancel_job`), `worker[s]` for
`slot_worker_main` and `generate_job`, `decoder` for the coordinator, `main` for the shutdown sequence.
`server.mu` protects queue, assignment and `clients`; `model_mu` protects turns, tokens and counters.
The list `head .. tail` is the set `queue` with, for each job, the set `ahead` of it: order without
sequence surgery. Routing (`dispatch_jobs_locked`) is `Dispatch`: every assignment that the loop can
produce for some scores, because the scores depend on prompts the model does not have. Both condition
variables are sets of sleepers that only a broadcast empties; a sleeper takes no step. So a missing
broadcast is visible. The signal handler sets a flag and broadcasts nothing, as in the code.

What a request does is abstract: `quanta` chunks per sync, `tokens` per generation, both chosen
nondeterministically up to `MaxQuanta` and `MaxTokens`; `Detours` allows the further syncs within a
request (rewind, tool-call repair during or after the generation, canonicalization). Any sync, eval
or write to a client may fail.

Properties: `JobOwnership`, `FreeSlotIsIdle`, `ModelExclusive`, `CountersExact`, `OneTokenPerSlot`,
`RunsWhereBound`, `WorkConserving`, `NoLostWakeup`, `BoundedOvertaking`, `ShutdownOrder`, the action
property `NoPrefillOverToken`, and under fairness `EveryRequestEnds` and `ShutdownCompletes`.

`NoLostWakeup` has two exceptions that the code really has: after the signal handler, and between the
moment a hang-up is noticed and the broadcast of the same thread. That nobody stays asleep because of
them is `EveryRequestEnds` and `ShutdownCompletes`.

| Run | Instance | Shows |
|---|---|---|
| sched_safety | 2 jobs, 2 slots, hang-ups, bindings, rewinds within a generation, both kinds of repair | all safety properties but `ShutdownOrder`, tokens first, implements the safety of JobService |
| sched_service | 2 jobs, 2 slots, 2 quanta, a client that may hang up, fair | every request ends, and JobService with its liveness: both compete for prefill and decode and both are answered |
| sched_stop | 2 jobs, 2 slots, tokens, canonicalization and a stop signal, fair | the order of the shutdown, and that it completes |

Why these bounds are enough to be interesting: two slots are the least that contend for the model and
for a batch, and two syncs of one request, or two quanta of one sync, the least with which a slot could
keep taking the model back. Two requests queue when the second is bound to the slot of the first. One
token per generation already goes through post, coalesce, collect and finish, and each job runs many
interleavings of that against cancellation. The detours are spread over the runs, each where it meets
what could disturb it (a rewind or a repair with a hang-up, canonicalization with a stop). Every safety
property of this module is also proved for any number of jobs, slots, quanta and tokens (section 8);
the runs are the check that the properties, their mutants and the actions are what they should be.

Fairness. `FairSpec` asks weak fairness of each thread: a thread that stays able to step steps. That is
what a preemptive scheduler gives; critical sections are short and single actions, so no strong
fairness is needed for mutexes. Connections, hang-ups and signals have no fairness: they may never
come. Sleepers are not able to step, so fairness does not wake them.

## 4. JobService

What a client relies on, without queue, locks or cancellation: a job that was accepted is served at
most once, by one slot that serves nothing else meanwhile, is answered in the end, and only then
destroyed. `ServerScheduler` instantiates it with a refinement mapping from program counters to
statuses. `ImplementsService` is the safety part, `ImplementsFairService` includes that no accepted job
is forgotten.

## 5. KvStore

`KvStore.tla`. Code: `ds4_kvstore.c` and what `generate_job_inner` and `main` do with it.

State: `files`, the checkpoints in the directory by their text, each with the size of its tool map and
the context size of its writer; `debris`, temporary files with the run that made them; per slot the
session (`tokens`, `valid`), the schedule `last` (`continued_last_store_tokens`) and the locals of
`generate_job_inner`; `op`, the store under way. `inference_mu` and `kv_mu` are one lock that `op`
stands for: whoever takes `kv_mu` for more than an unlink holds `inference_mu` too. A store is several
actions, because the process can die between them and the tool map, under another lock, changes:
check -> (rewrite the trailer in place | replace an incompatible file) -> stage -> evict one file at a
time -> create the temporary file -> publish by rename, or clean up.

A request (`Begin` ... `Finish`) follows the code: continue in memory if the session is a prefix of the
prompt; otherwise persist the conversation, look up the longest usable checkpoint, load it (or fail in
one of three ways), plan the cold checkpoint and suppress a continued one at the same frontier, sync
in chunks with the callback's stores, write the cold checkpoint, generate with continued stores.
`Discard` is what a failed or cancelled sync does to the checkpoint it came from.

An answer ends in one of these ways. `Finish`: it is complete, the client is gone or the context full, and
the session stays. `StopSequence`: the session has read past the text the client wants and is invalidated,
so that it has no tokens (`Invalidate`). `EvalFails`: an evaluation of its own leaves the tokens and makes
them invalid, one in a batch empties the session (the other slots of the batch take the step as
well). `RewindWithout`: the answer ends inside a verified block whose end has no snapshot; the tokens are
kept, `rewound` is set, and the session has no payload (`HasPayload`) until the next sync or evaluation.
`Canonicalize`: the answer is a tool call that the next request will spell differently; the session is
synced to that, from where it is, from a checkpoint or from nothing (`rebuild`), and ends by `Finish` or
`EvalFails`. None of these stores the session first; a continued checkpoint may have been written on
the way.

Abstractions: text and payload coincide (a text is the sequence of its tokens; no visible-transcript
keys); one model and quantization; a payload weighs one unit per token, a tool map what `map` says,
headers nothing; the victim of an eviction is any file, since the score depends on the clock; the chat
anchor is any position that the prompt could have it at; damaged files appear only as failing loads.
`Faults` says what may go wrong: writes, unlinks, loads, the model (a sync or an evaluation fails), a crash
at any step, a client that hangs up during the last chunk. Interruption of a sync between chunks is always
possible. Simplified: the message that tells the model that its call is broken is taken
for further tokens (`Generate`), so that its sync does not fail halfway; a rebuild that goes on from the live tokens
is counted as done, since it reports no progress and so stores nothing.

Properties: `AnswersThePrompt`, `ScheduleHonest`, `NoDuplicateFrontier`, `PayloadsWithinBudget`,
`OneLeftoverPerRun`, under fairness `StoresEnd`, and the action property `ConversationKept`: a conversation
that could be stored leaves memory only when a checkpoint of it is on disk that this server can use. That
is the promise of the comment at `src/ds4_server.c:11942`, and it is about one slot whose checkpoint fits and
is written. The code does not keep it everywhere, and the property names where it does not:

1. a crash;
2. the discard of a failed restore (`Discard`);
3. a failed evaluation, of the prompt that continues the conversation or of a token of the answer;
4. the end of an answer at a stop sequence, or within a block without a snapshot;
5. the rebuild of a tool call.

What remains is what the comment is about: no request replaces the conversation of another, through
lookup, load, failed loads, chunks, interruptions, cold and continued stores, evictions and shutdown,
unless it is on disk. The conversation after case 4 without a snapshot is the one of section 10.

| Run | Instance | Shows |
|---|---|---|
| kv_slots | 2 slots, a short conversation and one that branches from it, room for two checkpoints of the shortest kind, a tool map that comes and goes, failing writes and loads, crashes, one run of the process, fair | `AnswersThePrompt` when slots evict and discard each other's files, `ScheduleHonest` and `NoDuplicateFrontier` when cold and continued checkpoints fall together, `PayloadsWithinBudget`, `OneLeftoverPerRun` and `StoresEnd` when the map outgrows the estimate and writes fail |
| kv_restart | 1 slot, 2 runs of the process with two context sizes, prompts that grow, failing loads, evaluations and unlinks, crashes, hang-ups, room for any conversation | `ConversationKept` |
| kv_discard | 2 slots on the same prompts | a violation, section 9 |

Bounds: texts of up to five tokens over two words with a minimum of two, an interval and an alignment of
two give prompts at a frontier, past one and above the cold limit, and pairs that share a prefix; one
prompt ends on a frontier, so that its cold checkpoint is pending when the prefill ends, the other passes
it. In kv_slots a budget of four holds two of the shortest files or one longer, so that nearly every
store evicts, and a map of one unit makes the file of a longest text too large, also after it has been
staged. In kv_restart any conversation fits with another, since one that does not fit cannot be kept, and
stores still evict. Two runs of the process suffice for anything a predecessor can leave behind.

The runs divide the faults, because all of them with two slots are too many states. kv_slots has one run of
the process, no failing evaluations and no files that cannot be removed: there a restart, another context
size and failures of the model are covered for its invariants by the theorems of section 8, which
hold for every set of faults but for the provisions named there. `StoresEnd` cannot be proved; it is
checked without files that cannot be removed, at the first of which the pass ends (`PassOver`).

Fairness: only of the thread that holds the lock; a disk that hangs for ever is not considered.

`PayloadsWithinBudget` speaks of payloads, not of files, because a trailer that is rewritten in place
grows its file without a budget pass: the bound that holds is budget plus tool maps.

## 6. QwenSession

`QwenSession.tla`: one text session of the Qwen path. A tensor is represented by the token history it was
computed from: `rec`, the recurrent state; `kv`, the attention rows below `pos`; `logits`; `snap`, the three
snapshots a verify takes on the way, and `rows`, the logits rows that go with them. `Wrong` stands for the
content of a tensor that no history explains. `checkpoint` and `valid` are what callers see.

A call is several steps where something can come between: a sync evaluates chunk by chunk, may be
cancelled or fail between them, and calls back into the server, which may save the session; a replay
after a rewind is a sync of the history. A speculative cycle is one action per outcome: the rows are
evaluated, the draft is accepted whole, partly or not, and history, rows, state and snapshots are put
where the code puts them (with the swap of state buffers, the default). Batches move the sessions of several
slots together; here the session is one of them. A failed pass leaves the worst it can.

Properties: `SoundState` (a valid session has the state and rows of its history, or is reset and waits),
`SoundLogits` (its logits are those after its history, but for a session just rewound), `SavedSound` (a
payload is one session), `SnapshotsBelong` (a snapshot that a rewind may choose is of the history).

| Run | Instance | Shows |
|---|---|---|
| session_safety | 2 tokens, context 5, chunks of 2, drafts of two tokens, exact sampling, no rewind to a leftover snapshot | all five invariants |
| session_deep | context 4, rewinds to leftover snapshots too | a violation, section 9 |

Bounds: a context of five holds a prompt of one or two chunks, a verify of three rows and a rewind to each
of the snapshots; two tokens are the least with which histories differ, and they are symmetric. No
fairness is needed: the properties are safety.

## 7. LiveBindings and ToolMemory

`LiveBindings.tla`. Per slot the three bindings (`responses`, `anthropic`, `thinking`: text, call id, position),
the session as a list of items (a message, reasoning, an answer, a call, an end marker), the turn under
way; per client what it knows of its conversation, which lacks the reasoning unless it sends it
back; the checkpoints by key. An answer may be sampled in a spelling that the tokenizer would not choose,
so that text and tokens differ. `of` in a binding is the session it was made for; nothing reads it but the properties and the guard that
`Coincide` switches.

`Ask` is the parser: the history, or only a call's output where its id is known. `Reuse` is the ladder of
`slot_probe_reuse_locked`, `Effective` what the request is given on each rung; `StartCold` persists and
looks on disk; `PrefillFails`, `PrefillCancelled`, `PrefillStopped`, `PrefillDone` are the exits of the sync
with what each does to bindings, session and file; `TurnEnds`, `StopSequence`, `CutShort`, `TurnLost` those of
the generation, with what is remembered; `Stop`, `Persist`, `Restart` the end of the process, or a crash.

Properties: `AnswersTheChat` (whatever is continued, the model is given the client's conversation),
`BindingsHonest` (a binding that matches was made for this session), `KeysHonest` (a checkpoint is stored
under what was said in it), `ContinuesLive` (the last turn of a client that leaves its reasoning out is not
prefilled again while a slot's session still is what it left; an older turn may be, when the conversation
has since moved to another slot), and `TurnsAreClosed`, which is violated.

| Run | Instance | Shows |
|---|---|---|
| live_bindings | a Responses client and one of the chat API that leaves its reasoning out; a Responses client and one of Anthropic that sends it back; or one of either other API. One slot, context 6, one checkpoint | all but TurnsAreClosed |
| live_turn_end | as live_bindings | a violation, section 9 |

Bounds: one slot, since bindings of different slots meet only in routing (`Bound`) and on disk; one
message, one result and one call, since conversations differ by length and shape already, and with
one call a second session with the same text is likely rather than rare. In context 6 a second turn
continues past reasoning the client does not see and completes, and a third outgrows the context. Between
the three pairs each protocol meets both others, and each way to treat reasoning occurs. Room for one checkpoint makes
every store evict. All bindings are deleted by a restart; the disk is not.

`ToolMemory.tla`. Code: `ds4_server.c` 8807-9258 and 9424-9630, `ds4_kvstore.c` 880-925.

State: `mem` is the memory itself (`entry`, the text of each id; `newer`, for each id the ids nearer the head of
the list, which is the recency list as `ahead` is the queue of the scheduler; the counts of the shared blocks;
the two counters that the limits are tested with); `puts`, what the holder of `tool_mu` has still to put;
`files`, the maps in the checkpoints; `store`, the checkpoint being written; `reader`, the client
threads and the worker that read maps. Two ghosts: `truth`, the text an id was made with, and `since`, the
ids used after an id, counted from outside the memory.

`Remember` and `PutNext` are the end of a turn, `Prune` one pass of the loop; `Rewrite`, `Create`, `BeginMap`,
`WriteRecord`, `CloseFile`, `StoreFails`, `Unlink` what a store does, of which the choice of the ids and their
writing hold `tool_mu` and the rest does not; `Ask`, `NextFile`, `Load`, `ReadId`, `ReadText`, `PutRead` the
reading, with the two reads of a record apart because a rewrite may come between; `Attach` and `Rendered`
the replay; `Restart` loses all but the files. `Overlap` says whether a map may be rewritten under a
reader: in the code it may.

Abstracted: the order of the records in a map, the source flag of an entry (it is logged), payloads and the
budget (KvStore). A checkpoint is known by its text; the texts of calls that are found in it are a constant,
which is where the limits of the search for them enter (section 10).

Properties: `SharingExact` (blocks and their counts are those of the entries), `BytesExact` (the byte counter is
the true size), `MostRecentKept` (what is forgotten does not fit together with what was used later),
`MapsHonest` (a map has the calls of its checkpoint, each with its own text), `ExactOrNothing` (a message is
replayed with the text the model made all its calls with, or not from memory).

| Run | Instance | Shows |
|---|---|---|
| tool_replay | a client and the loader, 3 calls, turns of two, 3 texts one of which is longer, room for two entries or five bytes, one checkpoint, no overlap | the type invariant and all five properties |
| tool_torn | texts of one size, maps may be rewritten under a reader | a violation, section 9 |

Bounds: three calls are one more than the memory holds; a turn of two makes ids that share a text, and an
entry with the longer text leaves room for an entry only if it shares it, so that each limit prunes alone and
both prune together. Two of the texts are found in the checkpoint and one is not. The histories name one
call, two of one message, and one of each of two. With one client and the loader, any restore meets a
load, a turn, a store or an eviction at every step; a second client would do as the first.

## 8. Proofs

`ServerSchedulerProofs.tla`, for every number of jobs and slots and every bound on the work of a
request; the only assumption is `SchedulerAssumption` on the constants (at least one slot, at least one
quantum, `NoJob` is not a job), which TLC evaluates in every run.

* `TypeCorrect`: `Spec => []TypeOK`. `TypeOK` alone is not inductive: a worker that returns from a token
  lowers its budget, which must not have been zero. `EvalHasBudget` (a worker that waits for a token
  has budget left) makes it so. One lemma per group of variables, one step per action that touches it;
  `DispatchType` says what the router does to the types.
* `ModelHasOneUser`: `Spec => []ModelExclusive`, inductive relative to the types: the three steps that
  take the model need `model_busy = FALSE` and set it, the two that release it are its users.
* `TokensAreExclusive`: `Spec => []OneTokenPerSlot`. The case that matters is a withdrawal by the client,
  the worker or the stop of a token that a batch may own.
* `TurnsAreFair`: `Spec => []BoundedOvertaking`. The bound follows from `TurnInv`: turns already lost plus
  the distance to the last turn stay below the number of slots; each grant to another moves the last
  turn nearer by at least one (`GrantComesNearer`).

Two more rest on the types and on `OneTokenPerSlot`, and on the library's facts about cardinalities, since
the counters are compared with the sizes of sets of slots.

* `CountersAreExact`: `Spec => []CountersExact`. Whether a slot is generating depends on the worker's program
  counter and, inside a sync, on the reason of that sync: a rewind is a sync within a generation.
  So `CounterInv` adds that a worker outside a sync has the reason "prompt". One lemma says that what a
  step adds to or takes from a set of slots is what it adds to or takes from the counter.
* `TokensGoFirst`: `Spec => NoPrefillOverToken`, an action property. The code tests the counter, the property
  speaks of the tokens: it follows because the counter is exact.

`ServerSchedulerQueueProofs.tla` rests on the types.

* `FreeSlotsAreIdle`: `Spec => []FreeSlotIsIdle`. `SlotInv` adds that an assignment waits only for a worker
  without a job; otherwise a worker that frees its slot could free one already assigned again.
* `JobsHaveOneOwner`: `Spec => []JobOwnership`. `OwnerInv` states it over sets (`Owners`), since the router moves
  several jobs in one step, and adds what the router and the workers rely on: the list is in order (two
  jobs at its head would go to two slots), a job is not done before it is queued, and a worker has a job
  exactly at the steps where its counter says so. `DispatchJobs` says what the router does to all owners.
* `ContinuationsRunWhereBound`: `Spec => []RunsWhereBound`, and `QueueConservesWork`: `Spec => []WorkConserving`.
  `RouteInv` adds that the binding of a job may be lost but never moves to another slot, and that what is
  ahead of a queued job is on the list.
* `SchedulerImplementsService`: `Spec => ImplementsService`, from the ownership. Each step changes the
  status of at most one job: taking a job is `Serve` of JobService, completing it is its answer, a client's
  withdrawal is an answer without service, everything else is a stutter. Ownership is what makes
  completing a job by one worker leave no other that serves it.

`ServerSchedulerWakeProofs.tla` rests on all of these.

* `NoWakeupIsLost`: `Spec => []NoLostWakeup`. The three wait loops are kept apart (`IdleSleepsWell`,
  `SleepsWell`, `DecoderSleepsWell`); for each, a step either leaves its condition as it was or wakes
  everybody. `DispatchWakes` says so of the router, `SleepFrame` of the steps that touch no condition.
* `ShutdownIsOrdered`: `Spec => []ShutdownOrder`. `StopInv` counts the connections (`ClientsCounted`), says that
  after the stop none comes any more, and which threads are gone at each step of `main`.

Each follows the same scheme: the initial state satisfies the invariant, a step preserves it, and the
last step combines both with temporal logic.

`KvStoreProofs.tla`, for every number of slots, set of prompts, budget, schedule and number of runs, under
`KvAssumption` (prompts are not empty, limits are natural numbers). One inductive invariant (`IInv`)
serves all but the last theorem. What makes it inductive is that a store is described by what it has
checked and where its slot goes on (`OpOK`), and a slot by the place it is at or will go on from
(`Place`), so that a store in between changes nothing that the slot relies on.

* `TypeCorrect`, `PromptAnswered`, `NoDuplicate`, `OneLeftover`: `Spec => []...` of `TypeOK`, `AnswersThePrompt`,
  `NoDuplicateFrontier` and `OneLeftoverPerRun`. No length outgrows the context, although the context may
  be another after a restart: a checkpoint is only loaded if it is of a context that is not larger.
* `ScheduleIsHonest`: `"hangup" \notin Faults => (Spec => []ScheduleHonest)`. Only a cold checkpoint that is
  pending, or being written, lets the schedule be ahead of what is stored (`Schedule`), and a late hang-up is
  what leaves neither; see section 10.
* `WithinBudget`: `"unlink" \notin Faults => (Spec => []PayloadsWithinBudget)`. A pass ends even
  if a file could not be removed, and the store goes on, so that without this provision nothing bounds the sum.
* `ConversationIsKept`: `Roomy => (Spec => ConversationKept)`, an action property. `Roomy` says that there is one
  slot, that writes succeed, and that the longest conversation with the largest tool map fits the budget;
  with a second slot it is false (the finding on another slot's only copy, section 9), and without the
  others a conversation cannot be kept. `KInv` adds that a session is saved from when it is to be replaced until the prompt has
  replaced it (`Keeping`), and that `rewound` is a truth value (`RewoundTyped`). The five cases that the property
  excepts (section 5) are not in its provisions: they may happen any number of times before and after.

`QwenSessionProofs.tla`, for every vocabulary, context length, chunk and set of prompts, under
`SessionAssumption` and `Sheltered`: no rewind lands on a leftover snapshot, or drafts have one token (then
there is no leftover). Without it `SoundState` is false, see the first finding.

* `SessionTyped`, `StateSound`, `LogitsSound`, `PayloadSound`, `SnapshotsKept`: `Sheltered => (Spec => []...)`
  of the five invariants of session_safety, from one inductive invariant. The properties speak of
  a session at rest; what makes them inductive is what holds within a call: the graph is at the
  transcript with all of its rows, or was reset by a rewind and waits for its replay (`InPlace`,
  `Waiting`); each snapshot of the current block is of the transcript (`Belong`), with the logits that go
  with it (`Matching`); a chunk or a row under way extends what is there (`Underway`); without a draft there
  is nothing ahead (`Undrafted`). With drafts of one token (`Shallow`) the second snapshot is never taken.
  The lemmas on prefixes at the top carry all of it.

`LiveBindingsProofs.tla`, for every set of slots, clients and protocols and every context length, under
`BindingsAssumption`.

* `BindingsTyped`: `Spec => []TypeOK`. What a slot works on is the request of a client that still waits, and
  no other slot works on it (`Owned`); otherwise the end of one job would take the request from
  under another.
* `BindingsAreHonest`: `~Coincide => (Spec => []BindingsHonest)`. A binding is matched by position alone
  (`AtFrontier`), and a prefill that fails leaves the bindings next to a session that has moved. The
  invariant (`Sound`) says why no position is mistaken: a slot has one binding at most (`Single`); a
  prefill that outgrows the context can only be one that continues from that binding (`Outgrown`,
  `OutgrownStart`), so it begins with the session the binding is of and any later frontier is longer;
  and only a Responses client works while a Responses binding stands (`OfItsClient`), without which the
  end of another client's turn would leave two. `Coincide` is what the code leaves to chance: a stop
  signal may interrupt a prefill at the position of a binding to another session.
* `ChatAnswered`, `KeysAreHonest`, `LiveIsContinued`: `~Coincide => (Spec => []...)` of `AnswersTheChat`, `KeysHonest`
  and `ContinuesLive`, from `Sound` and a second invariant, `Conversing`. It compares everything by what is
  said in it (`Said`: the text without spelling, reasoning and end markers). A key or the text of a binding says what
  the tokens it belongs to say, or the last part of it if it begins with a tool's output (`Stands`); an id
  leads from a conversation to its own session only, because no id is given out twice (`IdIsHonest`); a
  binding is older than the end of its client's conversation or is to it (`OldOrLast`); and what a slot is
  given says what the client means (`Working`). The theory of `Said` at the top is the part that took
  induction: that leaving out items goes through concatenations. `ItemsAssumption` says that the marks
  around an item tell what it is, so that a message is never taken for a call.
  TLC has one slot in live_bindings; the theorems have any number, where a conversation may move from slot
  to slot.

`ToolMemoryProofs.tla`, for every set of clients and checkpoints, every size of the texts and every limit, under
`ToolMemoryAssumption`.

* `TypeCorrect`: `Spec => []TypeOK`, and `SharingCorrect`: `Spec => []SharingExact`. `Sound` says both of any memory;
  `RemoveSound`, `InsertSound` and `PutSound` say that the operations keep it, counting the users of a
  block one more or one less.
* `MapsCorrect`: `~Overlap => (Spec => []MapsHonest)`, and `ReplayCorrect`: `~Overlap => (Spec => []ExactOrNothing)`.
  Wherever a text stands next to an id (in the memory, in what is still to be put, in a map on disk, being
  written or unlinked, in the hands of a reader) it is the text of that id (`Right`). What a writer has
  still to write stays in the memory, since it holds the lock (`StoreOK`); a reader between the id and the
  text of a record stands at that record (`ReaderOK`). This last part is what an overlap breaks, and the
  only place where `~Overlap` is needed.
* `BytesCorrect`: `Spec => []BytesExact`. A block is counted with its first id and taken off with its last
  (`Weighed`), which needs the reference counts to be exact.
* `RecentCorrect`: `~Overlap => (Spec => []MostRecentKept)`. The list is an order (`Ordered`), the ids used after an
  entry are those ahead of it, and what was forgotten did not fit together with what was used later when it
  was forgotten; ids used since only add to that, as they keep their texts (`TooMuchGrows`, `SinceOK`). That an id
  keeps its text is `Right`, hence the provision.

`SumProofs.tla` serves these three. It proves from its definition what the sum of a function over a finite set
is: nothing for the empty set, one value more for one element more. The prover has no induction over an operator, so the
lemmas take the least of a set of natural numbers, the size of a least counterexample (`LeastNat`, from the
well-foundedness of the order of the natural numbers). The facts about `Said` are had in the same way.

## 9. Findings

* **A leftover snapshot is taken for the transcript's** (session_deep). A verify of three rows takes a
  snapshot after its second row (`src/ds4.c:41378`). When the draft is rejected at its first token, the
  transcript goes another way and the snapshot keeps its position; a later rewind to this position
  restores it with a history it is not of. With `LeftoverRewinds = FALSE`, and with drafts of one
  token, all invariants hold. `PROJECT.json` quotes the lines.
* **A continued turn lacks its end marker** (live_turn_end). The visible text a turn is remembered by ends
  with `<|im_end|>` (`src/ds4_server.c:11239`, 11193), but the stop token was sampled and never evaluated.
  A request that continues by this text is given what follows the text, so the model never sees the
  end of the assistant's turn. For tool turns of the chat API a comment at 11265 describes just this
  and leaves the marker out; continuing by call id evaluates it (3076).
* **A cancelled request deletes another slot's only copy** (kv_discard). A slot persists its
  conversation before replacing it (11942). If a second slot has loaded that very checkpoint and its
  prefill is cancelled, `kv_cache_discard_failed_disk_entry` (9882) unlinks the file; the first slot then
  misses it and replaces the session: the conversation is gone from memory and disk. It needs two
  slots on the same prompt, and a cancellation between the first slot's store and its lookup or load.
  With one slot `ConversationKept` holds (kv_restart).
* **A tool map is read while it is rewritten** (tool_torn). A client thread reads the maps of all checkpoints
  without `kv_mu` (`src/ds4_server.c:9588`); a worker that stores an existing checkpoint truncates its map and
  writes it again in place, in the order of the memory (`src/ds4_kvstore.c:888`). If the id of a record is
  read before and its text after, the id gets the text of another call, which is then replayed as the
  model's own. A comment at `src/ds4_server.c:8791` promises the sampled text. Without overlap
  `ExactOrNothing` holds (tool_replay, and proved).

## 10. Remarks on the code

Smaller things met while modelling; the models contain them, and the properties say where they stop.

* `src/ds4.h:539` says what a caller may expect of a rewind; `src/ds4.c:45114` keeps `checkpoint_valid` set
  with the logits of the longer history until the next evaluation replays. `SoundLogits` therefore
  excludes a session just rewound; nothing samples from it (`SavedSound`: nothing saves it).
  The branch of `server_generation_rewind` that rebuilds never runs for this model.
* A hang-up right after a prefill (`src/ds4_server.c:12126`) neither writes the cold checkpoint that was
  planned nor restores the schedule it suppressed, so one continued checkpoint is skipped.
  `ScheduleHonest` is therefore checked without late hang-ups; with "hangup" among the `Faults` of kv_slots
  it fails. kv_restart has them.
* A session that was rewound without a snapshot looks valid, but it has no payload until the next evaluation
  (`src/ds4.c:35022`, 35185). If the next request does not continue it, `kv_cache_store_current`
  stores nothing and the conversation is discarded, which the comment at `src/ds4_server.c:11942` means to
  rule out. `ConversationKept` therefore speaks of sessions that have a payload (`Alive`).
* A stop sequence of the client invalidates the session without storing it (`src/ds4_server.c:12557`), and so does
  a failed batch (11690) with every session in it: the next turn starts from the last checkpoint on disk, or cold.
* With `Coincide = TRUE`, `KeysHonest` and `BindingsHonest` fail: a stop signal may end a prefill midway with the
  bindings of the last turn kept (12116-12123), and the shutdown stores the session under their text
  (14344) if the position happens to be theirs.
* A binding made by a turn that was given a call's output alone has a visible text without the history. A
  client that replays all later is prefilled cold, and the checkpoint stored under that text is not
  found. `KeysHonest` is stated for suffixes, and `ContinuesLive` leaves this out.
* A client that sends reasoning back is prefilled cold after an answer in an unusual spelling, because the end
  marker is missing from the session's text. `ContinuesLive` leaves such clients out.
* A prompt that continues live may reach the context length by the reasoning that its client does not see;
  the sync then refuses it (`src/ds4.c:42139`, `src/ds4_server.c:9965`), and the request fails where a cold
  prefill would fit.
* The search for the calls in a checkpoint (`find_next_dsml_tool_block`) cuts a piece from exactly two
  newlines to the first end of a call. A block of several calls, after another separator, or with
  the end tag within a value is never found, so its ids live in memory only and are lost by a restart.
* A map that is rewritten has only the ids that are still in memory; older ones that it had are dropped, and
  a write that fails, or a crash, after the truncation loses all of them until the next store.
* Loading a checkpoint puts all ids of its map, wanted or not, and may push out ids that other
  conversations use; a restore for one request may push out what it restored before. `MostRecentKept` says
  what remains.
* A message is replayed by its whole block even if the client left out one of the block's calls.
* A new checkpoint is flagged as having a map by a measurement taken before the payload is written; the map
  may be empty by then. Readers take that for no map.

## 11. Limits

Only model-checked. Liveness (`EveryRequestEnds`, `ShutdownCompletes`, `StoresEnd`) and the refinement
to a fair specification, `ImplementsFairService`, which are out of the prover's reach. Every safety invariant
and action property of the passing runs is proved, under the provisions named in section 8.

Abstracted in what is modelled. The score of the router and that of evictions, which depend on lengths
and clocks: any choice is allowed. Headers of files, damaged payloads as a state of the disk. The
predictor's own cache, on which only drafts depend. Images: their keys gate the same ladder. The
canonicalization of tool calls where exact replay is switched off is in the scheduler as a sync within a
request and in KvStore as what it does to session and disk; the repair of broken calls is in the
scheduler as syncs and in KvStore as further tokens. LiveBindings has neither. A second stop signal calls `_exit(130)`; to everything
but memory that is the crash that the models have. The server mode without slots is the scheduler
with one slot and no coordinator. Model output is nondeterministic everywhere.

Not modelled, and why.

* Tensor parallel and distributed inference: opening an engine for the only model family of this
  build refuses both (`src/ds4.c:39336`, `docs/QWEN38_FLASH_NEXT.md:75`), so that no state of them is reachable.
* Image cache: a sequential structure of 100 lines under one mutex, which unit tests reach. What depends on
  it is the reuse ladder, by the keys of images; see above.
* SSD expert streaming: its ordering is that of GPU command buffers, which the C sources do not show.
* Layer packing: computed once, no state. Kernels, tokenizer, model files, HTTP parsing and rendering,
  command-line tools: their difficulty is in data, which the tests of the repository cover.
