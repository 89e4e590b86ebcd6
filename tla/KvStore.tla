------------------------------ MODULE KvStore ------------------------------
(***************************************************************************)
(* The disk checkpoints of ds4_kvstore.c and the way a slot of             *)
(* ds4_server.c uses them: the request looks up the longest checkpoint     *)
(* that is a prefix of its prompt, persists the conversation it is about   *)
(* to replace, writes a cold checkpoint on the way through the prompt and  *)
(* continued checkpoints at aligned frontiers, and on shutdown every       *)
(* resident conversation is written.                                       *)
(*                                                                         *)
(* inference_mu and kv_mu are one lock here, held by the slot that `op`    *)
(* names: whoever takes kv_mu for longer than an unlink holds inference_mu *)
(* too.  The steps of a store are separate actions because the process may *)
(* die between them, and because the tool map that goes into the trailer   *)
(* of a checkpoint belongs to tool_mu and changes at any time.             *)
(*                                                                         *)
(* Abstracted: a text is the sequence of its tokens, so text and payload   *)
(* of a checkpoint coincide (no visible-transcript keys); one model and    *)
(* one quantization; the victim of an eviction is any file (its score      *)
(* depends on the clock); a payload is one unit of bytes per token.        *)
(*                                                                         *)
(* A definition named Op_What is a slip in Op that the properties must     *)
(* catch; nothing refers to it.                                            *)
(***************************************************************************)
EXTENDS Integers, Sequences, FiniteSets, FiniteSetsExt, SequencesExt

CONSTANTS Slots,      \* resident sessions
          Words,      \* tokens
          Sampled,    \* bound: those the model samples
          Prompts,    \* bound: what clients ask
          MinTokens,  \* opt.min_tokens
          ColdMax,    \* opt.cold_max_tokens
          Interval,   \* opt.continued_interval_tokens
          Trim,       \* opt.boundary_trim_tokens
          Align,      \* opt.boundary_align_tokens
          Budget,     \* budget_bytes
          Contexts,   \* the context sizes the server may be started with
          MaxMap,     \* bound: bytes of the tool map
          MaxRuns,    \* bound: starts of the server
          Faults      \* bound: what may go wrong

ASSUME KvAssumption ==
    /\ Prompts \subseteq Seq(Words) \ {<<>>} /\ Sampled \subseteq Words
    /\ {MinTokens, Interval, Budget, MaxRuns} \subseteq Nat \ {0}
    /\ {ColdMax, Trim, Align, MaxMap} \subseteq Nat
    /\ Contexts \subseteq Nat \ {0}
    /\ Faults \subseteq {"write", "unlink", "load", "model", "crash", "hangup"}

NoText == <<>>
NoOp   == [stage |-> "none"]

VARIABLES
    files,       \* the checkpoints in the directory, by their text
    debris,      \* temporary files in the directory: text and run
    phase,       \* of the process
    run,         \* how often it was started
    ctx,         \* its context size
    map,         \* bytes of the tool map that a trailer would hold now
    op,          \* the store under way, in the slot that holds the lock
    tokens,      \* the token history of the session of a slot
    valid,       \* checkpoint_valid
    rewound,     \* qwen4_rewound: the tokens are kept without the state of the model
    last,        \* server_slot.continued_last_store_tokens
    pc,          \* where the worker of a slot is
    asked,       \* the prompt of its request, or the turn as it is rebuilt
    prompt,      \* what the session is synced to: prompt_for_sync, or the same
    cached,      \* tokens of it that were reused
    loaded,      \* disk_cache_path, as the text of that checkpoint
    cold,        \* cold_store_len
    suppressed,  \* suppressed_continued_last
    written      \* history: longest frontier a cold or continued store has
                 \*   covered since last = 0

diskVars    == <<files, debris>>
processVars == <<phase, run, ctx, map>>
sessionVars == <<tokens, valid, rewound>>
planVars    == <<asked, prompt, cached, loaded, cold>>
vars == <<files, debris, phase, run, ctx, map, op, tokens, valid, rewound, last, pc,
          asked, prompt, cached, loaded, cold, suppressed, written>>

PCs == {"idle", "store", "load", "cold_sync", "cold_store", "sync", "synced",
        "end_cold", "gen", "eval", "ended", "rebuild", "discard", "closed"}

Reasons == {"cold", "continued", "evict", "shutdown"}

Larger(m, n) == IF m > n THEN m ELSE n

Take(t, n) == SubSeq(t, 1, n)
Drop(t, n) == SubSeq(t, n + 1, Len(t))

With(f, t, r)  == [u \in DOMAIN f \cup {t} |-> IF u = t THEN r ELSE f[u]]
Without(f, t)  == [u \in DOMAIN f \ {t} |-> f[u]]

-----------------------------------------------------------------------------
(* Lengths: where checkpoints are written.                                 *)

\* ds4_kvstore_store_len: the aligned length short of an unstable tail, or all.
StoreLen(n) ==
    LET stable == n - Trim - (IF Align > 0 THEN (n - Trim) % Align ELSE 0)
    IN  IF n > MinTokens + Trim /\ stable >= MinTokens THEN stable ELSE n

\* The interval, rounded up to the alignment.
ContinuedStep ==
    IF Align = 0 THEN Interval ELSE ((Interval + Align - 1) \div Align) * Align

\* A continued checkpoint is due at n tokens, when the schedule stands at l.
ContinuedDue(l, n) == n >= MinTokens /\ n % ContinuedStep = 0 /\ n > l

-----------------------------------------------------------------------------
(* Sizes.                                                                  *)

FileBytes(t, m) == Len(t) + m

\* A store asks for one percent more than the file has, rounded up.
Required(b) == b + (b \div 100) + (IF b % 100 # 0 THEN 1 ELSE 0)

Fits(t, m) == Required(FileBytes(t, m)) <= Budget

\* What kv_cache_refresh counts: checkpoints, never temporary files.
Total(f) == SumFunction([t \in DOMAIN f |-> FileBytes(t, f[t].map)])

MustEvict_IgnoresIncoming(f, extra) == DOMAIN f # {} /\ Total(f) > Budget

\* The loop condition of the budget pass that makes room for extra bytes.
MustEvict(f, extra) == DOMAIN f # {} /\ Total(f) > Budget - extra

\* The pass ends there, or at the first file that cannot be removed.
PassOver(extra) == ~MustEvict(files, extra) \/ "unlink" \in Faults

\* unlink of the checkpoint of t: what may be left.
Removed(t) == {Without(files, t)} \cup (IF "unlink" \in Faults THEN {files} ELSE {})

-----------------------------------------------------------------------------
Init ==
    /\ files = <<>> /\ debris = {}
    /\ phase = "opening" /\ run = 1 /\ ctx \in Contexts /\ map = 0
    /\ op = NoOp
    /\ tokens = [s \in Slots |-> NoText] /\ valid = [s \in Slots |-> FALSE]
    /\ rewound = [s \in Slots |-> FALSE]
    /\ last = [s \in Slots |-> 0] /\ pc = [s \in Slots |-> "idle"]
    /\ asked = [s \in Slots |-> NoText] /\ prompt = [s \in Slots |-> NoText]
    /\ cached = [s \in Slots |-> 0] /\ loaded = [s \in Slots |-> NoText]
    /\ cold = [s \in Slots |-> 0] /\ suppressed = [s \in Slots |-> -1]
    /\ written = [s \in Slots |-> 0]

-----------------------------------------------------------------------------
(* The session of a slot.                                                  *)

\* ds4_session_invalidate
Invalidate(s) ==
    /\ tokens' = [tokens EXCEPT ![s] = NoText]
    /\ valid' = [valid EXCEPT ![s] = FALSE]
    /\ UNCHANGED rewound

\* The payload of checkpoint t is loaded.
Restore(s, t) ==
    /\ tokens' = [tokens EXCEPT ![s] = t]
    /\ valid' = [valid EXCEPT ![s] = TRUE]
    /\ rewound' = [rewound EXCEPT ![s] = FALSE]

-----------------------------------------------------------------------------
(* A store: ds4_kvstore_store_live_prefix_text.                            *)

\* The slot takes the lock to store text t; afterwards it goes on at `back`.
StoreOp(s, t, why, back) ==
    [slot |-> s, text |-> t, reason |-> why, back |-> back, stage |-> "check", est |-> 0]

BeginStore(s, t, why, back) ==
    /\ op' = StoreOp(s, t, why, back)
    /\ pc' = [pc EXCEPT ![s] = "store"]

Restored_Forgets(s) == last[s]

Restored_Unchecked(s) == suppressed[s]

\* kv_cache_slot_restore_suppressed
Restored(s) == IF suppressed[s] >= 0 /\ last[s] = cold[s] THEN suppressed[s] ELSE last[s]

\* The caller's part: the schedule moves on, or back where a cold store failed.
StoreEnds(ok) ==
    LET s == op.slot
        n == Len(op.text)
    IN  /\ op' = NoOp
        /\ pc' = [pc EXCEPT ![s] = op.back]
        /\ last' = [last EXCEPT ![s] =
                IF op.reason \notin {"cold", "continued"} THEN @
                ELSE IF ok THEN Larger(@, n)
                ELSE IF op.reason = "cold" THEN Restored(s) ELSE @]
        /\ suppressed' = IF op.reason = "cold" THEN [suppressed EXCEPT ![s] = -1]
                         ELSE suppressed
        /\ written' = [written EXCEPT ![s] =
                IF ok /\ op.reason \in {"cold", "continued"} THEN Larger(@, n) ELSE @]

\* The text is long enough and the session stands at its end.
Storable == Len(op.text) >= MinTokens /\ tokens[op.slot] = op.text

\* No checkpoint of the text is in the way.
Absent == \/ op.stage = "stage"
          \/ op.stage = "check" /\ Storable /\ op.text \notin DOMAIN files

\* The session has a payload.
HasPayload(s) == valid[s] /\ ~rewound[s]

\* Nothing is stored of a text that is not storable, of a session without a
\* payload, or of one whose file would not fit.
StoreRefused ==
    /\ \/ op.stage = "check" /\ ~Storable
       \/ Absent /\ (~HasPayload(op.slot) \/ ~Fits(op.text, map) \/ "write" \in Faults)
    /\ StoreEnds(FALSE)
    /\ UNCHANGED <<diskVars, processVars, sessionVars, planVars>>

Compatible_AnyContext(f) == TRUE

\* A checkpoint serves contexts at least as large as the one that wrote it.
Compatible(f) == f.ctx <= ctx

\* The text has a checkpoint already: only its tool map is written again, in place.
StoreExisting ==
    /\ op.stage = "check" /\ Storable
    /\ op.text \in DOMAIN files /\ Compatible(files[op.text])
    /\ IF map = 0
       THEN /\ StoreEnds(TRUE)
            /\ UNCHANGED <<diskVars, processVars, sessionVars, planVars>>
       ELSE /\ files' = [files EXCEPT ![op.text].map = 0]
            /\ op' = [op EXCEPT !.stage = "trailer"]
            /\ UNCHANGED <<debris, processVars, sessionVars, planVars, last,
                           pc, suppressed, written>>

\* The trailer was cut off; the map is appended as it is now.
RewriteTrailer ==
    /\ op.stage = "trailer"
    /\ \E m \in {map} \cup (IF "write" \in Faults THEN 0 .. map ELSE {}) :
          files' = [files EXCEPT ![op.text].map = m]
    /\ StoreEnds(TRUE)
    /\ UNCHANGED <<debris, processVars, sessionVars, planVars>>

\* The text has a checkpoint this server cannot use: it makes way.
ReplaceIncompatible ==
    /\ op.stage = "check" /\ Storable
    /\ op.text \in DOMAIN files /\ ~Compatible(files[op.text])
    /\ files' \in Removed(op.text)
    /\ op' = [op EXCEPT !.stage = "stage"]
    /\ UNCHANGED <<debris, processVars, sessionVars, planVars, last, pc, suppressed,
                   written>>

\* The payload is staged and its file would fit: room is made for it.
Stage ==
    /\ Absent
    /\ HasPayload(op.slot) /\ Fits(op.text, map)
    /\ op' = [op EXCEPT !.stage = "evict", !.est = map]
    /\ UNCHANGED <<diskVars, processVars, sessionVars, planVars, last, pc, suppressed,
                   written>>

\* One round of the budget pass.
Evict ==
    /\ op.stage = "evict"
    /\ MustEvict(files, FileBytes(op.text, op.est))
    /\ \E t \in DOMAIN files : files' = Without(files, t)
    /\ UNCHANGED <<debris, processVars, sessionVars, planVars, op, last, pc,
                   suppressed, written>>

\* The temporary file cannot be created.
NoTemporary ==
    /\ op.stage = "evict" /\ PassOver(FileBytes(op.text, op.est)) /\ "write" \in Faults
    /\ StoreEnds(FALSE)
    /\ UNCHANGED <<diskVars, processVars, sessionVars, planVars>>

\* The pass is over; the temporary file is created.
CreateTemporary ==
    /\ op.stage = "evict" /\ PassOver(FileBytes(op.text, op.est))
    /\ debris' = debris \cup {<<op.text, run>>}
    /\ op' = [op EXCEPT !.stage = "write"]
    /\ UNCHANGED <<files, processVars, sessionVars, planVars, last, pc, suppressed,
                   written>>

\* The file is complete, with the map as it was when the trailer was written,
\* still fits, and takes its name.
Publish ==
    /\ op.stage = "write" /\ Fits(op.text, map)
    /\ files' = With(files, op.text, [map |-> map, ctx |-> ctx])
    /\ debris' = debris \ {<<op.text, run>>}
    /\ StoreEnds(TRUE)
    /\ UNCHANGED <<processVars, sessionVars, planVars>>

AfterFailedWrite_Leaks == debris

\* unlink(tmp)
AfterFailedWrite == debris \ {<<op.text, run>>}

\* Room is made again, for the size that was estimated before.
WriteFails_TriesAgain ==
    /\ op.stage = "write" /\ ("write" \in Faults \/ ~Fits(op.text, map))
    /\ debris' = AfterFailedWrite
    /\ op' = [op EXCEPT !.stage = "evict"]
    /\ UNCHANGED <<files, processVars, sessionVars, planVars, last, pc, suppressed,
                   written>>

\* The write failed, or the file has become too large.
WriteFails ==
    /\ op.stage = "write" /\ ("write" \in Faults \/ ~Fits(op.text, map))
    /\ debris' = AfterFailedWrite
    /\ StoreEnds(FALSE)
    /\ UNCHANGED <<files, processVars, sessionVars, planVars>>

-----------------------------------------------------------------------------
(* The prompt of a request: generate_job_inner up to the generation.       *)

Up == phase = "up"

\* The locals of generate_job_inner end with it.
EndRequest(s) ==
    /\ pc' = [pc EXCEPT ![s] = "idle"]
    /\ asked' = [asked EXCEPT ![s] = NoText]
    /\ prompt' = [prompt EXCEPT ![s] = NoText]
    /\ loaded' = [loaded EXCEPT ![s] = NoText]
    /\ cached' = [cached EXCEPT ![s] = 0]
    /\ cold' = [cold EXCEPT ![s] = 0]
    /\ suppressed' = [suppressed EXCEPT ![s] = -1]

\* A session that is a prefix of the prompt is continued.  Otherwise its
\* conversation is persisted before a checkpoint may replace it.
Begin(s, p) ==
    /\ Up /\ pc[s] = "idle" /\ op = NoOp
    /\ Len(p) < ctx
    /\ asked' = [asked EXCEPT ![s] = p]
    /\ prompt' = [prompt EXCEPT ![s] = p]
    /\ loaded' = [loaded EXCEPT ![s] = NoText]
    /\ cold' = [cold EXCEPT ![s] = 0]
    /\ suppressed' = [suppressed EXCEPT ![s] = -1]
    /\ LET hit == valid[s] /\ tokens[s] # NoText /\ IsPrefix(tokens[s], p)
       IN  /\ cached' = [cached EXCEPT ![s] = IF hit THEN Len(tokens[s]) ELSE 0]
           /\ last' = IF hit THEN last ELSE [last EXCEPT ![s] = 0]
           /\ written' = IF hit THEN written ELSE [written EXCEPT ![s] = 0]
           /\ IF ~hit /\ Len(tokens[s]) >= MinTokens
              THEN BeginStore(s, tokens[s], "evict", "load")
              ELSE /\ pc' = [pc EXCEPT ![s] = IF hit THEN "sync" ELSE "load"]
                   /\ UNCHANGED op
    /\ UNCHANGED <<diskVars, processVars, sessionVars>>

Usable_AnyText(t, p) ==
    Len(t) <= Len(p) /\ Len(t) >= MinTokens /\ Compatible(files[t])

\* A checkpoint of t can start the prompt p: the hash of p cut to the length of
\* t is the name of the file.
Usable(t, p) == IsPrefix(t, p) /\ Len(t) >= MinTokens /\ Compatible(files[t])

\* ds4_kvstore_find_text_prefix: the longest such text.
Found(p) ==
    LET usable == {t \in DOMAIN files : Usable(t, p)}
    IN  {t \in usable : \A u \in usable : Len(u) <= Len(t)}

\* What the prompt is aligned to before its cold checkpoint: the chat anchor, a
\* position in the prompt that depends on its content, or the stable length.
ColdLens(p) == {StoreLen(Len(p))} \cup (MinTokens .. Len(p) - 1)

Suppresses_Never(s, c) == FALSE

\* A continued checkpoint would fall on the frontier of the cold one.
Suppresses(s, c) == ContinuedDue(last[s], c)

\* The cold checkpoint of the prompt is planned, and a continued one that would
\* fall on the same frontier is suppressed.
PlanCold(s) ==
    \/ /\ Len(asked[s]) >= MinTokens /\ Len(asked[s]) <= ColdMax
       /\ \E c \in ColdLens(asked[s]) :
             LET due == Suppresses(s, c)
             IN  /\ cold' = [cold EXCEPT ![s] = c]
                 /\ suppressed' = [suppressed EXCEPT ![s] = IF due THEN last[s] ELSE -1]
                 /\ last' = [last EXCEPT ![s] = IF due THEN c ELSE @]
                 /\ pc' = [pc EXCEPT ![s] = IF c < Len(asked[s]) THEN "cold_sync" ELSE "sync"]
    \/ /\ Len(asked[s]) < MinTokens \/ Len(asked[s]) > ColdMax
       /\ pc' = [pc EXCEPT ![s] = "sync"]
       /\ UNCHANGED <<cold, suppressed, last>>

\* No checkpoint fits.
LoadMisses(s) ==
    /\ pc[s] = "load" /\ op = NoOp
    /\ Found(asked[s]) = {}
    /\ PlanCold(s)
    /\ UNCHANGED <<diskVars, processVars, op, sessionVars, asked, prompt, cached, loaded,
                   written>>

\* The session is replaced by the checkpoint, and the prompt becomes its tokens
\* and the text that follows it.
LoadHits(s) ==
    /\ pc[s] = "load" /\ op = NoOp
    /\ \E t \in Found(asked[s]) :
          /\ Restore(s, t)
          /\ prompt' = [prompt EXCEPT ![s] = t \o Drop(asked[s], Len(t))]
          /\ cached' = [cached EXCEPT ![s] = Len(t)]
          /\ loaded' = [loaded EXCEPT ![s] = t]
    /\ pc' = [pc EXCEPT ![s] = "sync"]
    /\ UNCHANGED <<diskVars, processVars, op, last, asked, cold, suppressed, written>>

\* The file cannot be opened, its payload does not load, or it holds another
\* number of tokens than its header says, and is removed for it.
LoadFails(s) ==
    /\ "load" \in Faults /\ pc[s] = "load" /\ op = NoOp
    /\ \E t \in Found(asked[s]) :
          \/ UNCHANGED <<files, sessionVars>>
          \/ files' \in {files} \cup Removed(t) /\ Invalidate(s)
    /\ PlanCold(s)
    /\ UNCHANGED <<debris, processVars, op, asked, prompt, cached, loaded, written>>

-----------------------------------------------------------------------------
(* The syncs: ds4_session_sync and the progress callback.                  *)

Syncing(s) == pc[s] \in {"cold_sync", "sync"}

Goal(s) == IF pc[s] = "cold_sync" THEN Take(prompt[s], cold[s]) ELSE prompt[s]

\* What of the session a sync keeps.
Kept(s) == IF HasPayload(s) /\ IsPrefix(tokens[s], Goal(s)) THEN tokens[s] ELSE NoText

\* A chunk of the prompt is evaluated; the callback writes a continued checkpoint
\* of the new frontier if one is due, unless the client has hung up.
PrefillChunk(s) ==
    /\ Syncing(s) \/ pc[s] = "rebuild"
    /\ op = NoOp
    /\ \E n \in Len(Kept(s)) + 1 .. Len(Goal(s)) :
          LET now == Take(Goal(s), n)
          IN  /\ tokens' = [tokens EXCEPT ![s] = now]
              /\ \/ /\ n > cached[s] /\ ContinuedDue(last[s], n)
                    /\ BeginStore(s, now, "continued", pc[s])
                 \/ UNCHANGED <<op, pc>>
    /\ valid' = [valid EXCEPT ![s] = TRUE]
    /\ rewound' = [rewound EXCEPT ![s] = FALSE]
    /\ UNCHANGED <<diskVars, processVars, last, planVars, suppressed, written>>

\* The prompt, or its cold prefix, is complete.
SyncDone(s) ==
    /\ Syncing(s) /\ op = NoOp
    /\ HasPayload(s) /\ tokens[s] = Goal(s)
    /\ pc' = [pc EXCEPT ![s] = IF pc[s] = "cold_sync" THEN "cold_store" ELSE "synced"]
    /\ UNCHANGED <<diskVars, processVars, op, sessionVars, last, planVars, suppressed,
                   written>>

\* The sync is interrupted, at once or after what it kept or one more chunk, or
\* the model fails.
SyncFails(s) ==
    /\ Syncing(s) /\ op = NoOp
    /\ \/ UNCHANGED sessionVars
       \/ \E n \in Len(Kept(s)) .. Len(Goal(s)) :
             /\ tokens' = [tokens EXCEPT ![s] = Take(Goal(s), n)]
             /\ valid' = [valid EXCEPT ![s] = n > 0]
             /\ rewound' = [rewound EXCEPT ![s] = @ /\ n = Len(Kept(s))]
       \/ /\ "model" \in Faults
          /\ tokens' = [tokens EXCEPT ![s] = Kept(s)]
          /\ valid' = [valid EXCEPT ![s] = FALSE]
          /\ UNCHANGED rewound
    /\ last' = [last EXCEPT ![s] = Restored(s)]
    /\ IF loaded[s] = NoText
       THEN EndRequest(s)
       ELSE /\ pc' = [pc EXCEPT ![s] = "discard"]
            /\ suppressed' = [suppressed EXCEPT ![s] = -1]
            /\ UNCHANGED planVars
    /\ UNCHANGED <<diskVars, processVars, op, written>>

\* kv_cache_discard_failed_disk_entry
Discard(s) ==
    /\ pc[s] = "discard" /\ op = NoOp
    /\ files' \in Removed(loaded[s])
    /\ Invalidate(s)
    /\ last' = [last EXCEPT ![s] = 0]
    /\ written' = [written EXCEPT ![s] = 0]
    /\ EndRequest(s)
    /\ UNCHANGED <<debris, processVars, op>>

\* The cold checkpoint, before the rest of the prompt or after all of it.
ColdStore(s) ==
    /\ pc[s] \in {"cold_store", "end_cold"} /\ op = NoOp
    /\ IF pc[s] = "cold_store" \/ cold[s] = Len(prompt[s])
       THEN /\ BeginStore(s, Take(prompt[s], cold[s]), "cold",
                          IF pc[s] = "cold_store" THEN "sync" ELSE "gen")
       ELSE /\ pc' = [pc EXCEPT ![s] = "gen"]
            /\ UNCHANGED op
    /\ UNCHANGED <<diskVars, processVars, sessionVars, last, planVars, suppressed, written>>

\* A continued checkpoint is due at the frontier, after the prompt or before the
\* next token (unless a tool call is being generated).
ContinuedStore(s) ==
    /\ pc[s] \in {"synced", "gen"} /\ op = NoOp
    /\ pc[s] = "gen" => Len(tokens[s]) < ctx
    /\ LET due  == ContinuedDue(last[s], Len(tokens[s]))
           next == IF pc[s] = "synced" THEN "end_cold" ELSE "eval"
       IN  \/ due /\ BeginStore(s, tokens[s], "continued", next)
           \/ /\ due => pc[s] = "gen"
              /\ pc' = [pc EXCEPT ![s] = next]
              /\ UNCHANGED op
    /\ UNCHANGED <<diskVars, processVars, sessionVars, last, planVars, suppressed, written>>

\* The client hung up during the last chunk of the prompt: no answer is generated.
HangUp(s) ==
    /\ "hangup" \in Faults /\ pc[s] = "synced"
    /\ EndRequest(s)
    /\ UNCHANGED <<diskVars, processVars, op, sessionVars, last, written>>

-----------------------------------------------------------------------------
(* The answer: generate_job_inner from there on.                           *)

\* One more token, or one of the message that tells the model that its tool
\* call is broken, which is synced and brings the state of the model back.
Generate(s) ==
    /\ pc[s] \in {"eval", "ended"} /\ op = NoOp
    /\ Len(tokens[s]) < ctx
    /\ \E w \in Sampled : tokens' = [tokens EXCEPT ![s] = Append(@, w)]
    /\ rewound' = [rewound EXCEPT ![s] = FALSE]
    /\ pc' = [pc EXCEPT ![s] = "gen"]
    /\ UNCHANGED <<diskVars, processVars, op, valid, last, planVars, suppressed, written>>

\* An evaluation fails.  One of its own leaves the tokens of the session; one of
\* a batch empties it, and the other slots of the batch take this step as well.
EvalFails(s) ==
    /\ "model" \in Faults /\ pc[s] \in {"eval", "rebuild"} /\ op = NoOp
    /\ \/ valid' = [valid EXCEPT ![s] = FALSE] /\ UNCHANGED <<tokens, rewound>>
       \/ Invalidate(s)
    /\ EndRequest(s)
    /\ UNCHANGED <<diskVars, processVars, op, last, written>>

\* Something has been generated.
Answered(s) == Len(tokens[s]) > Len(prompt[s])

\* The text up to a stop sequence of the client is the answer; the session has
\* read past it.
StopSequence(s) ==
    /\ pc[s] = "gen" /\ op = NoOp /\ Answered(s)
    /\ Invalidate(s)
    /\ EndRequest(s)
    /\ UNCHANGED <<diskVars, processVars, op, last, written>>

\* The answer ends inside a verified block, and there is no snapshot of the
\* state at its end.
RewindWithout(s) ==
    /\ pc[s] = "gen" /\ op = NoOp /\ Answered(s)
    /\ rewound' = [rewound EXCEPT ![s] = TRUE]
    /\ pc' = [pc EXCEPT ![s] = "ended"]
    /\ UNCHANGED <<diskVars, processVars, op, tokens, valid, last, planVars, suppressed,
                   written>>

\* canonicalize_tool_checkpoint: the answer is a tool call that the next request
\* will spell differently.  The session is synced to that, from where it is or
\* from a checkpoint; only the latter reports its progress.
Canonicalize(s) ==
    /\ pc[s] \in {"gen", "ended"} /\ op = NoOp /\ Answered(s)
    /\ \E p \in Prompts :
          /\ IsPrefix(prompt[s], p) /\ p \notin {prompt[s], tokens[s]} /\ Len(p) < ctx
          /\ asked' = [asked EXCEPT ![s] = p]
          /\ prompt' = [prompt EXCEPT ![s] = p]
          /\ \/ /\ IsPrefix(tokens[s], p)
                /\ cached' = [cached EXCEPT ![s] = Len(p)]
                /\ UNCHANGED <<files, sessionVars>>
             \/ /\ ~IsPrefix(tokens[s], p)
                /\ \E t \in Found(p) :
                      Restore(s, t) /\ cached' = [cached EXCEPT ![s] = Len(t)]
                /\ UNCHANGED files
             \/ /\ ~IsPrefix(tokens[s], p)
                /\ Found(p) = {} \/ "load" \in Faults
                /\ files' \in {files} \cup UNION {Removed(t) : t \in Found(p)}
                /\ Invalidate(s) /\ cached' = [cached EXCEPT ![s] = 0]
    /\ pc' = [pc EXCEPT ![s] = "rebuild"]
    /\ UNCHANGED <<debris, processVars, op, last, loaded, cold, suppressed, written>>

\* The answer is complete, the client gone or the context full; or a rebuild is
\* complete or interrupted.
Finish(s) ==
    /\ pc[s] \in {"gen", "eval", "ended", "rebuild"}
    /\ EndRequest(s)
    /\ UNCHANGED <<diskVars, processVars, op, sessionVars, last, written>>

-----------------------------------------------------------------------------
(* The process.                                                            *)

\* Tool calls are remembered and forgotten under tool_mu.
ToolMapChanges ==
    /\ Up
    /\ map' \in 0 .. MaxMap /\ map' # map
    /\ UNCHANGED <<diskVars, phase, run, ctx, op, sessionVars, last, pc, planVars,
                   suppressed, written>>

\* ds4_kvstore_open runs a budget pass before the server listens.
Open ==
    /\ phase = "opening"
    /\ \/ /\ MustEvict(files, 0)
          /\ \E t \in DOMAIN files : files' = Without(files, t)
          /\ UNCHANGED phase
       \/ /\ PassOver(0)
          /\ phase' = "up"
          /\ UNCHANGED files
    /\ UNCHANGED <<debris, run, ctx, map, op, sessionVars, last, pc, planVars, suppressed,
                   written>>

\* A stop request, when the workers have ended: the caches are persisted.
Shutdown ==
    /\ Up /\ op = NoOp /\ \A s \in Slots : pc[s] = "idle"
    /\ phase' = "closing"
    /\ UNCHANGED <<diskVars, run, ctx, map, op, sessionVars, last, pc, planVars, suppressed,
                   written>>

\* One slot after the other stores what it holds.
PersistSlot(s) ==
    /\ phase = "closing" /\ op = NoOp /\ pc[s] = "idle"
    /\ IF Len(tokens[s]) >= MinTokens
       THEN BeginStore(s, tokens[s], "shutdown", "closed")
       ELSE /\ pc' = [pc EXCEPT ![s] = "closed"]
            /\ UNCHANGED op
    /\ UNCHANGED <<diskVars, processVars, sessionVars, last, planVars, suppressed, written>>

\* The process is gone, in order or not; what is on disk stays.
End ==
    /\ \/ phase = "closing" /\ \A s \in Slots : pc[s] = "closed"
       \/ "crash" \in Faults /\ phase \in {"opening", "up", "closing"}
    /\ phase' = "down"
    /\ op' = NoOp
    /\ map' = 0
    /\ tokens' = [s \in Slots |-> NoText] /\ valid' = [s \in Slots |-> FALSE]
    /\ rewound' = [s \in Slots |-> FALSE]
    /\ last' = [s \in Slots |-> 0] /\ pc' = [s \in Slots |-> "idle"]
    /\ asked' = [s \in Slots |-> NoText] /\ prompt' = [s \in Slots |-> NoText]
    /\ cached' = [s \in Slots |-> 0] /\ loaded' = [s \in Slots |-> NoText]
    /\ cold' = [s \in Slots |-> 0] /\ suppressed' = [s \in Slots |-> -1]
    /\ written' = [s \in Slots |-> 0]
    /\ UNCHANGED <<diskVars, run, ctx>>

Start ==
    /\ phase = "down" /\ run < MaxRuns
    /\ phase' = "opening"
    /\ run' = run + 1
    /\ ctx' \in Contexts
    /\ UNCHANGED <<diskVars, map, op, sessionVars, last, pc, planVars, suppressed, written>>

Rest == phase = "down" /\ run = MaxRuns /\ UNCHANGED vars

-----------------------------------------------------------------------------
StoreStep ==
    \/ StoreRefused \/ StoreExisting \/ RewriteTrailer \/ ReplaceIncompatible
    \/ Stage \/ Evict \/ NoTemporary \/ CreateTemporary \/ Publish \/ WriteFails

RequestStep(s) ==
    \/ LoadMisses(s) \/ LoadHits(s) \/ LoadFails(s)
    \/ PrefillChunk(s) \/ SyncDone(s) \/ SyncFails(s) \/ Discard(s)
    \/ ColdStore(s) \/ ContinuedStore(s) \/ HangUp(s)
    \/ Generate(s) \/ EvalFails(s) \/ StopSequence(s) \/ RewindWithout(s)
    \/ Canonicalize(s) \/ Finish(s)

Next ==
    \/ StoreStep
    \/ \E s \in Slots : RequestStep(s) \/ PersistSlot(s) \/ \E p \in Prompts : Begin(s, p)
    \/ ToolMapChanges \/ Open \/ Shutdown \/ End \/ Start \/ Rest

Spec == Init /\ [][Next]_vars

\* The lock holder carries a store through; a hung disk is not considered.
FairSpec == Spec /\ WF_vars(StoreStep)

-----------------------------------------------------------------------------
(* Properties.                                                             *)

Texts == Seq(Words)

\* Every variable has its type: no text longer than the context it was made in.
TypeOK ==
    /\ DOMAIN files \subseteq Texts
    /\ \A t \in DOMAIN files :
          /\ files[t] \in [map : 0 .. MaxMap, ctx : Contexts]
          /\ Len(t) \in MinTokens .. files[t].ctx
    /\ \A d \in debris : d[1] \in Texts /\ d[2] \in 1 .. run
    /\ phase \in {"opening", "up", "closing", "down"}
    /\ run \in 1 .. MaxRuns /\ ctx \in Contexts /\ map \in 0 .. MaxMap
    /\ op # NoOp =>
          /\ op.slot \in Slots /\ op.text \in Texts /\ op.reason \in Reasons
          /\ op.back \in PCs /\ op.est \in 0 .. MaxMap
          /\ op.stage \in {"check", "trailer", "stage", "evict", "write"}
    /\ \A s \in Slots :
          /\ tokens[s] \in Texts /\ Len(tokens[s]) <= ctx
          /\ {valid[s], rewound[s]} \subseteq BOOLEAN /\ last[s] \in 0 .. ctx
          /\ asked[s] \in Prompts \cup {NoText} /\ prompt[s] \in Texts
          /\ cached[s] \in 0 .. Len(prompt[s]) /\ cold[s] \in 0 .. Len(prompt[s])
          /\ suppressed[s] \in -1 .. ctx /\ written[s] \in 0 .. ctx
    /\ pc \in [Slots -> PCs]
    /\ \A s \in Slots : pc[s] = "store" <=> (op # NoOp /\ op.slot = s)

\* Where a slot is, or where it goes on after its store.
Place(s) == IF pc[s] = "store" THEN op.back ELSE pc[s]

\* A request is answered from its own prompt: whatever was continued in memory,
\* restored from disk, persisted, evicted, interrupted or discarded before, the
\* session that generates has read exactly what the client asked, and its state
\* is valid.
AnswersThePrompt ==
    \A s \in Slots : Place(s) \in {"synced", "end_cold", "gen", "eval"} =>
        valid[s] /\ IsPrefix(asked[s], tokens[s])

\* Unless a file cannot be removed, the payloads on disk stay within the budget
\* (the tool maps, which grow in place without a budget pass, come on top), over
\* any sequence of stores, failures, crashes and restarts.
PayloadsWithinBudget == SumFunction([t \in DOMAIN files |-> Len(t)]) <= Budget

\* The schedule of continued checkpoints never claims a frontier that no store
\* has covered, except while the cold store that is to cover it is pending: when
\* that store fails, or the prompt does, a later continued store can still try.
ScheduleHonest ==
    \A s \in Slots : last[s] > written[s] =>
        suppressed[s] >= 0 /\ last[s] = cold[s] /\ Place(s) # "idle"

\* The cold checkpoint of this prompt is planned and not yet attempted.
ColdPending(s) ==
    \/ Place(s) \in {"cold_sync", "cold_store"}
    \/ cold[s] > 0 /\ cold[s] = Len(prompt[s]) /\ Place(s) \in {"sync", "synced", "end_cold"}

\* The progress callback never writes as "continued" the very prefix for which a
\* cold checkpoint is pending, so that a prefix is not written twice and gets
\* the reason that protects it from eviction.
NoDuplicateFrontier ==
    op # NoOp /\ op.reason = "continued" =>
        ~(ColdPending(op.slot) /\ Len(op.text) = cold[op.slot])

\* A temporary file of this process exists only while its store is writing it,
\* and an earlier process has left at most one: a failed store cleans up, and a
\* crash costs one file.
OneLeftoverPerRun ==
    /\ \A t \in Texts \cap {d[1] : d \in debris} :
          <<t, run>> \in debris /\ phase # "down" => op.stage = "write" /\ op.text = t
    /\ \A d, e \in debris : d[2] = e[2] => d = e

\* A conversation that a store could save: long enough, and with a payload.
Alive(s) == HasPayload(s) /\ Len(tokens[s]) >= MinTokens

\* The step continues the conversation, or leaves it as it is.
Continues(s) == HasPayload(s)' /\ IsPrefix(tokens[s], tokens'[s])

\* The answer ends: what the code does to the session then it does without
\* storing it first.
AnswerEnds(s) ==
    pc[s] \in {"gen", "eval", "ended", "rebuild"} /\ pc'[s] \in {"idle", "ended", "rebuild"}

\* The model fails on the prompt that continues the conversation.
PromptFails(s) == Syncing(s) /\ tokens'[s] = tokens[s] /\ ~valid'[s]

\* In a server with one slot, where its file fits and is written: a request or
\* the end of the process takes a conversation out of memory only when a
\* checkpoint of it is on disk that this server can use; nothing is replaced
\* before it is persisted, whatever of the new prompt fails or is interrupted.
\* (With two slots it may be gone: one unlinks a checkpoint that is the other's
\* copy.)  The code drops a conversation without that in five cases: a
\* crash, the discard of a failed restore, a failed evaluation (of the prompt
\* that continues it, or of a token, then for every slot of the batch), the end
\* of an answer at a stop sequence or in the middle of a block without a
\* snapshot, and the rebuild of a tool call.
ConversationKept ==
    [][\A s \in Slots :
          /\ Alive(s) /\ ~Continues(s)
          /\ phase = "up" \/ (phase = "closing" /\ \A q \in Slots : pc[q] = "closed")
          /\ phase' = "down" => phase = "closing"
          /\ pc[s] # "discard" /\ ~PromptFails(s) /\ ~AnswerEnds(s)
          => tokens[s] \in DOMAIN files /\ files[tokens[s]].ctx <= ctx]_vars

\* A store ends: the budget pass terminates, and the lock is released whatever
\* cannot be written and however the tool map changes meanwhile.  (A file that
\* cannot be removed ends the pass at once: PassOver.)
StoresEnd == op # NoOp ~> op = NoOp
=============================================================================
