---------------------------- MODULE QwenSession ----------------------------
(***************************************************************************)
(* One Qwen3.8 session of ds4.c: the token history a caller sees, and the  *)
(* graph behind it, whose recurrent state cannot be rolled back.  A        *)
(* speculative cycle runs ahead of the transcript and returns by snapshots *)
(* taken on the way; a rewind goes back to a snapshot or resets the graph  *)
(* and has the next evaluation replay the transcript.                      *)
(*                                                                         *)
(* Every tensor is represented by the token history it was computed from:  *)
(* the recurrent state, each row of the attention caches, the logits.      *)
(* Wrong is the content of a tensor that stands for no history: never      *)
(* written, left by a failed pass, or computed from tensors that disagree. *)
(*                                                                         *)
(* A session is used by one thread at a time.  What interleaves with a     *)
(* call is cancellation, which a sync looks at between its chunks, and the *)
(* progress callback of a sync, which may save the session.                *)
(*                                                                         *)
(* Abstracted: which tokens are sampled and drafted, and whether a draft   *)
(* is accepted, is any choice; text sessions only (an image makes a replay *)
(* fail); the predictor's own cache, on which only drafts depend.  A       *)
(* failed pass leaves the worst it can.  A call that is refused at its     *)
(* first checks (empty or too long prompt, cancelled, full context, no     *)
(* valid checkpoint) changes nothing and is no step.                       *)
(*                                                                         *)
(* A definition named Op_What is a slip in Op that the properties must     *)
(* catch; nothing refers to it.                                            *)
(***************************************************************************)
EXTENDS Integers, Sequences

CONSTANTS Tokens,
          Ctx,              \* ctx_size, and ctx_cap of the graph
          Chunk,            \* cap_tokens
          Prompts,          \* bound: what callers sync
          Depth,            \* rows of the deepest verify: 2 or 3
          Exact,            \* dspark_exact_sampling
          MaxSaved,         \* bound: tokens of a payload
          LeftoverRewinds,  \* whether rewinds to a leftover snapshot happen
          Wrong, None

ASSUME SessionAssumption ==
    /\ {Ctx, Chunk, MaxSaved} \subseteq Nat \ {0} /\ Depth \in {2, 3}
    /\ Prompts \subseteq Seq(Tokens) \ {<<>>} /\ \A p \in Prompts : Len(p) < Ctx
    /\ Exact \in BOOLEAN /\ LeftoverRewinds \in BOOLEAN
    /\ Wrong \notin Seq(Tokens)
    /\ None \notin [pos : Nat, of : Seq(Tokens) \cup {Wrong}]

VARIABLES
    checkpoint,  \* the token history
    valid,       \* checkpoint_valid
    rewound,     \* qwen4_rewound: the logits are of a longer history
    drafts,      \* pending drafts: glm_mtp_have, glm_mtp_have2
    pos,         \* qwen4_graph.pos
    rec,         \* the recurrent state
    kv,          \* the rows of the attention caches below pos
    snap,        \* snap0, snap and snap2: None where not valid
    rows,        \* qwen4_verify_logits, the rows that go with them
    logits,
    call,        \* the call under way
    file         \* a payload in the checkpoint directory, or None

historyVars == <<checkpoint, valid, rewound>>
graphVars   == <<pos, rec, kv>>
vars == <<checkpoint, valid, rewound, drafts, pos, rec, kv, snap, rows, logits, call, file>>

\* The start of the verified block, and the states after its first two rows.
Marks   == {"start", "row0", "row1"}
NoSnaps == [m \in Marks |-> None]
NoRows  == [m \in Marks |-> Wrong]

NoCall    == [stage |-> "none"]
Then(op)  == IF op = "none" THEN NoCall ELSE [stage |-> op]
Syncing(p, op) == [stage |-> "sync", prompt |-> p, back |-> op]

Take(h, n)  == SubSeq(h, 1, n)
Smaller(m, n) == IF m < n THEN m ELSE n

-----------------------------------------------------------------------------
(* The graph.  A cache row at or above pos is not read before it is        *)
(* written again, nor is a logit row whose snapshot is not valid: those do *)
(* not count.                                                              *)

\* The history the graph as a whole stands for.
State == IF rec = Wrong THEN Wrong
         ELSE IF Len(rec) = pos /\ \A i \in 1..pos : kv[i] = Take(rec, i) THEN rec ELSE Wrong

\* What a pass makes of it after n of the tokens ts.
Extend(ts, n) == IF State = Wrong THEN Wrong ELSE State \o Take(ts, n)

\* The cache rows after a pass over ts, the first n of which stay.
Written(ts, n) == [i \in 1..pos + n |-> IF i <= pos THEN kv[i] ELSE Extend(ts, i - pos)]

Forward(ts) ==
    /\ pos' = pos + Len(ts)
    /\ rec' = Extend(ts, Len(ts))
    /\ kv' = Written(ts, Len(ts))

\* A pass that fails has the recurrent state changed in part.
ForwardFails == rec' = Wrong /\ UNCHANGED <<pos, kv>>

\* qwen4_graph_reset
Reset ==
    /\ pos' = 0 /\ rec' = <<>> /\ kv' = <<>>
    /\ snap' = NoSnaps /\ rows' = NoRows

Mark(p, h) == [pos |-> p, of |-> h]

-----------------------------------------------------------------------------
Init ==
    /\ checkpoint = <<>> /\ valid = FALSE /\ rewound = FALSE /\ drafts = 0
    /\ pos = 0 /\ rec = <<>> /\ kv = <<>>
    /\ snap = NoSnaps /\ rows = NoRows
    /\ logits = Wrong /\ call = NoCall /\ file = None

-----------------------------------------------------------------------------
(* Sync: ds4_session_sync_internal.                                        *)

\* The session stands at a prefix of prompt p that can be gone on from.
Reusable(p) ==
    /\ valid /\ pos = Len(checkpoint)
    /\ ~rewound \/ Len(p) > Len(checkpoint)
    /\ Len(checkpoint) <= Len(p) /\ checkpoint = Take(p, Len(checkpoint))

\* A token of p may be outside the vocabulary: the sync ends there.
BeginSync(p) ==
    /\ call = NoCall
    /\ drafts' = 0
    /\ IF Reusable(p) THEN UNCHANGED <<checkpoint, valid, graphVars, snap, rows>>
       ELSE Reset /\ checkpoint' = <<>> /\ valid' = FALSE
    /\ call' \in {Syncing(p, "none"), NoCall}
    /\ UNCHANGED <<rewound, logits, file>>

Missing == SubSeq(call.prompt, Len(checkpoint) + 1, Len(call.prompt))
Chunks  == Take(Missing, Smaller(Chunk, Len(Missing)))

SyncChunk ==
    /\ call.stage = "sync" /\ Missing # <<>>
    /\ Forward(Chunks)
    /\ logits' = Extend(Chunks, Len(Chunks))
    /\ checkpoint' = checkpoint \o Chunks /\ valid' = TRUE /\ rewound' = FALSE
    /\ UNCHANGED <<drafts, snap, rows, call, file>>

SyncFails ==
    /\ call.stage = "sync" /\ Missing # <<>>
    /\ ForwardFails
    /\ logits' = Wrong
    /\ valid' = FALSE
    /\ call' = NoCall
    /\ UNCHANGED <<checkpoint, rewound, drafts, snap, rows, file>>

\* Between chunks: the completed ones are kept.
SyncCancelled ==
    /\ call.stage = "sync" /\ Missing # <<>>
    /\ valid' = (checkpoint # <<>>)
    /\ call' = NoCall
    /\ UNCHANGED <<checkpoint, rewound, drafts, graphVars, snap, rows, logits, file>>

SyncDone ==
    /\ call.stage = "sync" /\ Missing = <<>>
    /\ valid' = TRUE
    /\ call' = Then(call.back)
    /\ UNCHANGED <<checkpoint, rewound, drafts, graphVars, snap, rows, logits, file>>

-----------------------------------------------------------------------------
(* Evaluation of one token, alone or as a member of a plain batch.         *)

\* A rewind left the graph behind: the whole transcript is synced again, for
\* operation op; cancelled at once it leaves the session invalid.
Replay(op) ==
    /\ call = NoCall /\ valid /\ pos # Len(checkpoint)
    /\ \/ /\ drafts' = 0 /\ Reset /\ checkpoint' = <<>>
          /\ call' = Syncing(checkpoint, op)
       \/ UNCHANGED <<drafts, graphVars, snap, rows, checkpoint, call>>
    /\ valid' = FALSE
    /\ UNCHANGED <<rewound, logits, file>>

\* Operation op may use the graph: it is in place, or the replay has ended.
Ready(op) == \/ call = NoCall /\ valid /\ pos = Len(checkpoint)
             \/ call.stage = op

\* The session goes on at history h, with the logits of it.
GoesOn(h, l) ==
    /\ checkpoint' = h /\ logits' = l
    /\ valid' = TRUE /\ rewound' = FALSE /\ call' = NoCall

OneToken_PastContext(t) ==
    /\ Forward(<<t>>)
    /\ GoesOn(checkpoint \o <<t>>, Extend(<<t>>, 1))

\* Where the context has room.
OneToken(t) ==
    /\ pos < Ctx
    /\ Forward(<<t>>)
    /\ GoesOn(checkpoint \o <<t>>, Extend(<<t>>, 1))

Eval(t) ==
    /\ Ready("eval") /\ OneToken(t)
    /\ drafts' = 0
    /\ UNCHANGED <<snap, rows, file>>

\* A failed pass: the checkpoint is invalid.
EvalFails ==
    /\ Ready("eval") \/ Ready("cycle")
    /\ pos < Ctx
    /\ ForwardFails
    /\ valid' = FALSE /\ drafts' \in {0, drafts} /\ logits' = Wrong /\ call' = NoCall
    /\ UNCHANGED <<checkpoint, rewound, snap, rows, file>>

-----------------------------------------------------------------------------
(* The speculative cycle: ds4_session_qwen4_spec_cycle.                    *)

\* No draft to verify, or no room: an evaluation that leaves the older
\* snapshots alone, and drafts.
CyclePlain(t) ==
    /\ Ready("cycle") /\ OneToken(t)
    /\ drafts' \in 0..Depth - 1
    /\ UNCHANGED <<snap, rows, file>>

\* The drafts that can be verified now: as many as are pending, or one.
Verifiable(ts) ==
    /\ Ready("cycle")
    /\ Len(ts) \in 2..drafts + 1 /\ pos + Len(ts) <= Ctx

\* The snapshots a pass over ts leaves, with the state before it or without.
Snapshots(ts, start) ==
    [start |-> IF start THEN Mark(pos, rec) ELSE None,
     row0  |-> Mark(pos + 1, Extend(ts, 1)),
     row1  |-> IF Len(ts) = 3 THEN Mark(pos + 2, Extend(ts, 2)) ELSE None]

\* After n of the rows: a snapshot that is restored changes places with the
\* live state and is invalid until it is written again.
Restored(ts, n, start) ==
    [m \in Marks |-> IF n < Len(ts) /\ m = (IF n = 1 THEN "row0" ELSE "row1")
                     THEN None ELSE Snapshots(ts, start)[m]]

\* The logits that go with the snapshots.
LogitRows(ts, n, start) ==
    [m \in Marks |-> IF Restored(ts, n, start)[m] = None THEN Wrong
                     ELSE IF m = "start" THEN logits
                     ELSE Extend(ts, IF m = "row0" THEN 1 ELSE 2)]

\* The first n of the rows are kept: all, or up to the first rejected draft.
Verified(ts, n, start) ==
    /\ pos' = pos + n
    /\ rec' = Extend(ts, n)
    /\ kv' = Written(ts, n)
    /\ GoesOn(checkpoint \o Take(ts, n), Extend(ts, n))
    /\ snap' = Restored(ts, n, start) /\ rows' = LogitRows(ts, n, start)

\* The state before the block is kept for exact sampling, if there is room.
MayKeepStart == IF Exact THEN BOOLEAN ELSE {FALSE}

CycleVerify(ts) ==
    /\ Verifiable(ts)
    /\ \E n \in 1..Len(ts), start \in MayKeepStart : Verified(ts, n, start)
    /\ drafts' \in 0..Depth - 1
    /\ UNCHANGED file

\* Exact sampling rejects the draft and runs the sample r in its place.
CycleReplaces(ts, r) ==
    /\ Verifiable(ts) /\ Len(ts) = 2 /\ Exact
    /\ LET run == <<ts[1], r>> IN
       /\ Forward(run)
       /\ GoesOn(checkpoint \o run, Extend(run, 2))
       /\ \E start \in BOOLEAN : /\ snap' = Restored(ts, 1, start)
                                 /\ rows' = LogitRows(ts, 1, start)
    /\ drafts' \in 0..Depth - 1
    /\ UNCHANGED file

\* The verify fails, sampling fails after it, or the replacement fails.
CycleFails(ts) ==
    /\ Verifiable(ts)
    /\ valid' = FALSE /\ drafts' = 0 /\ call' = NoCall
    /\ \E start \in MayKeepStart :
       \/ /\ ForwardFails
          /\ snap' = [NoSnaps EXCEPT !["start"] = Snapshots(ts, start)["start"]]
          /\ rows' = [NoRows EXCEPT !["start"] = IF start THEN logits ELSE Wrong]
          /\ UNCHANGED <<checkpoint, rewound, logits>>
       \/ /\ Exact /\ Len(ts) = 2
          /\ Forward(ts)
          /\ checkpoint' = checkpoint \o Take(ts, 1) /\ rewound' = FALSE
          /\ snap' = Restored(ts, 2, start) /\ rows' = LogitRows(ts, 2, start)
          /\ UNCHANGED logits
       \/ /\ Exact /\ Len(ts) = 2
          /\ pos' = pos + 1 /\ rec' = Wrong /\ kv' = Written(ts, 1)
          /\ checkpoint' = checkpoint \o Take(ts, 1) /\ rewound' = FALSE
          /\ snap' = Restored(ts, 1, start) /\ rows' = LogitRows(ts, 1, start)
          /\ logits' = Wrong
    /\ UNCHANGED file

-----------------------------------------------------------------------------
(* A member of a speculative batch: every older snapshot goes, because the *)
(* logit rows of the batch replace theirs.  A plain batch is Eval.         *)

\* A batch does not replay: it is for sessions whose graph is in place.
Batched == call = NoCall /\ valid /\ pos = Len(checkpoint)

BatchPlain_KeepsSnapshots(t) ==
    /\ Batched /\ OneToken(t)
    /\ rows' = [rows EXCEPT !["row0"] = Extend(<<t>>, 1)]
    /\ drafts' \in {0, 1}
    /\ UNCHANGED <<snap, file>>

BatchPlain(t) ==
    /\ Batched /\ OneToken(t)
    /\ snap' = NoSnaps /\ rows' = NoRows
    /\ drafts' \in {0, 1}
    /\ UNCHANGED file

BatchVerify(ts) ==
    /\ Batched /\ drafts > 0 /\ Len(ts) = 2 /\ pos + 2 <= Ctx
    /\ \E n \in 1..2 : Verified(ts, n, FALSE)
    /\ drafts' \in {0, 1}
    /\ UNCHANGED file

\* A batch fails for all of its members: they are invalidated, advanced or not.
BatchFails ==
    /\ Batched /\ pos < Ctx
    /\ ForwardFails
    /\ checkpoint' = <<>> /\ valid' = FALSE /\ logits' = Wrong
    /\ \/ UNCHANGED <<snap, rows>>
       \/ snap' = NoSnaps /\ rows' = NoRows
    /\ drafts' \in {0, drafts}
    /\ UNCHANGED <<rewound, call, file>>

-----------------------------------------------------------------------------
(* Rewind and invalidation.                                                *)

\* Snapshot m is of position n.
Restores(m, n) == snap[m] # None /\ snap[m].pos = n

\* The snapshots are tried in this order.
Chosen(m, n) ==
    /\ Restores(m, n)
    /\ m # "row0" => ~Restores("row0", n)
    /\ m = "start" => ~Restores("row1", n)

\* A verify of three rows whose first draft was rejected leaves the snapshot
\* after the second row behind, of a history that was given up.
Leftover(n) == Restores("row1", n) /\ snap["row1"].of # Take(checkpoint, n)

\* Before the current end, on a valid checkpoint.
Rewinds(n) ==
    /\ call = NoCall /\ valid /\ n < Len(checkpoint)
    /\ LeftoverRewinds \/ ~Leftover(n)
    /\ checkpoint' = Take(checkpoint, n)
    /\ drafts' = 0
    /\ UNCHANGED <<valid, call, file>>

RewindToSnapshot(m, n) ==
    /\ Rewinds(n) /\ Chosen(m, n)
    /\ pos' = snap[m].pos /\ rec' = snap[m].of
    /\ kv' = [i \in 1..snap[m].pos |-> IF i <= pos THEN kv[i] ELSE Wrong]
    /\ snap' = NoSnaps /\ rows' = NoRows
    /\ logits' = rows[m] /\ rewound' = FALSE

RewindResets_KeepsLogits(n) ==
    /\ Rewinds(n) /\ ~\E m \in Marks : Restores(m, n)
    /\ Reset
    /\ UNCHANGED <<logits, rewound>>

RewindResets(n) ==
    /\ Rewinds(n) /\ ~\E m \in Marks : Restores(m, n)
    /\ Reset
    /\ rewound' = TRUE /\ UNCHANGED logits

\* An invalid checkpoint is only cut.
RewindInvalid(n) ==
    /\ call = NoCall /\ ~valid /\ n < Len(checkpoint)
    /\ checkpoint' = Take(checkpoint, n) /\ drafts' = 0
    /\ UNCHANGED <<valid, rewound, graphVars, snap, rows, logits, call, file>>

\* The graph stays as it is: nothing uses it before a sync has reset it.
Invalidate ==
    /\ call = NoCall
    /\ checkpoint' = <<>> /\ valid' = FALSE
    /\ UNCHANGED <<rewound, drafts, graphVars, snap, rows, logits, call, file>>

-----------------------------------------------------------------------------
(* Payloads.                                                               *)

Saveable_Rewound == valid /\ pos = Len(checkpoint)

\* qwen4_session_save_payload
Saveable == valid /\ ~rewound /\ pos = Len(checkpoint)

\* Of an idle session, or by the progress callback of a sync.
Save ==
    /\ call.stage \in {"none", "sync"} /\ Saveable /\ Len(checkpoint) <= MaxSaved
    /\ file' = [tokens |-> checkpoint, of |-> IF logits = State THEN State ELSE Wrong]
    /\ UNCHANGED <<historyVars, drafts, graphVars, snap, rows, logits, call>>

Load_KeepsSnapshots ==
    /\ call = NoCall /\ file # None
    /\ checkpoint' = file.tokens /\ valid' = TRUE /\ rewound' = FALSE /\ drafts' = 0
    /\ pos' = Len(file.tokens) /\ rec' = file.of
    /\ kv' = [i \in 1..Len(file.tokens) |-> IF file.of = Wrong THEN Wrong ELSE Take(file.of, i)]
    /\ logits' = file.of
    /\ UNCHANGED <<snap, rows, call, file>>

\* qwen4_session_load_payload
Load ==
    /\ call = NoCall /\ file # None
    /\ checkpoint' = file.tokens /\ valid' = TRUE /\ rewound' = FALSE /\ drafts' = 0
    /\ pos' = Len(file.tokens) /\ rec' = file.of
    /\ kv' = [i \in 1..Len(file.tokens) |-> IF file.of = Wrong THEN Wrong ELSE Take(file.of, i)]
    /\ logits' = file.of
    /\ snap' = NoSnaps /\ rows' = NoRows
    /\ UNCHANGED <<call, file>>

\* The file ends early: before the state is touched, or in the middle of it.
LoadFails ==
    /\ call = NoCall /\ file # None
    /\ valid' = FALSE /\ drafts' = 0 /\ logits' = Wrong
    /\ \/ snap' = NoSnaps /\ rows' = NoRows /\ UNCHANGED <<checkpoint, graphVars>>
       \/ checkpoint' = <<>> /\ Reset
    /\ UNCHANGED <<rewound, call, file>>

-----------------------------------------------------------------------------
Blocks == {<<t, d>> : t, d \in Tokens}
          \cup IF Depth = 3 THEN {<<t, d, e>> : t, d, e \in Tokens} ELSE {}

Next ==
    \/ \E p \in Prompts : BeginSync(p)
    \/ SyncChunk \/ SyncFails \/ SyncCancelled \/ SyncDone
    \/ \E op \in {"eval", "cycle"} : Replay(op)
    \/ \E t \in Tokens : Eval(t) \/ CyclePlain(t) \/ BatchPlain(t)
    \/ EvalFails \/ BatchFails
    \/ \E ts \in Blocks : CycleVerify(ts) \/ CycleFails(ts) \/ BatchVerify(ts)
    \/ \E ts \in Blocks, r \in Tokens : CycleReplaces(ts, r)
    \/ \E n \in 0..Ctx : RewindResets(n) \/ RewindInvalid(n)
    \/ \E m \in Marks, n \in 0..Ctx : RewindToSnapshot(m, n)
    \/ Invalidate \/ Save \/ Load \/ LoadFails

Spec == Init /\ [][Next]_vars

-----------------------------------------------------------------------------
(* Properties.                                                             *)

Histories == {h \in Seq(Tokens) : Len(h) <= Ctx}
Contents  == Histories \cup {Wrong}

TypeOK ==
    /\ checkpoint \in Histories /\ valid \in BOOLEAN /\ rewound \in BOOLEAN
    /\ drafts \in 0..2 /\ pos \in 0..Ctx /\ rec \in Contents
    /\ kv \in [1..pos -> Contents]
    /\ snap \in [Marks -> [pos : 0..Ctx, of : Contents] \cup {None}]
    /\ rows \in [Marks -> Contents] /\ logits \in Contents
    /\ \/ call.stage \in {"none", "eval", "cycle"}
       \/ /\ call.stage = "sync" /\ call.prompt \in Histories
          /\ call.back \in {"none", "eval", "cycle"}
    /\ file # None => file.tokens \in Histories /\ file.of \in Contents

\* A session that claims to be valid is: graph and transcript agree, or the
\* graph was reset by a rewind and waits for the replay of the transcript.
SoundState == valid => \/ State = checkpoint
                       \/ rewound /\ pos = 0 /\ call = NoCall

\* The logits a caller samples from are those of the transcript.
SoundLogits == valid /\ ~rewound => logits = checkpoint

\* A payload holds the state and the logits of the tokens it is saved under.
SavedSound == file # None => file.of = file.tokens

\* A snapshot a rewind could choose is of the transcript, and so are the
\* logits that would be put back with it.
SnapshotsBelong ==
    valid => \A n \in 0..Len(checkpoint) - 1, m \in Marks :
        Chosen(m, n) /\ (LeftoverRewinds \/ ~Leftover(n))
            => snap[m].of = Take(checkpoint, n) /\ rows[m] = Take(checkpoint, n)
=============================================================================
