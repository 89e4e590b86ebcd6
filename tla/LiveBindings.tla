---------------------------- MODULE LiveBindings ----------------------------
(***************************************************************************)
(* How ds4_server.c finds the model state a request continues from.  What  *)
(* a client sends back is not what the model has seen: reasoning is left   *)
(* out, text may be spelled by other tokens, a tool result may come with   *)
(* nothing but the id of its call.  So a slot remembers, for the end of    *)
(* its last turn, by what a continuation may be known: the visible text,   *)
(* the call id, or both.  A request is tried against these bindings, then  *)
(* against the text of the session, then against the checkpoints on disk,  *)
(* which may be stored under the visible text as well.                     *)
(*                                                                         *)
(* A token is an item of a conversation: a user's or a tool's message, the *)
(* reasoning of a turn, its answer, a tool call, the end marker of a turn. *)
(* An answer may be sampled in a spelling that the tokenizer would not     *)
(* choose for its text.  A call stands for its id too: call ids are        *)
(* random and never repeat.                                                *)
(*                                                                         *)
(* Abstracted: which idle slot a request is routed to, when a checkpoint   *)
(* is due, and where a prefill is interrupted, is any choice; checkpoints  *)
(* and sessions are never wrong (KvStore, QwenSession); every request      *)
(* thinks, has no image, and replays its history as it was given;          *)
(* tool calls are replayed byte for byte (the default), so that none is    *)
(* canonicalized, and none is repaired.                                    *)
(*                                                                         *)
(* A definition named Op_What is a slip in Op that the properties must     *)
(* catch; nothing refers to it.                                            *)
(***************************************************************************)
EXTENDS Integers, Sequences, SequencesExt

CONSTANTS Slots,
          Clients,
          Kinds,       \* bound: what the clients may be, a set of [Clients -> Kind]
          Messages,    \* what a user may say
          Results,     \* and a tool
          Calls,       \* bound: the tool calls that are made, and their ids
          Ctx,         \* ctx_size
          MinTokens,   \* min_tokens of a checkpoint
          MaxFiles,    \* bound: the checkpoints the directory has room for
          Coincide,    \* whether a stop signal may interrupt a prefill at the
                       \* very position of a binding to another session
          None

Items == Messages \cup Results \cup Calls \cup {"reasoning", "answer", "answer'", "end"}
Texts == Seq(Items)
Histories == {h \in Texts : Len(h) <= Ctx}

Kind == [api : {"openai", "anthropic", "responses"}, tools : BOOLEAN, resends : BOOLEAN]
Requests == [means : Texts, prompt : {t \in Texts : Len(t) \in 1..Ctx - 1}, id : Calls \cup {None},
             needs : BOOLEAN]
Bindings == [by : Clients, needs : BOOLEAN, text : Texts, id : Calls \cup {None},
             at : 0..Ctx, of : Histories, byTokens : BOOLEAN]
Checkpoints == [key : Texts, of : Histories,
                kind : {"token-text", "responses-visible", "thinking-visible"}]
Tiers == {"none", "disk-text", "responses-visible", "responses-tool-output",
          "anthropic-tool-output", "memory-token", "thinking-visible", "memory-text"}
Turns == [by : Clients, stage : {"prefill", "decode"}, via : Tiers, effective : Texts,
          file : Checkpoints \cup {None}]

ASSUME BindingsAssumption ==
    /\ Kinds \subseteq [Clients -> Kind]
    /\ {Ctx, MinTokens, MaxFiles} \subseteq Nat \ {0} /\ Coincide \in BOOLEAN
    /\ None \notin Turns /\ None \notin Checkpoints

\* The marks around an item tell what it is.
ASSUME ItemsAssumption ==
    /\ Messages \cap Results = {} /\ Messages \cap Calls = {} /\ Results \cap Calls = {}
    /\ {"reasoning", "answer", "answer'", "end"} \cap (Messages \cup Results \cup Calls) = {}
    /\ None \notin Calls

VARIABLES
    kind,       \* the protocol of a client, whether it offers tools, and
                \* whether it sends the reasoning of its history back
    chat,       \* what a client knows of its conversation
    asked,      \* its request, until it is answered
    made,       \* the ids given out
    live,       \* the tokens of a slot's session; empty where not valid
    responses,  \* responses_live of a slot
    anthropic,  \* anthropic_live
    thinking,   \* thinking_live
    turn,       \* the job a slot works on
    disk,       \* the checkpoint directory
    stopping    \* g_stop_requested

bindings == <<responses, anthropic, thinking>>
vars == <<kind, chat, asked, made, live, responses, anthropic, thinking, turn, disk, stopping>>

Drop(t, n) == SubSeq(t, n + 1, Len(t))

\* The text of tokens, and that of an output without its reasoning.
Text(t)      == [i \in 1..Len(t) |-> IF t[i] = "answer'" THEN "answer" ELSE t[i]]
Visible(out) == IF Head(out) = "reasoning" THEN Tail(Text(out)) ELSE Text(out)

Api(c) == kind[c].api

-----------------------------------------------------------------------------
Init ==
    /\ kind \in Kinds
    /\ chat = [c \in Clients |-> <<>>] /\ asked = [c \in Clients |-> None]
    /\ made = {}
    /\ live = [s \in Slots |-> <<>>]
    /\ responses = [s \in Slots |-> None] /\ anthropic = [s \in Slots |-> None]
    /\ thinking = [s \in Slots |-> None]
    /\ turn = [s \in Slots |-> None]
    /\ disk = {} /\ stopping = FALSE

-----------------------------------------------------------------------------
(* Requests.                                                               *)

\* The call that ends the history h of a client, if one does.
OpenCall(h) == IF Len(h) > 1 /\ h[Len(h) - 1] \in Calls THEN h[Len(h) - 1] ELSE None

\* {responses,anthropic}_live_has_call_id
Known(c, id) ==
    \E s \in Slots : LET b == IF Api(c) = "responses" THEN responses[s] ELSE anthropic[s]
                     IN  b # None /\ b.id = id

\* The client replays its history, or sends only the output of the call.
Request(c, m, alone) ==
    LET means == Append(chat[c], m) IN
    [means  |-> means,
     prompt |-> IF alone THEN <<m>> ELSE means,
     id     |-> IF Api(c) = "openai" THEN None ELSE OpenCall(chat[c]),
     needs  |-> alone]   \* {responses,anthropic}_requires_live_tool_state

\* What comes without history must be known.
Ask(c, m, alone) ==
    /\ ~stopping /\ asked[c] = None
    /\ m \in (IF OpenCall(chat[c]) = None THEN Messages ELSE Results)
    /\ alone => /\ Api(c) # "openai" /\ OpenCall(chat[c]) # None
                /\ Known(c, OpenCall(chat[c]))
    /\ Len(Request(c, m, alone).prompt) < Ctx
    /\ asked' = [asked EXCEPT ![c] = Request(c, m, alone)]
    /\ UNCHANGED <<kind, chat, made, live, bindings, turn, disk, stopping>>

-----------------------------------------------------------------------------
(* The reuse ladder: slot_probe_reuse_locked.                              *)

AtFrontier_AnyPosition(b, s) == b # None

\* Binding b was remembered where the session of the slot now stands.
AtFrontier(b, s) == b # None /\ b.at = Len(live[s])

Continues(b, s, r) == AtFrontier(b, s) /\ IsStrictPrefix(b.text, r.prompt)
Answers(b, s, r)   == AtFrontier(b, s) /\ r.id # None /\ b.id = r.id

Reuse(s, c) ==
    LET r == asked[c] IN
    IF live[s] = <<>> THEN "none"
    ELSE IF Api(c) = "responses" /\ Continues(responses[s], s, r) THEN "responses-visible"
    ELSE IF Api(c) = "responses" /\ Answers(responses[s], s, r)   THEN "responses-tool-output"
    ELSE IF Api(c) = "anthropic" /\ Answers(anthropic[s], s, r)   THEN "anthropic-tool-output"
    ELSE IF IsPrefix(live[s], r.prompt)                           THEN "memory-token"
    ELSE IF Api(c) # "responses" /\ Continues(thinking[s], s, r)  THEN "thinking-visible"
    ELSE IF IsPrefix(Text(live[s]), r.prompt)                     THEN "memory-text"
    ELSE "none"

\* The exact tokens of the session, and of the text only what is new.
Effective(s, c) ==
    LET r == asked[c] IN
    CASE Reuse(s, c) = "responses-visible" -> live[s] \o Drop(r.prompt, Len(responses[s].text))
      [] Reuse(s, c) = "thinking-visible"  -> live[s] \o Drop(r.prompt, Len(thinking[s].text))
      [] Reuse(s, c) \in {"responses-tool-output", "anthropic-tool-output"}
                                           -> live[s] \o <<"end", Last(r.prompt)>>
      [] Reuse(s, c) = "memory-text"       -> live[s] \o Drop(r.prompt, Len(live[s]))
      [] OTHER                             -> r.prompt

ToolTiers == {"responses-visible", "responses-tool-output", "anthropic-tool-output"}

\* A call output without history has nothing else to continue from.
Unavailable(s, c) == asked[c].needs /\ Reuse(s, c) \notin ToolTiers

\* job_required_slot_locked
Bound(s, c) == LET b == IF Api(c) = "responses" THEN responses[s] ELSE anthropic[s]
               IN  asked[c].needs /\ b # None /\ b.id = asked[c].id

\* The slot may take the request of the client.
Takes(s, c) ==
    /\ turn[s] = None /\ asked[c] # None
    /\ \A z \in Slots : turn[z] # None => turn[z].by # c
    /\ (\E z \in Slots : Bound(z, c)) => Bound(s, c)

Work(c, via, effective, file) ==
    [by |-> c, stage |-> "prefill", via |-> via, effective |-> effective, file |-> file]

Refuse(s, c) ==
    /\ Takes(s, c) /\ Unavailable(s, c)
    /\ asked' = [asked EXCEPT ![c] = None]
    /\ UNCHANGED <<kind, chat, made, live, bindings, turn, disk, stopping>>

StartLive(s, c) ==
    /\ Takes(s, c) /\ ~Unavailable(s, c) /\ Reuse(s, c) # "none"
    /\ turn' = [turn EXCEPT ![s] = Work(c, Reuse(s, c), Effective(s, c), None)]
    /\ UNCHANGED <<kind, chat, asked, made, live, bindings, disk, stopping>>

-----------------------------------------------------------------------------
(* Checkpoints.                                                            *)

\* A text that is on disk already is not written again; a new one may take
\* the place of others.
Put(d, e) ==
    IF \E x \in d : x.key = e.key THEN {d}
    ELSE {x \cup {e} : x \in {y \in SUBSET d : Cardinality(y) = Min({Cardinality(d), MaxFiles - 1})}}

ByTokens(t) == [key |-> Text(t), of |-> t, kind |-> "token-text"]

CheckpointOf_AnyPosition(s) ==
    CASE responses[s] # None ->
             [key |-> responses[s].text, of |-> live[s], kind |-> "responses-visible"]
      [] OTHER -> ByTokens(live[s])

\* kv_cache_store_current: under the visible text, where that is known.
CheckpointOf(s) ==
    CASE AtFrontier(responses[s], s) ->
             [key |-> responses[s].text, of |-> live[s], kind |-> "responses-visible"]
      [] ~AtFrontier(responses[s], s) /\ AtFrontier(thinking[s], s) /\ ~thinking[s].byTokens ->
             [key |-> thinking[s].text, of |-> live[s], kind |-> "thinking-visible"]
      [] OTHER -> ByTokens(live[s])

Persisted(s) == IF Len(live[s]) < MinTokens THEN {disk} ELSE Put(disk, CheckpointOf(s))

\* The checkpoint with the longest text the prompt begins with.
Matches(d, p) == {e \in d : IsPrefix(e.key, p)}
Longest(d, p) == {e \in Matches(d, p) : \A x \in Matches(d, p) : Len(x.key) <= Len(e.key)}

\* The session is replaced; what it holds is persisted first.  A checkpoint
\* that does not load leaves it invalid.
StartCold(s, c) ==
    /\ Takes(s, c) /\ ~Unavailable(s, c) /\ Reuse(s, c) = "none"
    /\ disk' \in Persisted(s)
    /\ LET p == asked[c].prompt IN
       \/ /\ Matches(disk', p) = {}
          /\ turn' = [turn EXCEPT ![s] = Work(c, "none", p, None)]
          /\ UNCHANGED live
       \/ /\ Matches(disk', p) # {}
          /\ turn' = [turn EXCEPT ![s] = Work(c, "none", p, None)]
          /\ live' = [live EXCEPT ![s] = <<>>]
       \/ \E e \in Longest(disk', p) :
          /\ live' = [live EXCEPT ![s] = e.of]
          /\ turn' = [turn EXCEPT ![s] = Work(c, "disk-text", e.of \o Drop(p, Len(e.key)), e)]
    /\ UNCHANGED <<kind, chat, asked, made, bindings, stopping>>

-----------------------------------------------------------------------------
(* The prefill.                                                            *)

Prefilling(s) == turn[s] # None /\ turn[s].stage = "prefill"

\* The job of the slot is over.
EndJob(s) ==
    /\ turn' = [turn EXCEPT ![s] = None]
    /\ asked' = [asked EXCEPT ![turn[s].by] = None]

\* request_live_state_clear
ForgetAll(s) ==
    /\ responses' = [responses EXCEPT ![s] = None]
    /\ anthropic' = [anthropic EXCEPT ![s] = None]
    /\ thinking' = [thinking EXCEPT ![s] = None]

\* kv_cache_discard_failed_disk_entry, with the session left at f.
Discard(s, f) ==
    /\ disk' = disk \ {turn[s].file}
    /\ live' = [live EXCEPT ![s] = IF turn[s].file = None THEN f ELSE <<>>]

\* What the quanta of a sync leave that does not end: the session as it was,
\* or at a prefix of what it was to become.
Frontiers(s) ==
    {live[s]} \cup {SubSeq(turn[s].effective, 1, n) : n \in
        (IF IsPrefix(live[s], turn[s].effective) THEN Len(live[s]) ELSE 1)
        ..Min({Len(turn[s].effective), Ctx}) - 1}

\* A chunk fails, or the prompt is longer than the context by what the
\* client does not see: the bindings stay.
PrefillFails(s) ==
    /\ Prefilling(s)
    /\ \/ Discard(s, <<>>)
       \/ Len(turn[s].effective) >= Ctx /\ \E f \in Frontiers(s) : Discard(s, f)
    /\ EndJob(s)
    /\ UNCHANGED <<kind, chat, made, bindings, stopping>>

\* Midway, or when all is done.
PrefillCancelled(s) ==
    /\ Prefilling(s)
    /\ \/ \E f \in Frontiers(s) \cup {<<>>} : Discard(s, f)
       \/ /\ Len(turn[s].effective) < Ctx
          /\ live' = [live EXCEPT ![s] = turn[s].effective] /\ UNCHANGED disk
    /\ ForgetAll(s) /\ EndJob(s)
    /\ UNCHANGED <<kind, chat, made, stopping>>

\* A stop signal ends a sync like a failure does, with the session valid.
PrefillStopped(s) ==
    /\ stopping /\ Prefilling(s)
    /\ \E f \in Frontiers(s) :
        /\ Discard(s, f)
        /\ Coincide \/ \A b \in {responses[s], anthropic[s], thinking[s]} :
                          b # None /\ b.at = Len(f) => b.of = f
    /\ EndJob(s)
    /\ UNCHANGED <<kind, chat, made, bindings, stopping>>

\* The bindings the request did not continue from are stale from here on.
Unless(via, b) == IF via THEN b ELSE None

ForgetOthers_KeepsResponses(s) ==
    /\ UNCHANGED responses
    /\ anthropic' = [anthropic EXCEPT ![s] = Unless(turn[s].via = "anthropic-tool-output", @)]
    /\ thinking' = [thinking EXCEPT ![s] = Unless(turn[s].via = "thinking-visible", @)]

ForgetOthers(s) ==
    LET v == turn[s].via IN
    /\ responses' = [responses EXCEPT ![s] =
           Unless(v \in {"responses-visible", "responses-tool-output"}, @)]
    /\ anthropic' = [anthropic EXCEPT ![s] = Unless(v = "anthropic-tool-output", @)]
    /\ thinking' = [thinking EXCEPT ![s] = Unless(v = "thinking-visible", @)]

\* A cold or a continued checkpoint may be due.
PrefillDone(s) ==
    /\ Prefilling(s) /\ Len(turn[s].effective) < Ctx
    /\ live' = [live EXCEPT ![s] = turn[s].effective]
    /\ ForgetOthers(s)
    /\ disk' \in {disk} \cup IF Len(turn[s].effective) < MinTokens THEN {}
                             ELSE Put(disk, ByTokens(turn[s].effective))
    /\ turn' = [turn EXCEPT ![s].stage = "decode"]
    /\ UNCHANGED <<kind, chat, asked, made, stopping>>

-----------------------------------------------------------------------------
(* The generation, and what is remembered of it.                           *)

Decoding(s) == turn[s] # None /\ turn[s].stage = "decode"

\* One of the items, with reasoning before it or without.  The stop token that
\* ends an answer is not evaluated.
EndsIn(S) == {<<i>> : i \in S} \cup {<<"reasoning", i>> : i \in S}
Answered  == EndsIn({"answer", "answer'"})
Called    == EndsIn(Calls \ made)

Fits_PastContext(s, out) == TRUE
Fits(s, out) == Len(live[s]) + Len(out) <= Ctx

Outputs(s) ==
    {out \in Answered \cup (IF kind[turn[s].by].tools THEN Called ELSE {}) : Fits(s, out)}
CallOf(out) == IF Last(out) \in Calls THEN Last(out) ELSE None

\* A binding to a session at t.
Remember(c, text, id, t, byTokens) ==
    [by |-> c, needs |-> asked[c].needs, text |-> text, id |-> id, at |-> Len(t), of |-> t, byTokens |-> byTokens]

\* build_responses_visible_assistant_suffix; with a call the reasoning may
\* have been shown, as a summary.
ResponsesTexts(r, out) ==
    {r.prompt \o Visible(out) \o <<"end">>}
    \cup IF CallOf(out) = None THEN {} ELSE {r.prompt \o Text(out) \o <<"end">>}

ThinkingText_AsSampled(r, out) == r.prompt \o Text(out)

\* build_thinking_visible_text, build_qwen_tool_turn_visible_text
ThinkingText(r, out) ==
    r.prompt \o Visible(out) \o (IF CallOf(out) = None THEN <<"end">> ELSE <<>>)

ContinuedVisibly(s) == \/ turn[s].via = "thinking-visible"
                       \/ turn[s].file # None /\ turn[s].file.kind = "thinking-visible"

\* should_remember_thinking_checkpoint; a call is remembered for the chat API only.
Rememberable(c, out) ==
    /\ ~stopping
    /\ \/ Api(c) = "openai"
       \/ Api(c) = "anthropic" /\ CallOf(out) = None /\ ~kind[c].tools

\* The turn ends well with output out, and its session at t.
RememberTurn(s, out, t) ==
    LET c == turn[s].by
        r == asked[c]
        byTokens == CallOf(out) = None /\ kind[c].tools /\ ~ContinuedVisibly(s)
    IN
    /\ \E x \in ResponsesTexts(r, out) : responses' =
           IF Api(c) # "responses" THEN responses
           ELSE [responses EXCEPT ![s] = Remember(c, x, CallOf(out), t, FALSE)]
    /\ anthropic' = [anthropic EXCEPT ![s] =
           IF Api(c) = "anthropic" /\ CallOf(out) # None
           THEN Remember(c, <<>>, CallOf(out), t, FALSE) ELSE None]
    /\ thinking' = [thinking EXCEPT ![s] =
           IF Rememberable(c, out)
           THEN Remember(c, ThinkingText(r, out), None, t, byTokens) ELSE None]

\* The client reads output out, and knows its conversation by it.
Read(s, out) ==
    LET c == turn[s].by IN
    chat' = [chat EXCEPT ![c] =
        asked[c].means \o (IF kind[c].resends THEN Text(out) ELSE Visible(out)) \o <<"end">>]

\* The model ends its turn, or calls a tool.  A stop signal turns an answer
\* into an error, but not a call.
TurnEnds(s) ==
    /\ Decoding(s)
    /\ \E out \in Outputs(s) :
        LET t == live[s] \o out IN
        /\ ~stopping \/ CallOf(out) # None
        /\ live' = [live EXCEPT ![s] = t]
        /\ made' = made \cup ({CallOf(out)} \ {None})
        /\ RememberTurn(s, out, t) /\ Read(s, out)
    /\ EndJob(s)
    /\ UNCHANGED <<kind, disk, stopping>>

\* The answer runs into a stop sequence of the client, which cuts it there:
\* the session holds more than that and is invalidated.
StopSequence(s) ==
    /\ Decoding(s) /\ ~stopping
    /\ \E out \in Outputs(s) :
        /\ CallOf(out) = None
        /\ live' = [live EXCEPT ![s] = <<>>]
        /\ RememberTurn(s, out, <<>>) /\ Read(s, out)
    /\ EndJob(s)
    /\ UNCHANGED <<kind, made, disk, stopping>>

\* The limit of tokens is reached: nothing is remembered.
CutShort(s) ==
    /\ Decoding(s) /\ ~stopping
    /\ \E out \in Outputs(s) \cup {<<"reasoning">>} :
        /\ CallOf(out) = None /\ Fits(s, out)
        /\ live' = [live EXCEPT ![s] = @ \o out]
        /\ Read(s, out)
    /\ ForgetAll(s) /\ EndJob(s)
    /\ UNCHANGED <<kind, made, disk, stopping>>

\* The job is cancelled, the answer cannot be written, or an evaluation fails.
TurnLost(s) ==
    /\ Decoding(s)
    /\ \E out \in {<<>>, <<"reasoning">>, <<"answer">>} :
        \/ Fits(s, out) /\ live' = [live EXCEPT ![s] = @ \o out]
        \/ live' = [live EXCEPT ![s] = <<>>]
    /\ ForgetAll(s) /\ EndJob(s)
    /\ UNCHANGED <<kind, chat, made, disk, stopping>>

-----------------------------------------------------------------------------
(* Stop, crash, restart.                                                   *)

\* What is queued is still taken.
Stop ==
    /\ ~stopping /\ stopping' = TRUE
    /\ UNCHANGED <<kind, chat, asked, made, live, bindings, turn, disk>>

\* After the last job the session of each slot is persisted, and let go.
Persist(s) ==
    /\ stopping /\ (\A z \in Slots : turn[z] = None) /\ (\A c \in Clients : asked[c] = None)
    /\ live[s] # <<>>
    /\ disk' \in Persisted(s)
    /\ live' = [live EXCEPT ![s] = <<>>]
    /\ UNCHANGED <<kind, chat, asked, made, bindings, turn, stopping>>

\* The end of the process, or a crash at any point: the memory of the server
\* is lost, and all its connections.
Restart ==
    /\ live' = [s \in Slots |-> <<>>]
    /\ responses' = [s \in Slots |-> None] /\ anthropic' = [s \in Slots |-> None]
    /\ thinking' = [s \in Slots |-> None]
    /\ turn' = [s \in Slots |-> None]
    /\ asked' = [c \in Clients |-> None]
    /\ stopping' = FALSE
    /\ UNCHANGED <<kind, chat, made, disk>>

-----------------------------------------------------------------------------
Next ==
    \/ \E c \in Clients, m \in Messages \cup Results : \E alone \in BOOLEAN : Ask(c, m, alone)
    \/ \E s \in Slots, c \in Clients : Refuse(s, c) \/ StartLive(s, c) \/ StartCold(s, c)
    \/ \E s \in Slots :
        \/ PrefillFails(s) \/ PrefillCancelled(s) \/ PrefillStopped(s) \/ PrefillDone(s)
        \/ TurnEnds(s) \/ StopSequence(s) \/ CutShort(s) \/ TurnLost(s)
        \/ Persist(s)
    \/ Stop \/ Restart

Spec == Init /\ [][Next]_vars

-----------------------------------------------------------------------------
(* Properties.                                                             *)

TypeOK ==
    /\ kind \in Kinds /\ made \subseteq Calls /\ stopping \in BOOLEAN
    /\ chat \in [Clients -> Texts] /\ asked \in [Clients -> Requests \cup {None}]
    /\ live \in [Slots -> Histories]
    /\ responses \in [Slots -> Bindings \cup {None}]
    /\ anthropic \in [Slots -> Bindings \cup {None}]
    /\ thinking \in [Slots -> Bindings \cup {None}]
    /\ turn \in [Slots -> Turns \cup {None}]
    /\ disk \subseteq Checkpoints

\* The items of t that are not in S.
Without(t, S) ==
    LET upTo[n \in 0..Len(t)] ==
            IF n = 0 THEN <<>>
            ELSE IF t[n] \in S THEN upTo[n - 1] ELSE Append(upTo[n - 1], t[n])
    IN  upTo[Len(t)]

\* The text of t without reasoning, and without the marks of turns either.
Shown(t) == Without(Text(t), {"reasoning"})
Said(t)  == Without(Text(t), {"reasoning", "end"})

\* Whatever a request continues from, and whether or not it sends its history,
\* the model is given the conversation of its client and nothing else.
AnswersTheChat ==
    \A s \in Slots : turn[s] # None => Said(turn[s].effective) = Said(asked[turn[s].by].means)

\* The turns before the last message are closed as the client's text closes
\* them: the end marker that stopped a generation is evaluated later.
TurnsAreClosed ==
    \A s \in Slots : turn[s] # None =>
        Shown(turn[s].effective) = Shown(asked[turn[s].by].means)

\* A binding that would be taken for a binding to the session of an idle slot
\* was made for just that session.
BindingsHonest ==
    \A s \in Slots : turn[s] = None /\ live[s] # <<>> =>
        \A b \in {responses[s], anthropic[s], thinking[s]} :
            AtFrontier(b, s) => b.of = live[s]

\* A checkpoint is stored under what was said last in it (all of it, but for a
\* turn that was given a tool's output alone).
KeysHonest == \A e \in disk : IsSuffix(Said(e.key), Said(e.of))

\* No turn is prefilled twice for want of what a client leaves out: where the
\* session of a slot still is what the last turn of a client has left, and the
\* client does not send its reasoning back, its next request continues from
\* it.  (Not so where it replays all it was told only after it has sent a
\* call's output alone.)
ContinuesLive ==
    \A s \in Slots, c \in Clients :
        /\ turn[s] = None /\ live[s] # <<>> /\ asked[c] # None /\ ~kind[c].resends
        /\ \E b \in {responses[s], anthropic[s], thinking[s]} :
              /\ AtFrontier(b, s) /\ b.by = c /\ Said(b.of) = Said(chat[c])
              /\ b.needs => asked[c].needs
        => Reuse(s, c) # "none"
=============================================================================
