------------------------- MODULE QwenSessionProofs -------------------------
(***************************************************************************)
(* The invariants of QwenSession, for every vocabulary, context, chunk and *)
(* set of prompts, provided no rewind lands on a leftover snapshot (the    *)
(* run session_deep shows what happens then).                              *)
(*                                                                         *)
(* What makes them inductive is where the graph may be: in place, which is *)
(* at the transcript with all of its cache rows, or waiting after a rewind *)
(* that reset it; and that the snapshots of the block start and the first  *)
(* row are always of the transcript, because each new block replaces them. *)
(***************************************************************************)
EXTENDS QwenSession, SequenceTheorems, TLAPS

-----------------------------------------------------------------------------
(* Prefixes.                                                               *)

\* A prefix is a sequence of the length asked for.
LEMMA TakeIsSeq ==
    ASSUME NEW h \in Seq(Tokens), NEW n \in 0..Len(h)
    PROVE  Take(h, n) \in Seq(Tokens) /\ Len(Take(h, n)) = n
<1>1. \A i \in 1..n : h[i] \in Tokens
  BY ElementOfSeq
<1> QED BY <1>1, SubSeqProperties DEF Take

\* The whole is a prefix of itself.
LEMMA TakeAll ==
    ASSUME NEW h \in Seq(Tokens)
    PROVE  Take(h, Len(h)) = h
BY SubSeqFull DEF Take

\* What is appended does not change a prefix.
LEMMA TakeOfConcat ==
    ASSUME NEW h \in Seq(Tokens), NEW g \in Seq(Tokens), NEW n \in 0..Len(h)
    PROVE  Take(h \o g, n) = Take(h, n)
<1>1. CASE n = 0
  BY <1>1, SubSeqEmpty DEF Take
<1>2. CASE n # 0
  BY <1>2, SubSeqOfConcat1 DEF Take
<1> QED BY <1>1, <1>2

\* A longer prefix is the whole and a prefix of what is appended.
LEMMA TakePastConcat ==
    ASSUME NEW h \in Seq(Tokens), NEW g \in Seq(Tokens), NEW k \in 0..Len(g)
    PROVE  Take(h \o g, Len(h) + k) = h \o Take(g, k)
<1> DEFINE s == h \o g
<1>1. s \in Seq(Tokens) /\ Len(s) = Len(h) + Len(g) /\ Len(h) \in Nat /\ Len(g) \in Nat
  BY ConcatProperties, LenProperties
<1>2. SubSeq(s, 1, Len(h)) = h
  <2>1. Take(s, Len(h)) = Take(h, Len(h))
    BY <1>1, TakeOfConcat
  <2> QED BY <2>1, TakeAll DEF Take
<1>3. SubSeq(s, Len(h) + 1, Len(h) + k) = Take(g, k)
  <2>1. CASE k = 0
    BY <1>1, <2>1, SubSeqEmpty DEF Take
  <2>2. CASE k # 0
    BY <1>1, <2>2, SubSeqOfConcat2 DEF Take
  <2> QED BY <2>1, <2>2
<1>4. 1 \in 1..Len(s) + 1 /\ Len(h) \in 1 - 1..Len(s) /\ Len(h) + k \in Len(h)..Len(s)
  BY <1>1
<1> HIDE DEF s
<1>5. SubSeq(s, 1, Len(h)) \o SubSeq(s, Len(h) + 1, Len(h) + k) = SubSeq(s, 1, Len(h) + k)
  BY <1>1, <1>4, ConcatAdjacentSubSeq, Zenon
<1> QED BY <1>2, <1>3, <1>5 DEF Take, s

\* A prefix of a prefix.
LEMMA TakeOfTake ==
    ASSUME NEW h \in Seq(Tokens), NEW m \in 0..Len(h), NEW n \in 0..m
    PROVE  Take(Take(h, m), n) = Take(h, n)
<1>1. CASE n = 0
  BY <1>1, SubSeqEmpty DEF Take
<1>2. CASE n # 0
  BY <1>2, SubSeqOfSubSeq, LenProperties DEF Take
<1> QED BY <1>1, <1>2

-----------------------------------------------------------------------------
(* The inductive invariant.                                                *)

\* The graph is at the end of the transcript, with all of its rows.
InPlace ==
    /\ rec = checkpoint /\ pos = Len(checkpoint)
    /\ \A i \in 1..pos : kv[i] = Take(checkpoint, i)

\* A rewind has reset it; the transcript is to be replayed.
Waiting == rewound /\ pos = 0 /\ rec = <<>> /\ snap = NoSnaps /\ call = NoCall

Placed == valid => InPlace \/ Waiting

\* A valid snapshot and its logits are of one history.
Matching == \A m \in Marks : snap[m] # None => rows[m] = snap[m].of

\* The snapshots of the start and the first row are of the transcript.
Belong == valid => \A m \in {"start", "row0"} : snap[m] # None =>
            /\ snap[m].pos <= Len(checkpoint)
            /\ snap[m].of = Take(checkpoint, snap[m].pos)

\* Nothing is drafted from stale logits.
Undrafted == rewound => drafts = 0

\* A sync works its way through the prompt, from the start or from a valid
\* session; what goes on after a replay has a valid session.
Fresh == checkpoint = <<>> /\ pos = 0 /\ rec = <<>> /\ snap = NoSnaps

Underway ==
    /\ call.stage = "sync" =>
         /\ valid \/ Fresh
         /\ call.prompt # <<>> /\ Len(checkpoint) <= Len(call.prompt)
         /\ checkpoint = Take(call.prompt, Len(checkpoint))
    /\ call.stage \in {"eval", "cycle"} => valid

IInv == /\ TypeOK /\ Placed /\ SoundLogits /\ SavedSound /\ Matching /\ Belong
        /\ Undrafted /\ Underway

-----------------------------------------------------------------------------
(* What the graph makes of a pass where it is in place.                    *)

LEMMA StateInPlace ==
    ASSUME checkpoint \in Seq(Tokens), InPlace
    PROVE  State = checkpoint
BY SessionAssumption DEF InPlace, State

LEMMA ExtendInPlace ==
    ASSUME checkpoint \in Seq(Tokens), InPlace, NEW ts, NEW n
    PROVE  Extend(ts, n) = checkpoint \o Take(ts, n)
BY StateInPlace, SessionAssumption DEF Extend

\* A pass that keeps n of its rows leaves the graph in place again.
LEMMA Advance ==
    ASSUME checkpoint \in Seq(Tokens), InPlace,
           NEW ts \in Seq(Tokens), NEW n \in 0..Len(ts),
           pos' = pos + n, rec' = Extend(ts, n), kv' = Written(ts, n),
           checkpoint' = checkpoint \o Take(ts, n)
    PROVE  /\ InPlace'
           /\ checkpoint' \in Seq(Tokens) /\ Len(checkpoint') = Len(checkpoint) + n
<1>1. Take(ts, n) \in Seq(Tokens) /\ Len(Take(ts, n)) = n
  BY TakeIsSeq
<1>2. checkpoint' \in Seq(Tokens) /\ Len(checkpoint') = Len(checkpoint) + n
  BY <1>1, ConcatProperties
<1>3. Len(checkpoint) \in Nat /\ n \in Nat /\ Len(ts) \in Nat /\ pos = Len(checkpoint)
  BY LenProperties DEF InPlace
<1>4. rec' = checkpoint' /\ pos' = Len(checkpoint')
  BY <1>2, <1>3, ExtendInPlace
<1>5. ASSUME NEW i \in 1..pos' PROVE kv'[i] = Take(checkpoint', i)
  <2>1. i \in 1..pos + n
    OBVIOUS
  <2>2. CASE i <= pos
    <3>1. kv'[i] = kv[i]
      BY <2>1, <2>2 DEF Written
    <3>2. kv[i] = Take(checkpoint, i)
      BY <2>1, <2>2, <1>3 DEF InPlace
    <3>3. Take(checkpoint', i) = Take(checkpoint, i)
      BY <2>1, <2>2, <1>1, <1>3, TakeOfConcat
    <3> QED BY <3>1, <3>2, <3>3
  <2>3. CASE i > pos
    <3>1. i - pos \in 0..n /\ i - pos \in 0..Len(ts) /\ Len(checkpoint) + (i - pos) = i
      BY <2>1, <2>3, <1>3
    <3>2. kv'[i] = checkpoint \o Take(ts, i - pos)
      BY <2>1, <2>3, <1>3, ExtendInPlace DEF Written
    <3>3. Take(checkpoint', i) = checkpoint \o Take(Take(ts, n), i - pos)
      <4>1. i - pos \in 0..Len(Take(ts, n))
        BY <3>1, <1>1
      <4>2. Take(checkpoint \o Take(ts, n), Len(checkpoint) + (i - pos))
              = checkpoint \o Take(Take(ts, n), i - pos)
        BY <4>1, <1>1, TakePastConcat
      <4> QED BY <4>2, <3>1
    <3>4. Take(Take(ts, n), i - pos) = Take(ts, i - pos)
      BY <3>1, TakeOfTake
    <3> QED BY <3>2, <3>3, <3>4
  <2> QED BY <2>2, <2>3, <1>3, <2>1
<1> QED BY <1>2, <1>4, <1>5 DEF InPlace

\* What belongs to a transcript belongs to every extension of it.
LEMMA BelongGrows ==
    ASSUME TypeOK, Belong, valid, NEW g \in Seq(Tokens),
           checkpoint' = checkpoint \o g, UNCHANGED snap
    PROVE  Belong'
<1>1. checkpoint \in Seq(Tokens) /\ Len(checkpoint) \in Nat /\ Len(g) \in Nat
  BY LenProperties DEF TypeOK, Histories
<1>2. Len(checkpoint') = Len(checkpoint) + Len(g)
  BY <1>1, ConcatProperties
<1> SUFFICES ASSUME NEW m \in {"start", "row0"}, snap[m] # None
             PROVE  /\ snap[m].pos <= Len(checkpoint')
                    /\ snap[m].of = Take(checkpoint', snap[m].pos)
  BY DEF Belong
<1>3. /\ snap[m].pos <= Len(checkpoint) /\ snap[m].of = Take(checkpoint, snap[m].pos)
      /\ snap[m].pos \in Nat
  <2>1. snap[m].pos \in 0..Ctx
    BY DEF TypeOK, Marks
  <2> QED BY <2>1, SessionAssumption DEF Belong
<1>4. Take(checkpoint', snap[m].pos) = Take(checkpoint, snap[m].pos)
  BY <1>1, <1>3, TakeOfConcat
<1> QED BY <1>1, <1>2, <1>3, <1>4

\* Who may use the graph finds it in place.
LEMMA ReadyInPlace ==
    ASSUME IInv, \E op \in {"eval", "cycle"} : Ready(op)
    PROVE  valid /\ InPlace
<1>1. valid
  BY DEF IInv, Underway, Ready
<1>2. CASE InPlace
  BY <1>1, <1>2
<1>3. CASE Waiting
  <2>1. pos = Len(checkpoint)
    BY <1>3 DEF Ready, Waiting, NoCall
  <2>2. checkpoint = <<>>
    BY <2>1, <1>3, EmptySeq DEF Waiting, IInv, TypeOK, Histories
  <2> QED BY <1>1, <1>3, <2>1, <2>2 DEF Waiting, InPlace
<1> QED BY <1>1, <1>2, <1>3 DEF IInv, Placed

LEMMA SyncInPlace ==
    ASSUME IInv, call.stage = "sync"
    PROVE  InPlace
<1>1. ~Waiting
  BY DEF Waiting, NoCall
<1>2. CASE valid
  BY <1>1, <1>2 DEF IInv, Placed
<1>3. CASE Fresh
  BY <1>3, EmptySeq DEF Fresh, InPlace
<1> QED BY <1>2, <1>3 DEF IInv, Underway

LEMMA ExtendTyped ==
    ASSUME checkpoint \in Seq(Tokens), InPlace,
           NEW ts \in Seq(Tokens), NEW k \in 0..Len(ts), pos + k <= Ctx
    PROVE  Extend(ts, k) \in Histories
<1>1. Take(ts, k) \in Seq(Tokens) /\ Len(Take(ts, k)) = k
  BY TakeIsSeq
<1>2. /\ checkpoint \o Take(ts, k) \in Seq(Tokens)
      /\ Len(checkpoint \o Take(ts, k)) = pos + k
  BY <1>1, ConcatProperties DEF InPlace
<1> QED BY <1>2, ExtendInPlace DEF Histories

\* A session that goes on, n of the rows of a pass kept, is in place, has the
\* logits of its transcript and keeps its types.
LEMMA Kept ==
    ASSUME IInv, InPlace,
           NEW ts \in Seq(Tokens), NEW n \in 0..Len(ts), pos + n <= Ctx,
           pos' = pos + n, rec' = Extend(ts, n), kv' = Written(ts, n),
           checkpoint' = checkpoint \o Take(ts, n), logits' = Extend(ts, n),
           rewound' = FALSE
    PROVE  /\ Placed' /\ InPlace' /\ SoundLogits' /\ Undrafted'
           /\ checkpoint' \in Histories /\ pos' \in 0..Ctx /\ rec' \in Contents
           /\ kv' \in [1..pos' -> Contents] /\ logits' \in Contents
<1>1. checkpoint \in Seq(Tokens) /\ pos \in Nat /\ Ctx \in Nat /\ n \in Nat
  BY SessionAssumption, LenProperties DEF IInv, TypeOK, Histories
<1>2. InPlace' /\ checkpoint' \in Seq(Tokens) /\ Len(checkpoint') = Len(checkpoint) + n
  BY <1>1, Advance
<1>3. Extend(ts, n) = checkpoint'
  BY <1>1, ExtendInPlace
<1>4. Extend(ts, n) \in Histories
  BY <1>1, ExtendTyped
<1>5. kv' \in [1..pos' -> Contents]
  <2>1. ASSUME NEW i \in 1..pos + n, i > pos PROVE Extend(ts, i - pos) \in Contents
    <3>1. i - pos \in 0..Len(ts) /\ pos + (i - pos) <= Ctx
      BY <1>1, <2>1, LenProperties
    <3> QED BY <3>1, <1>1, ExtendTyped DEF Contents
  <2>2. ASSUME NEW i \in 1..pos + n, i <= pos PROVE kv[i] \in Contents
    BY <1>1, <2>2 DEF IInv, TypeOK
  <2>3. kv' = [i \in 1..pos + n |-> IF i <= pos THEN kv[i] ELSE Extend(ts, i - pos)]
    BY DEF Written
  <2>4. \A i \in 1..pos + n :
           (IF i <= pos THEN kv[i] ELSE Extend(ts, i - pos)) \in Contents
    BY <2>1, <2>2, <1>1
  <2> QED BY <2>3, <2>4
<1> QED BY <1>1, <1>2, <1>3, <1>4, <1>5 DEF Placed, SoundLogits, Undrafted, Contents

\* One token.
LEMMA OneTokenKept ==
    ASSUME IInv, InPlace, valid, NEW t \in Tokens, OneToken(t)
    PROVE  /\ Placed' /\ InPlace' /\ SoundLogits' /\ Undrafted'
           /\ checkpoint' \in Histories /\ pos' \in 0..Ctx /\ rec' \in Contents
           /\ kv' \in [1..pos' -> Contents] /\ logits' \in Contents
           /\ valid' /\ rewound' = FALSE /\ call' = NoCall
           /\ checkpoint' = checkpoint \o <<t>>
           /\ UNCHANGED snap => Belong'
<1> DEFINE ts == <<t>>
<1>1. ts \in Seq(Tokens) /\ Len(ts) = 1 /\ 1 \in 0..Len(ts)
  OBVIOUS
<1>2. Take(ts, 1) = ts
  BY <1>1, TakeAll
<1>3. pos \in Nat /\ Ctx \in Nat /\ pos < Ctx
  BY SessionAssumption DEF IInv, TypeOK, OneToken
<1>4. /\ pos' = pos + 1 /\ rec' = Extend(ts, 1) /\ kv' = Written(ts, 1)
      /\ checkpoint' = checkpoint \o Take(ts, 1) /\ logits' = Extend(ts, 1)
      /\ rewound' = FALSE /\ valid' = TRUE /\ call' = NoCall
      /\ checkpoint' = checkpoint \o ts
  BY <1>1, <1>2 DEF OneToken, Forward, GoesOn
<1>5. pos + 1 <= Ctx
  BY <1>3
<1> HIDE DEF ts
<1>6. /\ Placed' /\ InPlace' /\ SoundLogits' /\ Undrafted'
      /\ checkpoint' \in Histories /\ pos' \in 0..Ctx /\ rec' \in Contents
      /\ kv' \in [1..pos' -> Contents] /\ logits' \in Contents
  BY <1>1, <1>4, <1>5, Kept
<1>7. UNCHANGED snap => Belong'
  BY <1>1, <1>4, BelongGrows DEF IInv
<1> QED BY <1>4, <1>6, <1>7 DEF ts

LEMMA NoSnapsSound ==
    ASSUME snap' = NoSnaps, rows' = NoRows
    PROVE  /\ Matching' /\ Belong'
           /\ snap' \in [Marks -> [pos : 0..Ctx, of : Contents] \cup {None}]
           /\ rows' \in [Marks -> Contents]
BY DEF NoSnaps, NoRows, Matching, Belong, Marks, Contents

-----------------------------------------------------------------------------
(* The steps.                                                              *)

LEMMA InitSound == Init => IInv
<1> SUFFICES ASSUME Init PROVE IInv
  OBVIOUS
<1>1. TypeOK
  <2>1. checkpoint \in Histories /\ rec \in Contents /\ logits \in Contents
    BY EmptySeq, SessionAssumption DEF Init, Histories, Contents
  <2>2. kv \in [1..pos -> Contents]
    BY DEF Init
  <2>3. /\ snap \in [Marks -> [pos : 0..Ctx, of : Contents] \cup {None}]
        /\ rows \in [Marks -> Contents]
    BY DEF Init, NoSnaps, NoRows, Contents
  <2>4. call.stage = "none" /\ drafts \in 0..2 /\ pos \in 0..Ctx
    BY SessionAssumption DEF Init, NoCall
  <2> QED BY <2>1, <2>2, <2>3, <2>4, Zenon DEF Init, TypeOK
<1> QED BY <1>1 DEF Init, IInv, Placed, SoundLogits, SavedSound, Matching, Belong,
                    Undrafted, Underway, NoSnaps, NoCall, Marks

\* The types, put together again.
CallTyped == \/ call.stage \in {"none", "eval", "cycle"}
             \/ /\ call.stage = "sync" /\ call.prompt \in Histories
                /\ call.back \in {"none", "eval", "cycle"}
SnapsTyped == /\ snap \in [Marks -> [pos : 0..Ctx, of : Contents] \cup {None}]
              /\ rows \in [Marks -> Contents]
GraphTyped == pos \in 0..Ctx /\ rec \in Contents /\ kv \in [1..pos -> Contents]
FileTyped  == file # None => file.tokens \in Histories /\ file.of \in Contents
FlagsTyped == valid \in BOOLEAN /\ rewound \in BOOLEAN /\ drafts \in 0..2
TextTyped  == checkpoint \in Histories /\ logits \in Contents

Typed == /\ TextTyped /\ FlagsTyped /\ GraphTyped /\ SnapsTyped
         /\ CallTyped /\ FileTyped

LEMMA TypeParts == (TypeOK <=> Typed) /\ (TypeOK' <=> Typed')
<1>1. TypeOK <=> Typed
  BY Zenon DEF TypeOK, Typed, TextTyped, FlagsTyped, GraphTyped, SnapsTyped,
               CallTyped, FileTyped
<1>2. TypeOK' <=> Typed'
  BY Zenon DEF TypeOK, Typed, TextTyped, FlagsTyped, GraphTyped, SnapsTyped,
               CallTyped, FileTyped
<1> QED BY <1>1, <1>2

LEMMA FlagsInvalid ==
    ASSUME Typed, valid' = FALSE, rewound' = rewound \/ rewound' = FALSE,
           drafts' = drafts \/ drafts' = 0
    PROVE  FlagsTyped'
<1>1. valid' \in BOOLEAN /\ rewound' \in BOOLEAN
  BY Zenon DEF Typed, FlagsTyped
<1>2. drafts' \in 0..2
  BY DEF Typed, FlagsTyped
<1> QED BY <1>1, <1>2 DEF FlagsTyped

LEMMA NoCallTyped ==
    ASSUME call' = NoCall
    PROVE  CallTyped' /\ Underway'
BY DEF NoCall, CallTyped, Underway

LEMMA EvalStep ==
    ASSUME IInv, NEW t \in Tokens, Eval(t) \/ CyclePlain(t)
    PROVE  IInv'
<1>1. valid /\ InPlace /\ OneToken(t)
  BY ReadyInPlace DEF Eval, CyclePlain
<1>2. UNCHANGED <<snap, rows, file>> /\ drafts' \in 0..2
  BY SessionAssumption DEF Eval, CyclePlain
<1>3. /\ Placed' /\ InPlace' /\ SoundLogits' /\ Undrafted' /\ Belong'
      /\ checkpoint' \in Histories /\ pos' \in 0..Ctx /\ rec' \in Contents
      /\ kv' \in [1..pos' -> Contents] /\ logits' \in Contents
      /\ valid' /\ rewound' = FALSE /\ call' = NoCall
  BY <1>1, <1>2, OneTokenKept
<1>4. TextTyped' /\ FlagsTyped' /\ GraphTyped' /\ CallTyped' /\ Underway'
  BY <1>1, <1>2, <1>3, NoCallTyped
     DEF TextTyped, FlagsTyped, GraphTyped, OneToken, GoesOn
<1>5. SnapsTyped' /\ FileTyped' /\ Matching' /\ SavedSound'
  BY <1>2, TypeParts DEF Typed, IInv, SnapsTyped, FileTyped, Matching, SavedSound
<1>6. TypeOK'
  BY <1>4, <1>5, TypeParts DEF Typed
<1> QED BY <1>3, <1>4, <1>5, <1>6, Zenon DEF IInv

LEMMA BatchPlainStep ==
    ASSUME IInv, NEW t \in Tokens, BatchPlain(t)
    PROVE  IInv'
<1>1. valid /\ InPlace /\ OneToken(t)
  <2>1. Ready("eval")
    BY DEF BatchPlain, Batched, Ready
  <2> QED BY <2>1, ReadyInPlace DEF BatchPlain
<1>2. snap' = NoSnaps /\ rows' = NoRows /\ file' = file /\ drafts' \in 0..2
  BY DEF BatchPlain
<1>3. /\ Placed' /\ InPlace' /\ SoundLogits' /\ Undrafted'
      /\ checkpoint' \in Histories /\ pos' \in 0..Ctx /\ rec' \in Contents
      /\ kv' \in [1..pos' -> Contents] /\ logits' \in Contents
      /\ valid' /\ rewound' = FALSE /\ call' = NoCall
  BY <1>1, OneTokenKept
<1>4. TextTyped' /\ FlagsTyped' /\ GraphTyped' /\ CallTyped' /\ Underway'
  BY <1>1, <1>2, <1>3, NoCallTyped
     DEF TextTyped, FlagsTyped, GraphTyped, OneToken, GoesOn
<1>5. SnapsTyped' /\ Matching' /\ Belong'
  BY <1>2, NoSnapsSound DEF SnapsTyped
<1>6. FileTyped' /\ SavedSound'
  BY <1>2, TypeParts DEF Typed, IInv, FileTyped, SavedSound
<1>7. TypeOK'
  BY <1>4, <1>5, <1>6, TypeParts DEF Typed
<1> QED BY <1>3, <1>4, <1>5, <1>6, <1>7, Zenon DEF IInv

\* A session that ends up invalid has little to show.
LEMMA InvalidStep ==
    ASSUME IInv, valid' = FALSE, Typed', Matching', Undrafted', Underway', UNCHANGED file
    PROVE  IInv'
<1>1. Placed' /\ SoundLogits' /\ Belong'
  BY DEF Placed, SoundLogits, Belong
<1>2. TypeOK'
  BY TypeParts
<1>3. SavedSound'
  BY DEF IInv, SavedSound
<1> QED BY <1>1, <1>2, <1>3, Zenon DEF IInv

\* A step that leaves the session as it is but for its call and its drafts.
LEMMA SameSession ==
    ASSUME IInv, InPlace, UNCHANGED <<historyVars, graphVars, snap, rows, logits, file>>,
           drafts' = 0 \/ drafts' = drafts, CallTyped', Underway'
    PROVE  IInv'
<1>1. TextTyped' /\ FlagsTyped' /\ GraphTyped' /\ SnapsTyped' /\ FileTyped'
  <2>1. Typed
    BY TypeParts DEF IInv
  <2> QED BY <2>1 DEF Typed, TextTyped, FlagsTyped, GraphTyped, SnapsTyped, FileTyped,
                      historyVars, graphVars
<1>2. TypeOK'
  BY <1>1, TypeParts DEF Typed
<1>3. Placed' /\ SoundLogits' /\ SavedSound' /\ Matching' /\ Belong' /\ Undrafted'
  BY DEF IInv, InPlace, Placed, SoundLogits, SavedSound, Matching, Belong, Undrafted,
         historyVars, graphVars
<1> QED BY <1>2, <1>3, Zenon DEF IInv

LEMMA ResetTyped ==
    ASSUME Reset
    PROVE  GraphTyped' /\ SnapsTyped' /\ Matching' /\ snap' = NoSnaps
<1>1. snap' = NoSnaps /\ rows' = NoRows /\ pos' = 0 /\ rec' = <<>> /\ kv' = <<>>
  BY DEF Reset
<1>2. rec' \in Contents /\ pos' \in 0..Ctx
  BY <1>1, EmptySeq, SessionAssumption DEF Histories, Contents
<1>3. kv' \in [1..pos' -> Contents]
  BY <1>1
<1> QED BY <1>1, <1>2, <1>3, NoSnapsSound DEF GraphTyped, SnapsTyped

LEMMA BeginSyncStep ==
    ASSUME IInv, NEW p \in Prompts, BeginSync(p)
    PROVE  IInv'
<1>1. p \in Histories /\ p # <<>> /\ Len(p) \in Nat
  BY SessionAssumption, LenProperties DEF Histories
<1>2. CallTyped'
  BY <1>1 DEF BeginSync, Syncing, NoCall, CallTyped
<1>3. Typed /\ Len(checkpoint) \in Nat
  BY TypeParts, LenProperties DEF IInv, TypeOK, Histories
<1>4. CASE Reusable(p)
  <2>1. UNCHANGED <<historyVars, graphVars, snap, rows, logits, file>> /\ drafts' = 0
    BY <1>4 DEF BeginSync, historyVars
  <2>2. valid /\ pos = Len(checkpoint)
    BY <1>4 DEF Reusable
  <2>3. InPlace
    <3>1. CASE Waiting
      <4>1. checkpoint = <<>>
        BY <3>1, <2>2, EmptySeq DEF Waiting, IInv, TypeOK, Histories
      <4> QED BY <3>1, <2>2, <4>1 DEF Waiting, InPlace
    <3> QED BY <2>2, <3>1 DEF IInv, Placed
  <2>4. Underway'
    BY <1>1, <1>4, <2>1, <2>2 DEF BeginSync, Syncing, NoCall, Underway, Reusable, historyVars
  <2> QED BY <2>1, <2>3, <2>4, <1>2, SameSession
<1>5. CASE ~Reusable(p)
  <2>1. /\ Reset /\ checkpoint' = <<>> /\ valid' = FALSE /\ drafts' = 0
        /\ UNCHANGED <<rewound, logits, file>>
    BY <1>5 DEF BeginSync
  <2>2. GraphTyped' /\ SnapsTyped' /\ Matching' /\ snap' = NoSnaps
    BY <2>1, ResetTyped
  <2>3. TextTyped' /\ FlagsTyped' /\ FileTyped' /\ Undrafted'
    <3>1. <<>> \in Histories
      BY EmptySeq, SessionAssumption DEF Histories
    <3>2. TextTyped' /\ FileTyped' /\ Undrafted'
      BY <3>1, <2>1, <1>3 DEF Typed, TextTyped, FileTyped, Undrafted
    <3>3. FlagsTyped'
      BY <2>1, <1>3, FlagsInvalid, Zenon
    <3> QED BY <3>2, <3>3
  <2>4. Underway'
    <3>1. Fresh' /\ Len(checkpoint') = 0
      BY <2>1, <2>2, EmptySeq DEF Fresh, Reset
    <3>2. checkpoint' = Take(p, 0)
      BY <2>1, <1>1, SubSeqEmpty DEF Take, Histories
    <3> QED BY <3>1, <3>2, <1>1 DEF BeginSync, Syncing, NoCall, Underway
  <2> QED BY <2>1, <2>2, <2>3, <2>4, <1>2, InvalidStep DEF Typed
<1> QED BY <1>4, <1>5

LEMMA SyncDoneStep ==
    ASSUME IInv, SyncDone
    PROVE  IInv'
<1>1. Typed /\ InPlace /\ call.stage = "sync"
  BY TypeParts, SyncInPlace DEF IInv, SyncDone
<1>2. call.prompt \in Seq(Tokens) /\ call.back \in {"none", "eval", "cycle"}
  BY <1>1 DEF Typed, CallTyped, Histories
<1>3. valid
  <2>1. SUFFICES ASSUME Fresh PROVE FALSE
    BY <1>1 DEF IInv, Underway
  <2>2. Len(checkpoint) = 0
    BY <2>1, EmptySeq DEF Fresh
  <2>3. Missing = call.prompt
    BY <2>2, <1>2, SubSeqFull DEF Missing
  <2> QED BY <1>1, <2>3 DEF SyncDone, IInv, Underway
<1>4. UNCHANGED <<historyVars, graphVars, snap, rows, logits, file>> /\ drafts' = drafts
  BY <1>1, <1>3 DEF SyncDone, historyVars, IInv, TypeOK
<1>5. call' = Then(call.back)
  BY DEF SyncDone
<1>6. CallTyped' /\ Underway'
  BY <1>2, <1>3, <1>4, <1>5 DEF Then, NoCall, CallTyped, Underway, historyVars
<1> QED BY <1>1, <1>4, <1>6, SameSession

LEMMA SyncCancelledStep ==
    ASSUME IInv, SyncCancelled
    PROVE  IInv'
<1>1. Typed /\ InPlace /\ call.stage = "sync"
  BY TypeParts, SyncInPlace DEF IInv, SyncCancelled
<1>2. CallTyped' /\ Underway'
  BY NoCallTyped DEF SyncCancelled
<1>3. CASE checkpoint # <<>>
  <2>1. valid = TRUE
    BY <1>1, <1>3 DEF IInv, Underway, Fresh, Typed, FlagsTyped
  <2>2. UNCHANGED <<historyVars, graphVars, snap, rows, logits, file>> /\ drafts' = drafts
    BY <1>3, <2>1 DEF SyncCancelled, historyVars
  <2> QED BY <1>1, <1>2, <2>2, SameSession
<1>4. CASE checkpoint = <<>>
  <2>1. valid' = FALSE
    BY <1>4 DEF SyncCancelled
  <2>2. Typed' /\ Matching' /\ Undrafted'
    BY <1>1, <1>2, <2>1 DEF SyncCancelled, Typed, TextTyped, FlagsTyped, GraphTyped,
       SnapsTyped, FileTyped, graphVars, IInv, Matching, Undrafted
  <2> QED BY <1>2, <2>1, <2>2, InvalidStep DEF SyncCancelled
<1> QED BY <1>3, <1>4

\* A chunk of the tokens a history misses of p takes it on along p.
LEMMA ChunkOfPrompt ==
    ASSUME NEW p \in Seq(Tokens), NEW k \in 0..Len(p), NEW n \in 0..Len(p) - k
    PROVE  LET ms == SubSeq(p, k + 1, Len(p)) IN
           /\ ms \in Seq(Tokens) /\ Len(ms) = Len(p) - k
           /\ Take(p, k) \o Take(ms, n) = Take(p, k + n)
<1> DEFINE ms == SubSeq(p, k + 1, Len(p))
<1>1. Len(p) \in Nat
  BY LenProperties
<1>2. ms \in Seq(Tokens) /\ Len(ms) = Len(p) - k
  <2>1. \A i \in k + 1..Len(p) : p[i] \in Tokens
    BY <1>1, ElementOfSeq
  <2> QED BY <1>1, <2>1, SubSeqProperties
<1>3. Take(ms, n) = SubSeq(p, k + 1, k + n)
  <2>1. CASE n = 0
    BY <2>1, <1>1, <1>2, SubSeqEmpty DEF Take
  <2>2. CASE n # 0
    BY <2>2, <1>1, <1>2, SubSeqOfSubSeq DEF Take
  <2> QED BY <2>1, <2>2
<1>4. 1 \in 1..Len(p) + 1 /\ k \in 1 - 1..Len(p) /\ k + n \in k..Len(p)
  BY <1>1
<1>5. SubSeq(p, 1, k) \o SubSeq(p, k + 1, k + n) = SubSeq(p, 1, k + n)
  BY <1>4, ConcatAdjacentSubSeq
<1> QED BY <1>2, <1>3, <1>5 DEF Take

LEMMA SyncChunkStep ==
    ASSUME IInv, SyncChunk
    PROVE  IInv'
<1> DEFINE k == Len(checkpoint)
           n == Len(Chunks)
<1>1. Typed /\ InPlace /\ call.stage = "sync"
  BY TypeParts, SyncInPlace DEF IInv, SyncChunk
<1>2. /\ call.prompt \in Seq(Tokens) /\ Len(call.prompt) \in Nat /\ Len(call.prompt) <= Ctx
      /\ k \in 0..Len(call.prompt) /\ k \in Nat /\ pos = k
      /\ checkpoint \in Seq(Tokens) /\ checkpoint = Take(call.prompt, k)
  <2>1. call.prompt \in Histories /\ checkpoint \in Histories
    BY <1>1 DEF Typed, CallTyped, TextTyped
  <2> QED BY <1>1, <2>1, LenProperties DEF Histories, IInv, Underway, InPlace
<1>3. Missing \in Seq(Tokens) /\ Len(Missing) = Len(call.prompt) - k
  <2>1. 0 \in 0..Len(call.prompt) - k
    BY <1>2
  <2> QED BY <1>2, <2>1, ChunkOfPrompt DEF Missing
<1>4. Chunks \in Seq(Tokens) /\ n \in 0..Len(Missing) /\ Chunks = Take(Missing, n)
  <2>1. Smaller(Chunk, Len(Missing)) \in 0..Len(Missing)
    BY <1>3, SessionAssumption, LenProperties DEF Smaller
  <2> QED BY <1>3, <2>1, TakeIsSeq DEF Chunks
<1>5. checkpoint \o Chunks = Take(call.prompt, k + n) /\ k + n <= Len(call.prompt) /\ n \in Nat
  <2>1. n \in 0..Len(call.prompt) - k /\ n \in Nat /\ k + n <= Len(call.prompt)
    BY <1>2, <1>3, <1>4
  <2>2. Take(call.prompt, k) \o Take(Missing, n) = Take(call.prompt, k + n)
    BY <1>2, <2>1, ChunkOfPrompt DEF Missing
  <2> QED BY <1>2, <1>4, <2>1, <2>2
<1>6. Take(Chunks, n) = Chunks /\ n \in 0..n /\ pos + n <= Ctx
  BY <1>2, <1>4, <1>5, TakeAll, SessionAssumption
<1>7. /\ pos' = pos + n /\ rec' = Extend(Chunks, n) /\ kv' = Written(Chunks, n)
      /\ checkpoint' = checkpoint \o Take(Chunks, n) /\ logits' = Extend(Chunks, n)
      /\ rewound' = FALSE /\ valid' = TRUE
      /\ UNCHANGED <<drafts, snap, rows, call, file>>
  BY <1>6 DEF SyncChunk, Forward
<1> HIDE DEF k, n
<1>8. /\ Placed' /\ InPlace' /\ SoundLogits' /\ Undrafted'
      /\ checkpoint' \in Histories /\ pos' \in 0..Ctx /\ rec' \in Contents
      /\ kv' \in [1..pos' -> Contents] /\ logits' \in Contents
  BY <1>1, <1>4, <1>6, <1>7, Kept DEF n
<1>9. Belong'
  <2>1. CASE valid
    <3>1. checkpoint' = checkpoint \o Chunks
      BY <1>6, <1>7
    <3> QED BY <1>4, <1>7, <2>1, <3>1, BelongGrows DEF IInv
  <2>2. CASE Fresh
    BY <1>7, <2>2 DEF Fresh, NoSnaps, Marks, Belong
  <2> QED BY <1>1, <2>1, <2>2 DEF IInv, Underway
<1>10. Underway'
  <2>1. Len(checkpoint') = k + n
    BY <1>2, <1>4, <1>6, <1>7, ConcatProperties DEF k, n
  <2>2. checkpoint' = Take(call.prompt, k + n) /\ k + n <= Len(call.prompt)
    BY <1>5, <1>6, <1>7 DEF k, n
  <2> QED BY <1>1, <1>7, <2>1, <2>2 DEF Underway, IInv
<1>11. Matching' /\ SavedSound'
  BY <1>7 DEF IInv, Matching, SavedSound
<1>12. TypeOK'
  <2>1. TextTyped' /\ FlagsTyped' /\ GraphTyped'
    BY <1>1, <1>7, <1>8 DEF Typed, TextTyped, FlagsTyped, GraphTyped
  <2>2. SnapsTyped' /\ CallTyped' /\ FileTyped'
    BY <1>1, <1>7 DEF Typed, SnapsTyped, CallTyped, FileTyped
  <2> QED BY <2>1, <2>2, TypeParts DEF Typed
<1> QED BY <1>8, <1>9, <1>10, <1>11, <1>12, Zenon DEF IInv

\* A pass that fails leaves types intact.
LEMMA FailedTyped ==
    ASSUME IInv, ForwardFails
    PROVE  GraphTyped'
<1>1. GraphTyped
  BY TypeParts DEF Typed, IInv
<1> QED BY <1>1 DEF GraphTyped, ForwardFails, Contents

LEMMA FailedStep ==
    ASSUME IInv, SyncFails \/ EvalFails \/ BatchFails
    PROVE  IInv'
<1>1. Typed
  BY TypeParts DEF IInv
<1>2. /\ valid' = FALSE /\ logits' = Wrong /\ ForwardFails
      /\ checkpoint' \in {checkpoint, <<>>} /\ rewound' = rewound
      /\ drafts' = drafts \/ drafts' = 0
      /\ file' = file /\ call' = NoCall
      /\ UNCHANGED <<snap, rows>> \/ (snap' = NoSnaps /\ rows' = NoRows)
  <2>1. CASE SyncFails
    BY <2>1 DEF SyncFails
  <2>2. CASE EvalFails
    BY <2>2 DEF EvalFails
  <2>3. CASE BatchFails
    BY <2>3 DEF BatchFails, Batched
  <2> QED BY <2>1, <2>2, <2>3
<1>3. GraphTyped' /\ CallTyped' /\ Underway'
  BY <1>2, FailedTyped, NoCallTyped
<1>4. TextTyped'
  <2>1. <<>> \in Histories
    BY EmptySeq, SessionAssumption DEF Histories
  <2> QED BY <2>1, <1>1, <1>2 DEF Typed, TextTyped, Contents
<1>5. FlagsTyped'
  BY <1>1, <1>2, FlagsInvalid, Zenon
<1>6. FileTyped'
  BY <1>1, <1>2 DEF Typed, FileTyped
<1>7. Undrafted'
  BY <1>2 DEF IInv, Undrafted
<1>8. SnapsTyped' /\ Matching'
  <2>1. CASE UNCHANGED <<snap, rows>>
    BY <2>1, <1>1 DEF Typed, SnapsTyped, IInv, Matching
  <2>2. CASE snap' = NoSnaps /\ rows' = NoRows
    BY <2>2, NoSnapsSound DEF SnapsTyped
  <2> QED BY <1>2, <2>1, <2>2
<1> QED BY <1>2, <1>3, <1>4, <1>5, <1>6, <1>7, <1>8, InvalidStep DEF Typed

LEMMA ReplayStep ==
    ASSUME IInv, NEW op \in {"eval", "cycle"}, Replay(op)
    PROVE  IInv'
<1>1. Typed /\ valid' = FALSE /\ UNCHANGED <<rewound, logits, file>>
  BY TypeParts DEF IInv, Replay
<1>2. Waiting
  BY DEF Replay, IInv, Placed, InPlace
<1>3. FileTyped' /\ FlagsTyped'
  <2>1. drafts' = drafts \/ drafts' = 0
    BY DEF Replay
  <2>2. FlagsTyped'
    BY <1>1, <2>1, FlagsInvalid, Zenon
  <2> QED BY <1>1, <2>2 DEF Typed, FileTyped
<1>4. CASE /\ drafts' = 0 /\ Reset /\ checkpoint' = <<>>
           /\ call' = Syncing(checkpoint, op)
  <2>1. GraphTyped' /\ SnapsTyped' /\ Matching' /\ snap' = NoSnaps
    BY <1>4, ResetTyped
  <2>2. TextTyped' /\ Undrafted'
    <3>1. <<>> \in Histories
      BY EmptySeq, SessionAssumption DEF Histories
    <3> QED BY <3>1, <1>1, <1>4 DEF Typed, TextTyped, Undrafted
  <2>3. checkpoint \in Histories /\ checkpoint # <<>>
    <3>1. checkpoint = <<>> => Len(checkpoint) = 0
      BY EmptySeq
    <3> QED BY <1>1, <1>2, <3>1 DEF Typed, TextTyped, Waiting, Replay
  <2>4. CallTyped'
    BY <1>4, <2>3 DEF CallTyped, Syncing
  <2>5. Underway'
    <3>1. Fresh' /\ Len(checkpoint') = 0
      BY <1>4, <2>1, EmptySeq DEF Fresh, Reset
    <3>2. checkpoint' = Take(checkpoint, 0) /\ Len(checkpoint) \in Nat
      BY <1>4, <2>3, SubSeqEmpty, LenProperties DEF Take, Histories
    <3> QED BY <3>1, <3>2, <2>3, <1>4 DEF Syncing, Underway
  <2> QED BY <1>1, <1>3, <2>1, <2>2, <2>4, <2>5, InvalidStep DEF Typed
<1>5. CASE UNCHANGED <<drafts, graphVars, snap, rows, checkpoint, call>>
  <2>1. TextTyped' /\ GraphTyped' /\ SnapsTyped' /\ CallTyped'
    BY <1>1, <1>5 DEF Typed, TextTyped, GraphTyped, SnapsTyped, CallTyped, graphVars
  <2>2. Matching' /\ Undrafted'
    BY <1>1, <1>5 DEF IInv, Matching, Undrafted
  <2>3. Underway'
    BY <1>2, <1>5 DEF Waiting, NoCall, Underway
  <2> QED BY <1>1, <1>3, <2>1, <2>2, <2>3, InvalidStep DEF Typed
<1> QED BY <1>4, <1>5 DEF Replay

LEMMA InvalidateStep ==
    ASSUME IInv, Invalidate \/ \E n \in 0..Ctx : RewindInvalid(n)
    PROVE  IInv'
<1> DEFINE Same == UNCHANGED <<graphVars, snap, rows, logits, file>>
           Cut  == /\ valid' = FALSE /\ checkpoint' \in Histories
                   /\ rewound' = rewound /\ (drafts' = drafts \/ drafts' = 0)
                   /\ call' = NoCall
<1>1. Typed
  BY TypeParts DEF IInv
<1>2. Same /\ Cut
  <2>1. CASE Invalidate
    <3>1. <<>> \in Histories
      BY EmptySeq, SessionAssumption DEF Histories
    <3> QED BY <2>1, <3>1 DEF Invalidate
  <2>2. ASSUME NEW n \in 0..Ctx, RewindInvalid(n) PROVE Same /\ Cut
    <3>1. checkpoint \in Seq(Tokens) /\ Len(checkpoint) <= Ctx /\ n \in 0..Len(checkpoint)
      BY <1>1, <2>2, LenProperties DEF Typed, TextTyped, Histories, RewindInvalid
    <3>2. Len(Take(checkpoint, n)) <= Ctx
      BY <3>1, TakeIsSeq, SessionAssumption, LenProperties
    <3>3. Take(checkpoint, n) \in Histories
      BY <3>1, <3>2, TakeIsSeq DEF Histories
    <3>4. valid' = FALSE
      BY <1>1, <2>2, Zenon DEF Typed, FlagsTyped, RewindInvalid
    <3> QED BY <2>2, <3>3, <3>4 DEF RewindInvalid
  <2> QED BY <2>1, <2>2
<1>3. TextTyped' /\ GraphTyped' /\ SnapsTyped' /\ FileTyped' /\ Matching'
  BY <1>1, <1>2 DEF Typed, TextTyped, GraphTyped, SnapsTyped, FileTyped, graphVars,
                    IInv, Matching
<1>4. FlagsTyped' /\ Undrafted'
  <2>1. FlagsTyped'
    BY <1>1, <1>2, FlagsInvalid, Zenon
  <2> QED BY <1>2, <2>1 DEF IInv, Undrafted
<1>5. CallTyped' /\ Underway'
  BY <1>2, NoCallTyped
<1> QED BY <1>2, <1>3, <1>4, <1>5, InvalidStep DEF Typed

LEMMA LoadFailsStep ==
    ASSUME IInv, LoadFails
    PROVE  IInv'
<1>1. Typed
  BY TypeParts DEF IInv
<1>2. /\ valid' = FALSE /\ drafts' = 0 /\ logits' = Wrong /\ rewound' = rewound
      /\ call' = NoCall /\ file' = file
  BY DEF LoadFails
<1>3. CallTyped' /\ Underway'
  BY <1>2, NoCallTyped
<1>4. FlagsTyped' /\ Undrafted' /\ FileTyped'
  <2>1. FlagsTyped'
    BY <1>1, <1>2, FlagsInvalid, Zenon
  <2> QED BY <1>1, <1>2, <2>1 DEF Typed, FileTyped, Undrafted
<1>5. checkpoint' \in Histories => TextTyped'
  BY <1>2 DEF TextTyped, Contents
<1>6. CASE snap' = NoSnaps /\ rows' = NoRows /\ UNCHANGED <<checkpoint, graphVars>>
  <2>1. TextTyped' /\ GraphTyped'
    BY <1>1, <1>5, <1>6 DEF Typed, TextTyped, GraphTyped, graphVars
  <2>2. SnapsTyped' /\ Matching'
    BY <1>6, NoSnapsSound DEF SnapsTyped
  <2> QED BY <1>2, <1>3, <1>4, <2>1, <2>2, InvalidStep DEF Typed
<1>7. CASE checkpoint' = <<>> /\ Reset
  <2>1. GraphTyped' /\ SnapsTyped' /\ Matching'
    BY <1>7, ResetTyped
  <2>2. TextTyped'
    BY <1>5, <1>7, EmptySeq, SessionAssumption DEF Histories
  <2> QED BY <1>2, <1>3, <1>4, <2>1, <2>2, InvalidStep DEF Typed
<1> QED BY <1>6, <1>7 DEF LoadFails

LEMMA SaveStep ==
    ASSUME IInv, Save
    PROVE  IInv'
<1>1. Typed
  BY TypeParts DEF IInv
<1>2. UNCHANGED <<checkpoint, valid, rewound, drafts, pos, rec, kv, snap, rows, logits, call>>
  BY DEF Save, historyVars, graphVars
<1>3. valid /\ ~rewound /\ InPlace
  BY DEF Save, Saveable, IInv, Placed, Waiting
<1>4. State = checkpoint /\ logits = checkpoint /\ checkpoint \in Histories
  BY <1>1, <1>3, StateInPlace DEF IInv, SoundLogits, Typed, TextTyped, Histories
<1>5. file' = [tokens |-> checkpoint, of |-> checkpoint]
  BY <1>4 DEF Save
<1>6. FileTyped' /\ SavedSound'
  BY <1>4, <1>5 DEF FileTyped, SavedSound, Contents
<1>7. TypeOK'
  BY <1>1, <1>2, <1>6, TypeParts
     DEF Typed, TextTyped, FlagsTyped, GraphTyped, SnapsTyped, CallTyped
<1>8. Placed' /\ SoundLogits' /\ Matching' /\ Belong' /\ Undrafted' /\ Underway'
  BY <1>2 DEF IInv, Placed, InPlace, Waiting, SoundLogits, Matching, Belong, Undrafted,
              Underway, Fresh
<1> QED BY <1>6, <1>7, <1>8, Zenon DEF IInv

LEMMA LoadStep ==
    ASSUME IInv, Load
    PROVE  IInv'
<1> DEFINE h == file.tokens
<1>1. /\ Typed /\ file # None /\ h \in Histories /\ file.of = h /\ h # Wrong
      /\ h \in Seq(Tokens) /\ Len(h) \in 0..Ctx
  <2>1. Typed /\ file # None /\ file.of = h
    BY TypeParts DEF IInv, SavedSound, Load
  <2>2. h \in Histories
    BY <2>1 DEF Typed, FileTyped
  <2> QED BY <2>1, <2>2, SessionAssumption, LenProperties DEF Histories
<1>2. /\ checkpoint' = h /\ valid' = TRUE /\ rewound' = FALSE /\ drafts' = 0
      /\ pos' = Len(h) /\ rec' = h /\ kv' = [i \in 1..Len(h) |-> Take(h, i)]
      /\ logits' = h /\ snap' = NoSnaps /\ rows' = NoRows /\ call' = NoCall /\ file' = file
  BY <1>1 DEF Load
<1> HIDE DEF h
<1>3. Placed' /\ SoundLogits' /\ SavedSound' /\ Undrafted'
  <2>1. InPlace'
    BY <1>1, <1>2 DEF InPlace
  <2> QED BY <1>1, <1>2, <2>1 DEF Placed, SoundLogits, SavedSound, Undrafted, IInv
<1>4. Matching' /\ Belong' /\ SnapsTyped'
  BY <1>2, NoSnapsSound DEF SnapsTyped
<1>5. CallTyped' /\ Underway'
  BY <1>2, NoCallTyped
<1>6. FlagsTyped' /\ TextTyped' /\ FileTyped'
  <2>1. FlagsTyped'
    <3>1. valid' \in BOOLEAN /\ rewound' \in BOOLEAN
      BY <1>2, Zenon
    <3>2. drafts' \in 0..2
      BY <1>2
    <3> QED BY <3>1, <3>2, Zenon DEF FlagsTyped
  <2> QED BY <1>1, <1>2, <2>1 DEF TextTyped, FileTyped, Typed, Contents
<1>7. GraphTyped'
  <2>1. ASSUME NEW i \in 1..Len(h) PROVE Take(h, i) \in Histories
    <3>1. i \in 0..Len(h) /\ i <= Ctx
      BY <1>1, SessionAssumption
    <3> QED BY <1>1, <3>1, TakeIsSeq DEF Histories
  <2> QED BY <1>1, <1>2, <2>1 DEF GraphTyped, Contents
<1>8. TypeOK'
  BY <1>4, <1>5, <1>6, <1>7, TypeParts DEF Typed
<1> QED BY <1>3, <1>4, <1>5, <1>8, Zenon DEF IInv

\* A snapshot that a rewind chooses is of the transcript.
LEMMA ChosenBelongs ==
    ASSUME IInv, ~LeftoverRewinds \/ snap["row1"] = None, valid, NEW m \in Marks, NEW n \in Nat,
           Chosen(m, n), LeftoverRewinds \/ ~Leftover(n)
    PROVE  snap[m].of = Take(checkpoint, n) /\ rows[m] = Take(checkpoint, n)
<1>1. snap[m] # None /\ snap[m].pos = n
  BY DEF Chosen, Restores
<1>2. snap[m].of = Take(checkpoint, n)
  <2>1. CASE m = "row1"
    BY <1>1, <2>1 DEF Chosen, Leftover
  <2>2. CASE m \in {"start", "row0"}
    BY <1>1, <2>2 DEF IInv, Belong
  <2> QED BY <2>1, <2>2 DEF Marks
<1> QED BY <1>1, <1>2 DEF IInv, Matching

LEMMA RewindStep ==
    ASSUME IInv, ~LeftoverRewinds \/ snap["row1"] = None, NEW n \in 0..Ctx,
           RewindResets(n) \/ \E m \in Marks : RewindToSnapshot(m, n)
    PROVE  IInv'
<1>1. Typed /\ Rewinds(n)
  BY TypeParts DEF IInv, RewindResets, RewindToSnapshot
<1>2. /\ valid /\ valid' = valid /\ n < Len(checkpoint) /\ call' = NoCall /\ call = NoCall
      /\ checkpoint' = Take(checkpoint, n) /\ drafts' = 0 /\ file' = file
      /\ LeftoverRewinds \/ ~Leftover(n)
  BY <1>1 DEF Rewinds
<1>3. /\ checkpoint \in Seq(Tokens) /\ n \in 0..Len(checkpoint) /\ n \in Nat /\ n <= Ctx
      /\ Len(checkpoint) \in Nat
  BY <1>1, <1>2, LenProperties, SessionAssumption DEF Typed, TextTyped, Histories
<1>4. Take(checkpoint, n) \in Histories /\ Len(checkpoint') = n
  BY <1>2, <1>3, TakeIsSeq DEF Histories
<1>5. CallTyped' /\ Underway'
  BY <1>2, NoCallTyped
<1>6. FileTyped' /\ SavedSound' /\ Undrafted'
  BY <1>1, <1>2 DEF Typed, FileTyped, IInv, SavedSound, Undrafted
<1>7. ASSUME rewound' \in BOOLEAN PROVE FlagsTyped'
  <2>1. valid' \in BOOLEAN
    BY <1>1, <1>2, Zenon DEF Typed, FlagsTyped
  <2>2. drafts' \in 0..2
    BY <1>2
  <2> QED BY <1>7, <2>1, <2>2, Zenon DEF FlagsTyped
<1>8. CASE RewindResets(n)
  <2>1. Reset /\ rewound' = TRUE /\ logits' = logits
    BY <1>8 DEF RewindResets
  <2>2. GraphTyped' /\ SnapsTyped' /\ Matching' /\ snap' = NoSnaps
    BY <2>1, ResetTyped
  <2>3. Placed' /\ SoundLogits' /\ Belong'
    BY <1>2, <2>1, <2>2 DEF Placed, Waiting, SoundLogits, Belong, NoSnaps, Marks, Reset
  <2>4. TextTyped'
    BY <1>1, <1>2, <1>4, <2>1 DEF Typed, TextTyped
  <2>5. TypeOK'
    BY <1>5, <1>6, <1>7, <2>1, <2>2, <2>4, TypeParts DEF Typed
  <2> QED BY <1>5, <1>6, <2>2, <2>3, <2>5, Zenon DEF IInv
<1>9. ASSUME NEW m \in Marks, RewindToSnapshot(m, n) PROVE IInv'
  <2>1. /\ Chosen(m, n) /\ snap[m] # None /\ snap[m].pos = n
        /\ pos' = n /\ rec' = snap[m].of
        /\ kv' = [i \in 1..n |-> IF i <= pos THEN kv[i] ELSE Wrong]
        /\ snap' = NoSnaps /\ rows' = NoRows /\ logits' = rows[m] /\ rewound' = FALSE
    BY <1>9 DEF RewindToSnapshot, Chosen, Restores
  <2>2. rec' = checkpoint' /\ logits' = checkpoint'
    BY <1>2, <1>3, <2>1, ChosenBelongs
  <2>3. InPlace
    <3>1. snap # NoSnaps
      BY <2>1 DEF NoSnaps
    <3> QED BY <1>2, <3>1 DEF IInv, Placed, Waiting
  <2>4. ASSUME NEW i \in 1..n
        PROVE kv'[i] = Take(checkpoint', i) /\ kv'[i] \in Histories
    <3>1. i \in 0..n /\ i <= pos /\ i \in 1..pos /\ pos = Len(checkpoint) /\ i \in 0..Len(checkpoint)
      BY <1>2, <1>3, <2>3 DEF InPlace
    <3>2. kv'[i] = Take(checkpoint, i)
      BY <2>1, <2>3, <3>1 DEF InPlace
    <3>3. Take(checkpoint', i) = Take(checkpoint, i)
      BY <1>2, <1>3, <3>1, TakeOfTake
    <3>4. i <= Ctx
      BY <1>3, SessionAssumption
    <3>5. Take(checkpoint, i) \in Histories
      BY <1>3, <3>1, <3>4, TakeIsSeq DEF Histories
    <3> QED BY <3>2, <3>3, <3>5
  <2>5. Placed' /\ SoundLogits'
    <3>1. InPlace'
      BY <1>4, <2>1, <2>2, <2>4 DEF InPlace
    <3> QED BY <2>2, <3>1 DEF Placed, SoundLogits
  <2>6. SnapsTyped' /\ Matching' /\ Belong'
    BY <2>1, NoSnapsSound DEF SnapsTyped
  <2>7. TextTyped' /\ GraphTyped'
    <3>1. kv' \in [1..pos' -> Contents]
      BY <2>1, <2>4 DEF Contents
    <3> QED BY <1>2, <1>4, <2>1, <2>2, <3>1 DEF TextTyped, GraphTyped, Contents
  <2>8. TypeOK'
    BY <1>5, <1>6, <1>7, <2>1, <2>6, <2>7, TypeParts DEF Typed
  <2> QED BY <1>5, <1>6, <2>5, <2>6, <2>8, Zenon DEF IInv
<1> QED BY <1>8, <1>9

-----------------------------------------------------------------------------
(* The blocks of a speculative cycle.                                      *)

\* The snapshots of a block are of any transcript that goes on with its first
\* token, and their logits with them.
LEMMA SnapshotsSound ==
    ASSUME IInv, InPlace, logits = checkpoint, NEW ts \in Seq(Tokens), Len(ts) \in 2..3,
           pos + Len(ts) <= Ctx, NEW n \in 1..Len(ts), NEW start \in BOOLEAN,
           snap' = Restored(ts, n, start), rows' = LogitRows(ts, n, start)
    PROVE  /\ SnapsTyped' /\ Matching'
           /\ \A g \in Seq(Tokens) :
                Len(g) > 0 /\ Take(g, 1) = Take(ts, 1) /\ checkpoint' = checkpoint \o g
                  => Belong'
<1>1. checkpoint \in Seq(Tokens) /\ checkpoint \in Histories /\ Len(checkpoint) = pos
      /\ pos \in Nat /\ Ctx \in Nat /\ rec = checkpoint /\ Len(ts) \in {2, 3}
  BY SessionAssumption DEF IInv, TypeOK, Histories, InPlace
<1>2. Extend(ts, 1) \in Histories /\ (Len(ts) = 3 => Extend(ts, 2) \in Histories)
  <2>1. 1 \in 0..Len(ts) /\ pos + 1 <= Ctx
    BY <1>1
  <2>2. Len(ts) = 3 => 2 \in 0..Len(ts) /\ pos + 2 <= Ctx
    BY <1>1
  <2> QED BY <1>1, <2>1, <2>2, ExtendTyped
<1> DEFINE new == snap'
           S   == Snapshots(ts, start)
           Snap == [pos : 0..Ctx, of : Contents]
<1>3. /\ new["start"] \in {None, Mark(pos, rec)}
      /\ new["row0"] \in {None, Mark(pos + 1, Extend(ts, 1))}
      /\ new["row1"] \in {None, Mark(pos + 2, Extend(ts, 2))}
      /\ new["row1"] # None => Len(ts) = 3
      /\ \A m \in Marks : rows'[m] = IF new[m] = None THEN Wrong
                          ELSE IF m = "start" THEN logits
                          ELSE Extend(ts, IF m = "row0" THEN 1 ELSE 2)
  BY DEF Restored, Snapshots, LogitRows, Marks
<1>4. DOMAIN new = Marks /\ new = [m \in Marks |-> new[m]]
      /\ rows' = [m \in Marks |-> rows'[m]]
  BY DEF Restored, LogitRows
<1>5. /\ Mark(pos, rec) \in Snap /\ Mark(pos + 1, Extend(ts, 1)) \in Snap
      /\ Len(ts) = 3 => Mark(pos + 2, Extend(ts, 2)) \in Snap
  <2>1. pos \in 0..Ctx /\ pos + 1 \in 0..Ctx /\ (Len(ts) = 3 => pos + 2 \in 0..Ctx)
    <3>1. CASE Len(ts) = 2
      <4>1. pos + 2 <= Ctx
        BY <3>1
      <4> QED BY <1>1, <3>1, <4>1
    <3>2. CASE Len(ts) = 3
      <4>1. pos + 3 <= Ctx
        BY <3>2
      <4> QED BY <1>1, <3>2, <4>1
    <3> QED BY <1>1, <3>1, <3>2
  <2>2. rec \in Contents /\ Extend(ts, 1) \in Contents
        /\ (Len(ts) = 3 => Extend(ts, 2) \in Contents)
    BY <1>1, <1>2 DEF Contents
  <2> HIDE DEF Contents
  <2> QED BY <2>1, <2>2 DEF Mark
<1>6. \A m \in Marks : new[m] \in Snap \cup {None} /\ rows'[m] \in Contents
  BY <1>1, <1>2, <1>3, <1>5 DEF Marks, Contents
<1>7. SnapsTyped'
  BY <1>4, <1>6 DEF SnapsTyped
<1>8. Matching'
  BY <1>1, <1>3 DEF Matching, Mark, Marks
<1>9. ASSUME NEW g \in Seq(Tokens), Len(g) > 0, Take(g, 1) = Take(ts, 1),
             checkpoint' = checkpoint \o g
      PROVE  Belong'
  <2>1. Len(checkpoint') = pos + Len(g) /\ Len(g) \in Nat /\ 1 \in 0..Len(g)
    <3>1. Len(g) \in Nat /\ 1 \in 0..Len(g)
      BY <1>9, LenProperties
    <3> QED BY <1>1, <1>9, <3>1, ConcatProperties
  <2>2. Take(checkpoint', pos) = checkpoint
    BY <1>1, <1>9, TakeOfConcat, TakeAll
  <2>3. Take(checkpoint', pos + 1) = Extend(ts, 1)
    <3>1. Take(checkpoint \o g, Len(checkpoint) + 1) = checkpoint \o Take(g, 1)
      BY <1>1, <2>1, TakePastConcat
    <3> QED BY <1>1, <1>9, <3>1, ExtendInPlace
  <2>4. new["start"] # None => /\ new["start"].pos <= Len(checkpoint')
                               /\ new["start"].of = Take(checkpoint', new["start"].pos)
    BY <1>1, <1>3, <2>1, <2>2 DEF Mark
  <2>5. new["row0"] # None => /\ new["row0"].pos <= Len(checkpoint')
                              /\ new["row0"].of = Take(checkpoint', new["row0"].pos)
    BY <1>1, <1>3, <1>9, <2>1, <2>3 DEF Mark
  <2> QED BY <2>4, <2>5 DEF Belong
<1> QED BY <1>7, <1>8, <1>9

LEMMA FirstOfSeq ==
    ASSUME NEW h \in Seq(Tokens), Len(h) > 0
    PROVE  Take(h, 1) = <<h[1]>> /\ h[1] \in Tokens
<1>1. Len(h) \in Nat /\ 1 \in 1..Len(h)
  BY LenProperties
<1>2. h[1] \in Tokens
  BY <1>1, ElementOfSeq
<1>3. SubSeq(h, 1, 1) \in Seq(Tokens) /\ Len(SubSeq(h, 1, 1)) = 1 /\ SubSeq(h, 1, 1)[1] = h[1]
  <2>1. \A i \in 1..1 : h[i] \in Tokens
    BY <1>2
  <2> QED BY <1>1, <2>1, SubSeqProperties
<1>4. <<h[1]>> \in Seq(Tokens) /\ Len(<<h[1]>>) = 1 /\ <<h[1]>>[1] = h[1]
  BY <1>2
<1>5. SubSeq(h, 1, 1) = <<h[1]>>
  <2> DEFINE f == SubSeq(h, 1, 1)
             g == <<h[1]>>
  <2>1. f \in Seq(Tokens) /\ g \in Seq(Tokens) /\ Len(f) = Len(g)
    BY <1>3, <1>4
  <2>2. \A i \in 1..Len(f) : f[i] = g[i]
    BY <1>3, <1>4
  <2> HIDE DEF f, g
  <2>3. f = g
    BY <2>1, <2>2, SeqEqual
  <2> QED BY <2>3 DEF f, g
<1> QED BY <1>2, <1>5 DEF Take

LEMMA BlockIsSeq ==
    ASSUME NEW ts \in Blocks
    PROVE  ts \in Seq(Tokens) /\ Len(ts) \in 2..3 /\ ts[1] \in Tokens
           /\ Take(ts, 1) = <<ts[1]>>
<1>1. ts \in Seq(Tokens) /\ Len(ts) \in 2..3
  <2>1. CASE \E t, d \in Tokens : ts = <<t, d>>
    BY <2>1
  <2>2. CASE \E t, d, e \in Tokens : ts = <<t, d, e>>
    BY <2>2
  <2> QED BY <2>1, <2>2 DEF Blocks
<1>2. Len(ts) > 0
  BY <1>1, SMTT(30)
<1> QED BY <1>1, <1>2, FirstOfSeq

\* A block is run on the logits of the transcript.
LEMMA BlockInPlace ==
    ASSUME IInv, NEW ts \in Blocks,
           Verifiable(ts) \/ (Batched /\ drafts > 0 /\ Len(ts) = 2 /\ pos + 2 <= Ctx)
    PROVE  valid /\ InPlace /\ ~rewound /\ logits = checkpoint /\ pos + Len(ts) <= Ctx
<1>1. valid /\ InPlace
  <2>1. \E op \in {"eval", "cycle"} : Ready(op)
    BY DEF Verifiable, Batched, Ready
  <2> QED BY <2>1, ReadyInPlace
<1>2. drafts > 0 /\ pos + Len(ts) <= Ctx
  <2>1. drafts \in 0..2
    BY DEF IInv, TypeOK
  <2>2. CASE Verifiable(ts)
    BY <2>1, <2>2 DEF Verifiable
  <2>3. CASE drafts > 0 /\ Len(ts) = 2 /\ pos + 2 <= Ctx
    BY <2>3
  <2> QED BY <2>2, <2>3
<1>3. ~rewound
  BY <1>2 DEF IInv, Undrafted
<1> QED BY <1>1, <1>2, <1>3 DEF IInv, SoundLogits

LEMMA VerifiedStep ==
    ASSUME IInv, NEW ts \in Blocks, CycleVerify(ts) \/ BatchVerify(ts)
    PROVE  IInv'
<1>1. ts \in Seq(Tokens) /\ Len(ts) \in 2..3 /\ Typed
  BY BlockIsSeq, TypeParts DEF IInv
<1>2. InPlace /\ logits = checkpoint /\ pos + Len(ts) <= Ctx
  BY BlockInPlace DEF CycleVerify, BatchVerify
<1>3. drafts' \in 0..2 /\ file' = file
  <2>1. CASE CycleVerify(ts)
    BY <2>1, SessionAssumption DEF CycleVerify
  <2>2. CASE BatchVerify(ts)
    BY <2>2 DEF BatchVerify
  <2> QED BY <2>1, <2>2
<1>4. PICK n \in 1..Len(ts), start \in BOOLEAN : Verified(ts, n, start)
  <2>1. CASE CycleVerify(ts)
    BY <2>1 DEF CycleVerify, MayKeepStart
  <2>2. CASE BatchVerify(ts)
    <3>1. Len(ts) = 2
      BY <2>2 DEF BatchVerify
    <3> QED BY <2>2, <3>1 DEF BatchVerify
  <2> QED BY <2>1, <2>2
<1>5. /\ n \in 0..Len(ts) /\ pos + n <= Ctx /\ 1 \in 0..n /\ Take(ts, n) \in Seq(Tokens)
      /\ Len(Take(ts, n)) = n /\ n > 0
  <2>1. pos \in Nat /\ Ctx \in Nat /\ Len(ts) \in Nat
    BY <1>1, SessionAssumption DEF Typed, GraphTyped
  <2>2. n \in 0..Len(ts) /\ pos + n <= Ctx /\ 1 \in 0..n /\ n > 0
    BY <2>1, <1>2
  <2> QED BY <1>1, <2>2, TakeIsSeq
<1>6. /\ pos' = pos + n /\ rec' = Extend(ts, n) /\ kv' = Written(ts, n)
      /\ checkpoint' = checkpoint \o Take(ts, n) /\ logits' = Extend(ts, n)
      /\ valid' = TRUE /\ rewound' = FALSE /\ call' = NoCall
      /\ snap' = Restored(ts, n, start) /\ rows' = LogitRows(ts, n, start)
  BY <1>4 DEF Verified, GoesOn
<1>7. /\ Placed' /\ SoundLogits' /\ Undrafted'
      /\ checkpoint' \in Histories /\ pos' \in 0..Ctx /\ rec' \in Contents
      /\ kv' \in [1..pos' -> Contents] /\ logits' \in Contents
  BY <1>1, <1>2, <1>5, <1>6, Kept
<1>8. SnapsTyped' /\ Matching' /\ Belong'
  <2>1. Take(Take(ts, n), 1) = Take(ts, 1)
    BY <1>1, <1>5, TakeOfTake
  <2> QED BY <1>1, <1>2, <1>5, <1>6, <2>1, SnapshotsSound
<1>9. CallTyped' /\ Underway'
  BY <1>6, NoCallTyped
<1>10. TextTyped' /\ GraphTyped' /\ FileTyped' /\ SavedSound'
  BY <1>1, <1>3, <1>7 DEF TextTyped, GraphTyped, Typed, FileTyped, IInv, SavedSound
<1>11. FlagsTyped'
  <2>1. valid' \in BOOLEAN /\ rewound' \in BOOLEAN
    BY <1>6, Zenon
  <2> QED BY <1>3, <2>1, Zenon DEF FlagsTyped
<1>12. TypeOK'
  BY <1>8, <1>9, <1>10, <1>11, TypeParts DEF Typed
<1> QED BY <1>7, <1>8, <1>9, <1>10, <1>12, Zenon DEF IInv

LEMMA ReplacedStep ==
    ASSUME IInv, NEW ts \in Blocks, NEW r \in Tokens, CycleReplaces(ts, r)
    PROVE  IInv'
<1> DEFINE run == <<ts[1], r>>
<1>1. /\ ts \in Seq(Tokens) /\ Len(ts) = 2 /\ Len(ts) \in 2..3 /\ Typed
      /\ run \in Seq(Tokens) /\ Len(run) = 2 /\ 2 \in 0..Len(run)
      /\ Take(run, 1) = Take(ts, 1) /\ Take(run, 2) = run /\ 1 \in 1..Len(ts)
  <2>1. ts \in Seq(Tokens) /\ Len(ts) = 2 /\ ts[1] \in Tokens /\ Take(ts, 1) = <<ts[1]>>
    BY BlockIsSeq DEF CycleReplaces
  <2>2. Typed
    BY TypeParts DEF IInv
  <2>3. run \in Seq(Tokens) /\ Len(run) = 2 /\ run[1] = ts[1]
    BY <2>1
  <2> HIDE DEF run
  <2>4. Take(run, 1) = <<run[1]>>
    <3>1. Len(run) > 0
      BY <2>3
    <3> QED BY <2>3, <3>1, FirstOfSeq
  <2>5. Take(run, Len(run)) = run
    BY <2>3, TakeAll
  <2> QED BY <2>1, <2>2, <2>3, <2>4, <2>5
<1>2. InPlace /\ logits = checkpoint /\ pos + Len(ts) <= Ctx /\ pos + 2 <= Ctx
  BY <1>1, BlockInPlace DEF CycleReplaces
<1>3. drafts' \in 0..2 /\ file' = file
  BY SessionAssumption DEF CycleReplaces
<1>4. /\ pos' = pos + 2 /\ rec' = Extend(run, 2) /\ kv' = Written(run, 2)
      /\ checkpoint' = checkpoint \o run /\ logits' = Extend(run, 2)
      /\ valid' = TRUE /\ rewound' = FALSE /\ call' = NoCall
  <2>1. Forward(run) /\ GoesOn(checkpoint \o run, Extend(run, 2))
    BY DEF CycleReplaces
  <2> QED BY <1>1, <2>1 DEF Forward, GoesOn
<1>5. PICK start \in BOOLEAN : snap' = Restored(ts, 1, start) /\ rows' = LogitRows(ts, 1, start)
  BY DEF CycleReplaces
<1> HIDE DEF run
<1>6. /\ Placed' /\ SoundLogits' /\ Undrafted'
      /\ checkpoint' \in Histories /\ pos' \in 0..Ctx /\ rec' \in Contents
      /\ kv' \in [1..pos' -> Contents] /\ logits' \in Contents
  BY <1>1, <1>2, <1>4, Kept
<1>7. SnapsTyped' /\ Matching' /\ Belong'
  <2>1. /\ SnapsTyped' /\ Matching'
        /\ \A g \in Seq(Tokens) :
             Len(g) > 0 /\ Take(g, 1) = Take(ts, 1) /\ checkpoint' = checkpoint \o g
               => Belong'
    BY <1>1, <1>2, <1>5, SnapshotsSound
  <2>2. Len(run) > 0
    BY <1>1
  <2> QED BY <1>1, <1>4, <2>1, <2>2
<1>8. CallTyped' /\ Underway'
  BY <1>4, NoCallTyped
<1>9. TextTyped' /\ GraphTyped' /\ FileTyped' /\ SavedSound'
  BY <1>1, <1>3, <1>6 DEF TextTyped, GraphTyped, Typed, FileTyped, IInv, SavedSound
<1>10. FlagsTyped'
  <2>1. valid' \in BOOLEAN /\ rewound' \in BOOLEAN
    BY <1>4, Zenon
  <2> QED BY <1>3, <2>1, Zenon DEF FlagsTyped
<1>11. TypeOK'
  BY <1>7, <1>8, <1>9, <1>10, TypeParts DEF Typed
<1> QED BY <1>6, <1>7, <1>8, <1>9, <1>11, Zenon DEF IInv

\* A block that fails leaves an invalid session whatever was kept of it.
LEMMA CycleFailsStep ==
    ASSUME IInv, NEW ts \in Blocks, CycleFails(ts)
    PROVE  IInv'
<1>1. ts \in Seq(Tokens) /\ Len(ts) \in 2..3 /\ Typed
  BY BlockIsSeq, TypeParts DEF IInv
<1>2. InPlace /\ logits = checkpoint /\ pos + Len(ts) <= Ctx /\ valid
  BY BlockInPlace DEF CycleFails
<1>3. valid' = FALSE /\ drafts' = 0 /\ call' = NoCall /\ file' = file
  BY DEF CycleFails
<1>4. CallTyped' /\ Underway'
  BY <1>3, NoCallTyped
<1>5. FileTyped' /\ Undrafted'
  BY <1>1, <1>3 DEF Typed, FileTyped, Undrafted
<1>6. ASSUME rewound' = rewound \/ rewound' = FALSE PROVE FlagsTyped'
  BY <1>1, <1>3, <1>6, FlagsInvalid, Zenon
<1>7. checkpoint \in Histories /\ checkpoint \in Seq(Tokens) /\ pos = Len(checkpoint)
      /\ pos \in Nat /\ Ctx \in Nat /\ logits \in Contents /\ GraphTyped
  BY <1>1, <1>2, SessionAssumption DEF Typed, TextTyped, GraphTyped, Histories, InPlace
<1>8. checkpoint \o Take(ts, 1) \in Histories /\ Extend(ts, 1) \in Histories
  <2>1. 1 \in 0..Len(ts) /\ pos + 1 <= Ctx
    <3>1. CASE Len(ts) = 2
      <4>1. pos + 2 <= Ctx
        BY <1>2, <3>1
      <4> QED BY <1>7, <3>1, <4>1
    <3>2. CASE Len(ts) = 3
      <4>1. pos + 3 <= Ctx
        BY <1>2, <3>2
      <4> QED BY <1>7, <3>2, <4>1
    <3> QED BY <1>1, <3>1, <3>2
  <2> QED BY <1>1, <1>2, <1>7, <2>1, ExtendTyped, ExtendInPlace
<1>9. ASSUME NEW n \in 1..2, Len(ts) = 2, pos' = pos + n, rec' = Extend(ts, n) \/ rec' = Wrong,
             kv' = Written(ts, n)
      PROVE  GraphTyped'
  <2>1. ASSUME NEW k \in 1..n PROVE Extend(ts, k) \in Contents
    <3>1. k \in 0..Len(ts) /\ pos + k <= Ctx
      BY <1>2, <1>7, <1>9
    <3> QED BY <1>1, <1>2, <1>7, <3>1, ExtendTyped DEF Contents
  <2>2. ASSUME NEW i \in 1..pos + n
        PROVE  (IF i <= pos THEN kv[i] ELSE Extend(ts, i - pos)) \in Contents
    <3>1. CASE i <= pos
      BY <1>7, <3>1 DEF GraphTyped
    <3>2. CASE i > pos
      <4>1. i - pos \in 1..n
        BY <1>7, <3>2
      <4> QED BY <1>7, <2>1, <3>2, <4>1
    <3> QED BY <1>7, <3>1, <3>2
  <2>3. kv' \in [1..pos' -> Contents]
    BY <1>9, <2>2 DEF Written
  <2>4. rec' \in Contents
    BY <1>9, <2>1 DEF Contents
  <2>5. pos' \in 0..Ctx
    BY <1>2, <1>7, <1>9
  <2> QED BY <2>3, <2>4, <2>5 DEF GraphTyped
<1>10. PICK start \in MayKeepStart :
       \/ /\ ForwardFails
          /\ snap' = [NoSnaps EXCEPT !["start"] = Snapshots(ts, start)["start"]]
          /\ rows' = [NoRows EXCEPT !["start"] = IF start THEN logits ELSE Wrong]
          /\ UNCHANGED <<checkpoint, rewound, logits>>
       \/ /\ Exact /\ Len(ts) = 2
          /\ Forward(ts)
          /\ checkpoint' = checkpoint \o Take(ts, 1) /\ rewound' = FALSE
          /\ snap' = Restored(ts, 2, start) /\ rows' = LogitRows(ts, 2, start)
          /\ UNCHANGED logits
       \/ /\ Exact /\ Len(ts) = 2
          /\ pos' = pos + 1 /\ rec' = Wrong /\ kv' = Written(ts, 1)
          /\ checkpoint' = checkpoint \o Take(ts, 1) /\ rewound' = FALSE
          /\ snap' = Restored(ts, 1, start) /\ rows' = LogitRows(ts, 1, start)
          /\ logits' = Wrong
  BY DEF CycleFails
<1>11. start \in BOOLEAN
  BY DEF MayKeepStart
<1>12. CASE /\ ForwardFails
            /\ snap' = [NoSnaps EXCEPT !["start"] = Snapshots(ts, start)["start"]]
            /\ rows' = [NoRows EXCEPT !["start"] = IF start THEN logits ELSE Wrong]
            /\ UNCHANGED <<checkpoint, rewound, logits>>
  <2> DEFINE Snap == [pos : 0..Ctx, of : Contents]
             first == snap'["start"]
  <2>1. GraphTyped' /\ TextTyped' /\ FlagsTyped'
    BY <1>6, <1>7, <1>12, FailedTyped DEF TextTyped
  <2>2. /\ first = (IF start THEN Mark(pos, rec) ELSE None)
        /\ rows'["start"] = (IF start THEN logits ELSE Wrong)
        /\ \A m \in Marks : m # "start" => snap'[m] = None /\ rows'[m] = Wrong
        /\ snap' = [m \in Marks |-> snap'[m]] /\ rows' = [m \in Marks |-> rows'[m]]
    BY <1>12 DEF Snapshots, NoSnaps, NoRows, Marks
  <2>3. Mark(pos, rec) \in Snap
    BY <1>7 DEF Mark, GraphTyped
  <2>4. \A m \in Marks : snap'[m] \in Snap \cup {None} /\ rows'[m] \in Contents
    BY <1>7, <2>2, <2>3 DEF Contents
  <2>5. SnapsTyped'
    <3>1. snap' \in [Marks -> Snap \cup {None}]
      BY <2>2, <2>4
    <3>2. rows' \in [Marks -> Contents]
      BY <2>2, <2>4
    <3> QED BY <3>1, <3>2 DEF SnapsTyped
  <2>6. Matching'
    BY <1>2, <1>7, <2>2 DEF Matching, Mark, InPlace
  <2> QED BY <1>3, <1>4, <1>5, <2>1, <2>5, <2>6, InvalidStep DEF Typed
<1>13. CASE /\ Len(ts) = 2 /\ Forward(ts)
            /\ checkpoint' = checkpoint \o Take(ts, 1) /\ rewound' = FALSE
            /\ snap' = Restored(ts, 2, start) /\ rows' = LogitRows(ts, 2, start)
            /\ logits' = logits
  <2>1. pos' = pos + 2 /\ rec' = Extend(ts, 2) /\ kv' = Written(ts, 2)
    BY <1>13 DEF Forward
  <2>2. GraphTyped'
    BY <1>9, <1>13, <2>1
  <2>3. TextTyped' /\ FlagsTyped'
    BY <1>6, <1>7, <1>8, <1>13 DEF TextTyped
  <2>4. SnapsTyped' /\ Matching'
    <3>1. 2 \in 1..Len(ts)
      BY <1>13
    <3> QED BY <1>1, <1>2, <1>11, <1>13, <3>1, SnapshotsSound
  <2> QED BY <1>3, <1>4, <1>5, <2>2, <2>3, <2>4, InvalidStep DEF Typed
<1>14. CASE /\ Len(ts) = 2
            /\ pos' = pos + 1 /\ rec' = Wrong /\ kv' = Written(ts, 1)
            /\ checkpoint' = checkpoint \o Take(ts, 1) /\ rewound' = FALSE
            /\ snap' = Restored(ts, 1, start) /\ rows' = LogitRows(ts, 1, start)
            /\ logits' = Wrong
  <2>1. GraphTyped'
    BY <1>9, <1>14
  <2>2. TextTyped' /\ FlagsTyped'
    BY <1>6, <1>8, <1>14 DEF TextTyped, Contents
  <2>3. 1 \in 1..Len(ts)
    BY <1>14
  <2>4. SnapsTyped' /\ Matching'
    BY <1>1, <1>2, <1>11, <1>14, <2>3, SnapshotsSound
  <2> QED BY <1>3, <1>4, <1>5, <2>1, <2>2, <2>4, InvalidStep DEF Typed
<1> QED BY <1>10, <1>12, <1>13, <1>14

LEMMA StutterStep ==
    ASSUME IInv, UNCHANGED vars
    PROVE  IInv'
<1>1. TypeOK'
  <2>1. Typed
    BY TypeParts DEF IInv
  <2>2. Typed'
    BY <2>1 DEF Typed, TextTyped, FlagsTyped, GraphTyped, SnapsTyped, CallTyped, FileTyped, vars
  <2> QED BY <2>2, TypeParts
<1>2. /\ Placed' /\ SoundLogits' /\ SavedSound' /\ Matching' /\ Belong'
      /\ Undrafted' /\ Underway'
  BY DEF IInv, Placed, InPlace, Waiting, SoundLogits, SavedSound, Matching, Belong,
         Undrafted, Underway, Fresh, vars
<1> QED BY <1>1, <1>2, Zenon DEF IInv

LEMMA NextStep ==
    ASSUME IInv, ~LeftoverRewinds \/ snap["row1"] = None, Next
    PROVE  IInv'
<1>1. CASE \E p \in Prompts : BeginSync(p)
  BY <1>1, BeginSyncStep
<1>2. CASE SyncChunk
  BY <1>2, SyncChunkStep
<1>3. CASE SyncFails \/ EvalFails \/ BatchFails
  BY <1>3, FailedStep
<1>4. CASE SyncCancelled
  BY <1>4, SyncCancelledStep
<1>5. CASE SyncDone
  BY <1>5, SyncDoneStep
<1>6. CASE \E op \in {"eval", "cycle"} : Replay(op)
  BY <1>6, ReplayStep
<1>7. CASE \E t \in Tokens : Eval(t) \/ CyclePlain(t)
  BY <1>7, EvalStep
<1>8. CASE \E t \in Tokens : BatchPlain(t)
  BY <1>8, BatchPlainStep
<1>9. CASE \E ts \in Blocks : CycleVerify(ts) \/ BatchVerify(ts)
  BY <1>9, VerifiedStep
<1>10. CASE \E ts \in Blocks : CycleFails(ts)
  BY <1>10, CycleFailsStep
<1>11. CASE \E ts \in Blocks, r \in Tokens : CycleReplaces(ts, r)
  BY <1>11, ReplacedStep
<1>12. CASE \E n \in 0..Ctx : RewindResets(n) \/ \E m \in Marks : RewindToSnapshot(m, n)
  BY <1>12, RewindStep
<1>13. CASE Invalidate \/ \E n \in 0..Ctx : RewindInvalid(n)
  BY <1>13, InvalidateStep
<1>14. CASE Save
  BY <1>14, SaveStep
<1>15. CASE Load
  BY <1>15, LoadStep
<1>16. CASE LoadFails
  BY <1>16, LoadFailsStep
<1> QED
  BY <1>1, <1>2, <1>3, <1>4, <1>5, <1>6, <1>7, <1>8, <1>9, <1>10, <1>11, <1>12,
     <1>13, <1>14, <1>15, <1>16, Zenon DEF Next

\* Blocks of two rows leave no snapshot after the second.
Shallow == Depth = 2 => snap["row1"] = None

LEMMA ShallowStep ==
    ASSUME Shallow, Depth = 2, [Next]_vars
    PROVE  snap'["row1"] = None
<1>1. NoSnaps["row1"] = None
  BY DEF NoSnaps, Marks
<1>2. ASSUME NEW ts \in Blocks, NEW n \in 1..2, NEW start, snap' = Restored(ts, n, start)
      PROVE  snap'["row1"] = None
  <2>1. Len(ts) = 2
    BY DEF Blocks
  <2> QED BY <1>2, <2>1 DEF Restored, Snapshots, Marks
<1>3. ASSUME NEW ts \in Blocks, NEW n \in 1..Len(ts), NEW start, Verified(ts, n, start)
      PROVE  snap'["row1"] = None
  <2>1. Len(ts) = 2
    BY DEF Blocks
  <2> QED BY <1>2, <1>3, <2>1 DEF Verified
<1>4. CASE snap' \in {snap, NoSnaps}
  BY <1>1, <1>4 DEF Shallow
<1>5. CASE \E ts \in Blocks : CycleVerify(ts) \/ BatchVerify(ts)
  <2> PICK ts \in Blocks : CycleVerify(ts) \/ BatchVerify(ts)
    BY <1>5
  <2>1. CASE CycleVerify(ts)
    BY <1>3, <2>1 DEF CycleVerify
  <2>2. CASE BatchVerify(ts)
    <3>1. Len(ts) = 2
      BY <2>2 DEF BatchVerify
    <3> QED BY <1>3, <2>2, <3>1 DEF BatchVerify
  <2> QED BY <2>1, <2>2
<1>6. CASE \E ts \in Blocks : CycleFails(ts)
  <2> PICK ts \in Blocks : CycleFails(ts)
    BY <1>6
  <2>1. \A x : [NoSnaps EXCEPT !["start"] = x]["row1"] = None
    BY DEF NoSnaps, Marks
  <2>2. PICK start \in MayKeepStart :
           \/ snap' = [NoSnaps EXCEPT !["start"] = Snapshots(ts, start)["start"]]
           \/ snap' = Restored(ts, 2, start)
           \/ snap' = Restored(ts, 1, start)
    BY DEF CycleFails
  <2>3. CASE snap' = [NoSnaps EXCEPT !["start"] = Snapshots(ts, start)["start"]]
    BY <2>1, <2>3
  <2>4. CASE snap' = Restored(ts, 2, start) \/ snap' = Restored(ts, 1, start)
    <3>1. 1 \in 1..2 /\ 2 \in 1..2
      OBVIOUS
    <3> QED BY <1>2, <2>4, <3>1
  <2> QED BY <2>2, <2>3, <2>4
<1>7. CASE \E ts \in Blocks, r \in Tokens : CycleReplaces(ts, r)
  BY <1>2, <1>7 DEF CycleReplaces
<1>8. CASE \/ \E p \in Prompts : BeginSync(p)
           \/ SyncChunk \/ SyncFails \/ SyncCancelled \/ SyncDone
           \/ \E op \in {"eval", "cycle"} : Replay(op)
           \/ \E t \in Tokens : Eval(t) \/ CyclePlain(t) \/ BatchPlain(t)
           \/ EvalFails \/ BatchFails
  <2>1. snap' \in {snap, NoSnaps}
    BY <1>8 DEF BeginSync, Reset, SyncChunk, SyncFails, SyncCancelled, SyncDone, Replay,
                Eval, CyclePlain, BatchPlain, EvalFails, BatchFails
  <2> QED BY <1>4, <2>1
<1>9. CASE \/ \E n \in 0..Ctx : RewindResets(n) \/ RewindInvalid(n)
           \/ \E m \in Marks, n \in 0..Ctx : RewindToSnapshot(m, n)
           \/ Invalidate \/ Save \/ Load \/ LoadFails \/ UNCHANGED vars
  <2>1. snap' \in {snap, NoSnaps}
    BY <1>9 DEF RewindResets, RewindInvalid, RewindToSnapshot, Reset, Invalidate, Save,
                Load, LoadFails, vars
  <2> QED BY <1>4, <2>1
<1> QED BY <1>5, <1>6, <1>7, <1>8, <1>9 DEF Next

\* A rewind to a leftover snapshot is left out, or there is none.
Sheltered == ~LeftoverRewinds \/ Depth = 2

LEMMA Inductive == Sheltered => (Spec => [](IInv /\ Shallow))
<1> SUFFICES ASSUME Sheltered PROVE Spec => [](IInv /\ Shallow)
  OBVIOUS
<1>1. Init => IInv /\ Shallow
  BY InitSound DEF Init, Shallow, NoSnaps, Marks
<1>2. IInv /\ Shallow /\ [Next]_vars => IInv' /\ Shallow'
  <2> SUFFICES ASSUME IInv, Shallow, [Next]_vars PROVE IInv' /\ Shallow'
    OBVIOUS
  <2>1. Shallow'
    BY ShallowStep DEF Shallow
  <2>2. ~LeftoverRewinds \/ snap["row1"] = None
    BY DEF Sheltered, Shallow
  <2> QED BY <2>1, <2>2, NextStep, StutterStep
<1> QED BY <1>1, <1>2, PTL DEF Spec

-----------------------------------------------------------------------------
(* The theorems.                                                           *)

\* Every variable keeps its type: no pass runs past the context, and no more
\* is drafted than a verify can take.
THEOREM SessionTyped == Sheltered => (Spec => []TypeOK)
<1> SUFFICES ASSUME Sheltered PROVE Spec => []TypeOK
  OBVIOUS
<1>1. IInv => TypeOK
  BY DEF IInv
<1> QED BY <1>1, Inductive, PTL

\* Through syncs, cycles that accept, reject, replace or fail, rewinds, batches
\* and payloads, a valid session has its graph at its transcript, or reset and
\* waiting for the replay.
THEOREM StateSound == Sheltered => (Spec => []SoundState)
<1> SUFFICES ASSUME Sheltered PROVE Spec => []SoundState
  OBVIOUS
<1>1. IInv => SoundState
  <2> SUFFICES ASSUME IInv, valid PROVE State = checkpoint \/ (rewound /\ pos = 0 /\ call = NoCall)
    BY DEF SoundState
  <2>1. checkpoint \in Seq(Tokens)
    BY DEF IInv, TypeOK, Histories
  <2>2. InPlace \/ Waiting
    BY DEF IInv, Placed
  <2> QED BY <2>1, <2>2, StateInPlace DEF Waiting
<1> QED BY <1>1, Inductive, PTL

\* Sampling from a valid session that was not just rewound uses the logits of
\* its transcript.
THEOREM LogitsSound == Sheltered => (Spec => []SoundLogits)
<1> SUFFICES ASSUME Sheltered PROVE Spec => []SoundLogits
  OBVIOUS
<1>1. IInv => SoundLogits
  BY DEF IInv
<1> QED BY <1>1, Inductive, PTL

\* A payload restores what its tokens stand for.
THEOREM PayloadSound == Sheltered => (Spec => []SavedSound)
<1> SUFFICES ASSUME Sheltered PROVE Spec => []SavedSound
  OBVIOUS
<1>1. IInv => SavedSound
  BY DEF IInv
<1> QED BY <1>1, Inductive, PTL

\* No batch, load, reset or newer block leaves a snapshot, or the logits paired
\* with one, that a rewind could take for the transcript's.
THEOREM SnapshotsKept == Sheltered => (Spec => []SnapshotsBelong)
<1> SUFFICES ASSUME Sheltered PROVE Spec => []SnapshotsBelong
  OBVIOUS
<1>1. IInv /\ Shallow => SnapshotsBelong
  <2> SUFFICES ASSUME IInv, Shallow, valid, NEW n \in 0..Len(checkpoint) - 1, NEW m \in Marks,
                      Chosen(m, n), LeftoverRewinds \/ ~Leftover(n)
               PROVE  snap[m].of = Take(checkpoint, n) /\ rows[m] = Take(checkpoint, n)
    BY DEF SnapshotsBelong
  <2>1. n \in Nat
    OBVIOUS
  <2>2. ~LeftoverRewinds \/ snap["row1"] = None
    BY DEF Sheltered, Shallow
  <2> QED BY <2>1, <2>2, ChosenBelongs
<1> QED BY <1>1, Inductive, PTL
=============================================================================
