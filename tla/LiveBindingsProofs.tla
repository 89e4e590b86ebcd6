------------------------- MODULE LiveBindingsProofs -------------------------
(***************************************************************************)
(* For every set of slots and clients, whatever protocols the clients      *)
(* speak, and every length of the context: a binding that would be taken   *)
(* for a binding to the session of an idle slot was made for just that     *)
(* session; the model is given the conversation of the client; a           *)
(* checkpoint is stored under what was said in it; and the turn a client   *)
(* continues is not prefilled again while its slot has it.                 *)
(*                                                                         *)
(* What makes bindings honest is that a slot has one at most; while it     *)
(* works the request is the only one of its client; and a prefill that     *)
(* outgrows the context can only be one that continues from the binding,   *)
(* so that the binding stays at the old end of the session, whatever is    *)
(* evaluated past it (Sound).                                              *)
(*                                                                         *)
(* What makes conversations whole is what each text stands for (Stands): a *)
(* binding, a key or a prompt is a text that says what the tokens said, to *)
(* the spelling and the reasoning, or the last part of it (Conversing). So *)
(* what is said in a text (Said) is the notion that everything is compared *)
(* by, and it goes through concatenations.                                 *)
(***************************************************************************)
EXTENDS LiveBindings, SumProofs, SequenceTheorems, TLAPS

-----------------------------------------------------------------------------
(* Texts.                                                                  *)

\* The empty sequence is a text, and a history.
LEMMA EmptyType == <<>> \in Texts /\ <<>> \in Histories /\ Len(<<>>) = 0
<1>1. <<>> \in Texts /\ Len(<<>>) = 0
  BY EmptySeq DEF Texts
<1> QED BY <1>1, BindingsAssumption DEF Histories

\* A concatenation is a text, as long as its parts.
LEMMA ConcatType ==
    ASSUME NEW h \in Texts, NEW g \in Texts
    PROVE  h \o g \in Texts /\ Len(h \o g) = Len(h) + Len(g)
BY ConcatProperties DEF Texts

\* A text has a length.
LEMMA LenType ==
    ASSUME NEW h \in Texts
    PROVE  Len(h) \in Nat
BY LenProperties DEF Texts

\* Part of a text is a text.
LEMMA SubType ==
    ASSUME NEW h \in Texts, NEW m \in Nat, NEW n \in Nat, n <= Len(h), m >= 1
    PROVE  /\ SubSeq(h, m, n) \in Texts
           /\ m <= n => Len(SubSeq(h, m, n)) = n - m + 1
           /\ m > n => SubSeq(h, m, n) = <<>>
<1>1. Len(h) \in Nat
  BY LenType
<1>2. CASE m <= n
  <2>1. \A i \in m..n : h[i] \in Items
    BY <1>1, <1>2, ElementOfSeq DEF Texts
  <2> QED BY <1>1, <1>2, <2>1, SubSeqProperties DEF Texts
<1>3. CASE m > n
  BY <1>1, <1>3, SubSeqEmpty, EmptySeq DEF Texts
<1> QED BY <1>2, <1>3

\* What follows a prefix is a text.
LEMMA DropType ==
    ASSUME NEW h \in Texts, NEW n \in Nat
    PROVE  Drop(h, n) \in Texts /\ (n <= Len(h) => Len(Drop(h, n)) = Len(h) - n)
<1>1. Len(h) \in Nat
  BY LenType
<1>2. CASE n < Len(h)
  BY <1>1, <1>2, SubType DEF Drop
<1>3. CASE n >= Len(h)
  BY <1>1, <1>3, SubType, EmptyType DEF Drop
<1> QED BY <1>1, <1>2, <1>3

\* The text of tokens is as long as they are.
LEMMA TextType ==
    ASSUME NEW h \in Texts
    PROVE  Text(h) \in Texts /\ Len(Text(h)) = Len(h)
<1>1. Len(h) \in Nat
  BY LenType
<1>2. \A i \in 1..Len(h) : h[i] \in Items
  BY ElementOfSeq DEF Texts
<1>3. Text(h) \in [1..Len(h) -> Items]
  BY <1>2 DEF Text, Items
<1>4. Text(h) \in Seq(Items)
  BY <1>1, <1>3, SeqDef
<1> QED BY <1>1, <1>3, <1>4, LenProperties DEF Texts, Text

\* An item alone is a text.
LEMMA ItemType ==
    ASSUME NEW i \in Items
    PROVE  <<i>> \in Texts /\ Len(<<i>>) = 1
<1>1. [j \in 1..1 |-> i] \in [1..1 -> Items]
  OBVIOUS
<1>2. <<i>> = [j \in 1..1 |-> i]
  OBVIOUS
<1> QED BY <1>1, <1>2, SeqDef DEF Texts

\* And so are two.
LEMMA PairType ==
    ASSUME NEW i \in Items, NEW j \in Items
    PROVE  <<i, j>> \in Texts /\ Len(<<i, j>>) = 2
<1> DEFINE f == [k \in 1..2 |-> IF k = 1 THEN i ELSE j]
<1>1. f \in [1..2 -> Items]
  OBVIOUS
<1>2. <<i, j>> = f
  OBVIOUS
<1> QED BY <1>1, <1>2, SeqDef DEF Texts

\* An output is a text, not an empty one, and so is what of it is visible.
LEMMA OutputType ==
    ASSUME NEW out \in Answered \cup Called \cup {<<"reasoning">>}
    PROVE  /\ out \in Texts /\ Len(out) >= 1
           /\ Text(out) \in Texts
           /\ Visible(out) \in Texts
           /\ CallOf(out) \in Calls \cup {None}
<1>1. out \in Texts /\ Len(out) >= 1
  <2>1. "reasoning" \in Items /\ {"answer", "answer'"} \subseteq Items /\ Calls \ made \subseteq Items
    BY DEF Items
  <2>2. <<"reasoning">> \in Texts /\ Len(<<"reasoning">>) = 1
    BY <2>1, ItemType
  <2>3. ASSUME NEW i \in Items
        PROVE  <<"reasoning", i>> \in Texts /\ Len(<<"reasoning", i>>) = 2
    BY <2>1, PairType
  <2>4. CASE out \in EndsIn({"answer", "answer'"}) \cup EndsIn(Calls \ made)
    <3>1. \E i \in Items : out = <<i>> \/ out = <<"reasoning", i>>
      BY <2>1, <2>4 DEF EndsIn
    <3> QED BY <2>3, <3>1, ItemType
  <2> QED BY <2>2, <2>4 DEF Answered, Called
<1>2. Text(out) \in Texts /\ Len(Text(out)) = Len(out)
  BY <1>1, TextType
<1>3. Visible(out) \in Texts
  <2>1. Text(out) # <<>>
    BY <1>1, <1>2, EmptySeq DEF Texts
  <2>2. Tail(Text(out)) \in Texts
    BY <1>2, <2>1, HeadTailProperties DEF Texts
  <2> QED BY <1>2, <2>2 DEF Visible
<1>4. CallOf(out) \in Calls \cup {None}
  BY DEF CallOf
<1> QED BY <1>1, <1>2, <1>3, <1>4

-----------------------------------------------------------------------------
(* Types of the helpers.                                                   *)

\* The smaller of two numbers.
LEMMA MinOfTwo ==
    ASSUME NEW m \in Nat, NEW n \in Nat
    PROVE  Min({m, n}) = IF m <= n THEN m ELSE n
<1> DEFINE x == IF m <= n THEN m ELSE n
<1>1. x \in {m, n} /\ \A y \in {m, n} : x <= y
  OBVIOUS
<1>2. \A z \in {m, n} : (\A y \in {m, n} : z <= y) => z = x
  OBVIOUS
<1> QED BY <1>1, <1>2 DEF Min

\* A checkpoint that is put into the directory is all that may be new in it.
LEMMA PutType ==
    ASSUME NEW d, d \subseteq Checkpoints, NEW e \in Checkpoints, NEW x \in Put(d, e)
    PROVE  x \subseteq Checkpoints
BY DEF Put

\* What a request is given, and what continues it, is a text.
LEMMA EffectiveType ==
    ASSUME TypeOK, NEW s \in Slots, NEW c \in Clients, asked[c] # None
    PROVE  Effective(s, c) \in Texts
<1>1. /\ asked[c].prompt \in Texts /\ Len(asked[c].prompt) >= 1
      /\ live[s] \in Texts /\ Len(live[s]) \in Nat
  BY LenType DEF TypeOK, Requests, Histories
<1>2. ASSUME NEW n \in Nat
      PROVE  live[s] \o Drop(asked[c].prompt, n) \in Texts
  BY <1>1, DropType, ConcatType
<1>3. ASSUME NEW b \in Bindings
      PROVE  Len(b.text) \in Nat
  BY LenType DEF Bindings
<1>4. CASE Reuse(s, c) = "responses-visible"
  <2>1. responses[s] \in Bindings
    BY <1>4 DEF Reuse, Continues, AtFrontier, TypeOK
  <2> QED BY <1>2, <1>3, <1>4, <2>1 DEF Effective
<1>5. CASE Reuse(s, c) = "thinking-visible"
  <2>1. thinking[s] \in Bindings
    BY <1>5 DEF Reuse, Continues, AtFrontier, TypeOK
  <2> QED BY <1>2, <1>3, <1>5, <2>1 DEF Effective
<1>6. CASE Reuse(s, c) \in {"responses-tool-output", "anthropic-tool-output"}
  <2>1. Last(asked[c].prompt) \in Items
    BY <1>1, ElementOfSeq, LenType DEF Last, Texts
  <2>2. "end" \in Items
    BY DEF Items
  <2>3. <<"end", Last(asked[c].prompt)>> \in Texts
    BY <2>1, <2>2, PairType
  <2> QED BY <1>1, <1>6, <2>3, ConcatType DEF Effective
<1>7. CASE Reuse(s, c) = "memory-text"
  BY <1>1, <1>2, <1>7 DEF Effective
<1>8. CASE Reuse(s, c) \notin {"responses-visible", "thinking-visible", "responses-tool-output",
                               "anthropic-tool-output", "memory-text"}
  BY <1>1, <1>8 DEF Effective
<1> QED BY <1>4, <1>5, <1>6, <1>7, <1>8

\* A prefix of a text is where it begins.
LEMMA PrefixIs ==
    ASSUME NEW h \in Texts, NEW g \in Texts, IsPrefix(h, g)
    PROVE  SubSeq(g, 1, Len(h)) = h
BY SubSeqFull DEF IsPrefix, Texts

\* A text is a prefix of what continues it.
LEMMA PrefixOfConcat ==
    ASSUME NEW h \in Texts, NEW g \in Texts
    PROVE  IsPrefix(h, h \o g)
<1>1. h \in Seq(Items) /\ g \in Seq(Items)
  BY DEF Texts
<1> QED BY <1>1, SMT DEF IsPrefix

\* A sync that does not end leaves the session as it was, or longer.
LEMMA FrontiersType ==
    ASSUME TypeOK, NEW s \in Slots, turn[s] # None, NEW f \in Frontiers(s)
    PROVE  /\ f \in Histories
           /\ \/ f = live[s]
              \/ /\ f = SubSeq(turn[s].effective, 1, Len(f))
                 /\ IsPrefix(live[s], turn[s].effective) => Len(f) >= Len(live[s])
<1> DEFINE e == turn[s].effective
           m == Min({Len(e), Ctx})
<1>1. /\ e \in Texts /\ live[s] \in Histories /\ live[s] \in Texts
      /\ Len(e) \in Nat /\ Len(live[s]) \in Nat /\ Ctx \in Nat
  BY LenType, BindingsAssumption DEF TypeOK, Turns, Histories
<1>2. m \in Nat /\ m <= Len(e) /\ m <= Ctx
  BY <1>1, MinOfTwo
<1>3. CASE f = live[s]
  BY <1>1, <1>3
<1>4. CASE f # live[s]
  <2>1. PICK n \in (IF IsPrefix(live[s], e) THEN Len(live[s]) ELSE 1)..m - 1 : f = SubSeq(e, 1, n)
    BY <1>4 DEF Frontiers
  <2>2. /\ n \in Nat /\ n <= Len(e) /\ n <= Ctx
        /\ IsPrefix(live[s], e) => n >= Len(live[s])
    BY <1>1, <1>2, <2>1
  <2>3. f \in Texts
    BY <1>1, <2>1, <2>2, SubType
  <2>4. Len(f) = n
    <3>1. CASE n = 0
      BY <1>1, <2>1, <2>2, <3>1, SubType, EmptySeq
    <3>2. CASE n # 0
      BY <1>1, <2>1, <2>2, <3>2, SubType
    <3> QED BY <3>1, <3>2
  <2> QED BY <2>1, <2>2, <2>3, <2>4 DEF Histories
<1> QED BY <1>3, <1>4

\* What is persisted of the session of a slot is a checkpoint.
LEMMA PersistedType ==
    ASSUME TypeOK, NEW s \in Slots, NEW x \in Persisted(s)
    PROVE  x \subseteq Checkpoints
<1>1. live[s] \in Histories /\ live[s] \in Texts /\ disk \subseteq Checkpoints
  BY DEF TypeOK, Histories
<1>2. CheckpointOf(s) \in Checkpoints
  <2>1. ASSUME NEW b \in Bindings
        PROVE  b.text \in Texts
    BY DEF Bindings
  <2>2. CASE AtFrontier(responses[s], s)
    <3>1. responses[s] \in Bindings
      BY <2>2 DEF AtFrontier, TypeOK
    <3> QED BY <1>1, <2>1, <2>2, <3>1 DEF CheckpointOf, Checkpoints
  <2>3. CASE ~AtFrontier(responses[s], s) /\ AtFrontier(thinking[s], s) /\ ~thinking[s].byTokens
    <3>1. thinking[s] \in Bindings
      BY <2>3 DEF AtFrontier, TypeOK
    <3> QED BY <1>1, <2>1, <2>3, <3>1 DEF CheckpointOf, Checkpoints
  <2>4. CASE ~AtFrontier(responses[s], s) /\ ~(AtFrontier(thinking[s], s) /\ ~thinking[s].byTokens)
    BY <1>1, <2>4, TextType DEF CheckpointOf, ByTokens, Checkpoints
  <2> QED BY <2>2, <2>3, <2>4
<1> QED BY <1>1, <1>2, PutType DEF Persisted

\* What is remembered of a turn is a binding to the session it left.
LEMMA RememberType ==
    ASSUME TypeOK, NEW c \in Clients, asked[c] # None, NEW text \in Texts,
           NEW id \in Calls \cup {None}, NEW t \in Histories, NEW byTokens \in BOOLEAN
    PROVE  Remember(c, text, id, t, byTokens) \in Bindings
<1>1. asked[c].needs \in BOOLEAN
  BY DEF TypeOK, Requests
<1>2. Len(t) \in 0..Ctx
  BY LenType DEF Histories
<1> QED BY <1>1, <1>2 DEF Remember, Bindings

-----------------------------------------------------------------------------
(* Types, and whose request a slot works on.                               *)

\* What a slot works on is the request of a client that waits for it, and no
\* other slot does.
Owned ==
    \A s \in Slots : turn[s] # None =>
        /\ asked[turn[s].by] # None
        /\ \A z \in Slots : z # s /\ turn[z] # None => turn[z].by # turn[s].by

SlotsTyped == TypeOK /\ Owned

\* A request is one.
LEMMA RequestType ==
    ASSUME TypeOK, NEW c \in Clients, NEW m \in Messages \cup Results, NEW alone \in BOOLEAN,
           Len(Request(c, m, alone).prompt) < Ctx
    PROVE  Request(c, m, alone) \in Requests
<1> DEFINE means == Append(chat[c], m)
<1>1. m \in Items /\ chat[c] \in Seq(Items) /\ Ctx \in Nat
  BY BindingsAssumption DEF Items, TypeOK, Texts
<1>2. means \in Texts /\ Len(means) = Len(chat[c]) + 1 /\ Len(chat[c]) \in Nat
  BY <1>1, AppendProperties, LenProperties DEF Texts
<1>3. <<m>> \in Texts /\ Len(<<m>>) = 1
  BY <1>1, ItemType
<1>4. OpenCall(chat[c]) \in Calls \cup {None}
  BY DEF OpenCall
<1>5. Request(c, m, alone).prompt \in {means, <<m>>}
  BY DEF Request
<1> HIDE DEF means
<1>6. Len(Request(c, m, alone).prompt) \in 1..Ctx - 1
  <2> DEFINE p == Request(c, m, alone).prompt
  <2> HIDE DEF p
  <2>1. CASE p = means
    <3>1. Len(p) \in Nat /\ Len(p) >= 1
      BY <1>2, <2>1
    <3>2. Len(p) < Ctx
      BY DEF p
    <3>3. Len(p) \in 1..Ctx - 1
      BY <1>1, <3>1, <3>2
    <3> QED BY <3>3 DEF p
  <2>2. CASE p = <<m>>
    <3>1. Len(p) = 1
      BY <1>3, <2>2
    <3>2. Len(p) < Ctx
      BY DEF p
    <3>3. Len(p) \in 1..Ctx - 1
      BY <1>1, <3>1, <3>2
    <3> QED BY <3>3 DEF p
  <2> QED BY <1>5, <2>1, <2>2 DEF p
<1>7. Request(c, m, alone) =
        [means |-> means, prompt |-> Request(c, m, alone).prompt,
         id |-> Request(c, m, alone).id, needs |-> alone]
  BY DEF Request, means
<1>8. Request(c, m, alone).id \in Calls \cup {None}
  BY <1>4 DEF Request
<1>9. Request(c, m, alone).prompt \in Texts
  BY <1>2, <1>3, <1>5
<1> QED BY <1>2, <1>6, <1>7, <1>8, <1>9 DEF Requests

\* Asking and refusing touch no turn.
LEMMA TypedAsk ==
    ASSUME SlotsTyped, NEW c \in Clients, NEW m \in Messages \cup Results, NEW alone \in BOOLEAN,
           Ask(c, m, alone)
    PROVE  SlotsTyped'
<1>1. Request(c, m, alone) \in Requests
  BY RequestType DEF Ask, SlotsTyped
<1>2. TypeOK'
  BY <1>1 DEF TypeOK, SlotsTyped, Ask, bindings
<1>3. ASSUME NEW s \in Slots, turn[s] # None
      PROVE  turn[s].by # c /\ turn[s].by \in Clients
  BY <1>3 DEF SlotsTyped, Owned, Ask, TypeOK, Turns
<1>4. Owned'
  BY <1>3 DEF SlotsTyped, Owned, Ask, TypeOK
<1> QED BY <1>2, <1>4 DEF SlotsTyped

\* A turn that begins is one.
LEMMA WorkType ==
    ASSUME NEW c \in Clients, NEW via \in Tiers, NEW e \in Texts, NEW x \in Checkpoints \cup {None}
    PROVE  Work(c, via, e, x) \in Turns /\ Work(c, via, e, x).by = c
BY DEF Work, Turns

\* A slot that takes a request owns it.
LEMMA OwnedByTaker ==
    ASSUME SlotsTyped, NEW s \in Slots, NEW c \in Clients, Takes(s, c),
           NEW via, NEW e, NEW x, turn' = [turn EXCEPT ![s] = Work(c, via, e, x)], asked' = asked
    PROVE  Owned'
<1>1. Work(c, via, e, x).by = c
  BY DEF Work
<1> HIDE DEF Work
<1>2. /\ turn'[s] = Work(c, via, e, x) /\ asked[c] # None
      /\ \A z \in Slots : z # s => turn'[z] = turn[z]
      /\ \A z \in Slots : turn[z] # None => turn[z].by # c
  BY DEF Takes, SlotsTyped, TypeOK
<1> QED BY <1>1, <1>2 DEF SlotsTyped, Owned

\* So does one that starts it, whatever it is continued from.
LEMMA TypedStart ==
    ASSUME SlotsTyped, NEW s \in Slots, NEW c \in Clients,
           Refuse(s, c) \/ StartLive(s, c) \/ StartCold(s, c)
    PROVE  SlotsTyped'
<1>1. CASE Refuse(s, c)
  <2>1. TypeOK'
    BY <1>1 DEF TypeOK, SlotsTyped, Refuse, bindings
  <2>2. ASSUME NEW z \in Slots, turn[z] # None
        PROVE  turn[z].by # c
    BY <1>1, <2>2 DEF Refuse, Takes
  <2>3. Owned'
    BY <1>1, <2>2 DEF SlotsTyped, Owned, Refuse, TypeOK
  <2> QED BY <2>1, <2>3 DEF SlotsTyped
<1>2. CASE StartLive(s, c)
  <2>1. Effective(s, c) \in Texts /\ Reuse(s, c) \in Tiers
    <3>1. Effective(s, c) \in Texts
      BY <1>2, EffectiveType DEF StartLive, Takes, SlotsTyped
    <3> QED BY <3>1 DEF Reuse, Tiers
  <2>2. Work(c, Reuse(s, c), Effective(s, c), None) \in Turns
    BY <2>1, WorkType
  <2>3. TypeOK'
    BY <1>2, <2>2 DEF TypeOK, SlotsTyped, StartLive, bindings
  <2> QED BY <1>2, <2>3, OwnedByTaker DEF StartLive, SlotsTyped
<1>3. CASE StartCold(s, c)
  <2> DEFINE p == asked[c].prompt
  <2>1. p \in Texts /\ {"none", "disk-text"} \subseteq Tiers /\ disk' \subseteq Checkpoints
    BY <1>3, PersistedType DEF StartCold, Takes, SlotsTyped, TypeOK, Requests, Tiers
  <2>2. PICK l \in Histories, via \in Tiers, e \in Texts, x \in Checkpoints \cup {None} :
            live' \in {live, [live EXCEPT ![s] = l]}
            /\ turn' = [turn EXCEPT ![s] = Work(c, via, e, x)]
    <3>1. <<>> \in Histories
      BY EmptyType
    <3>2. CASE /\ turn' = [turn EXCEPT ![s] = Work(c, "none", p, None)]
               /\ live' \in {live, [live EXCEPT ![s] = <<>>]}
      BY <2>1, <3>1, <3>2
    <3>3. ASSUME NEW y \in Longest(disk', p), live' = [live EXCEPT ![s] = y.of],
                 turn' = [turn EXCEPT ![s] = Work(c, "disk-text", y.of \o Drop(p, Len(y.key)), y)]
          PROVE  \E l \in Histories, via \in Tiers, e \in Texts, x \in Checkpoints \cup {None} :
                    live' \in {live, [live EXCEPT ![s] = l]}
                    /\ turn' = [turn EXCEPT ![s] = Work(c, via, e, x)]
      <4>1. y \in Checkpoints
        BY <2>1 DEF Longest, Matches
      <4>2. y.of \in Histories /\ y.of \in Texts /\ Len(y.key) \in Nat
        BY <4>1, LenType DEF Checkpoints, Histories
      <4>3. y.of \o Drop(p, Len(y.key)) \in Texts
        BY <2>1, <4>2, DropType, ConcatType
      <4> QED BY <2>1, <3>3, <4>1, <4>2, <4>3
    <3> QED BY <1>3, <3>2, <3>3 DEF StartCold
  <2>3. Work(c, via, e, x) \in Turns
    BY WorkType
  <2>4. TypeOK'
    BY <1>3, <2>1, <2>2, <2>3 DEF TypeOK, SlotsTyped, StartCold, bindings
  <2> QED BY <1>3, <2>2, <2>4, OwnedByTaker DEF StartCold, SlotsTyped
<1> QED BY <1>1, <1>2, <1>3

\* The end of a job lets its client go.
LEMMA EndJobKeeps ==
    ASSUME SlotsTyped, NEW s \in Slots, turn[s] # None, EndJob(s)
    PROVE  /\ turn' \in [Slots -> Turns \cup {None}]
           /\ asked' \in [Clients -> Requests \cup {None}]
           /\ Owned'
<1>1. turn[s].by \in Clients
  BY DEF SlotsTyped, TypeOK, Turns
<1>2. /\ \A z \in Slots \ {s} : turn'[z] = turn[z]
      /\ turn'[s] = None
      /\ \A c \in Clients \ {turn[s].by} : asked'[c] = asked[c]
  BY DEF EndJob, SlotsTyped, TypeOK
<1>3. \A z \in Slots : turn[z] # None => turn[z].by \in Clients
  BY DEF SlotsTyped, TypeOK, Turns
<1> QED BY <1>1, <1>2, <1>3 DEF EndJob, SlotsTyped, TypeOK, Owned

\* Bindings that are forgotten leave none.
LEMMA ForgetAllType ==
    ASSUME TypeOK, NEW s \in Slots, ForgetAll(s)
    PROVE  /\ responses' \in [Slots -> Bindings \cup {None}]
           /\ anthropic' \in [Slots -> Bindings \cup {None}]
           /\ thinking' \in [Slots -> Bindings \cup {None}]
BY DEF TypeOK, ForgetAll

\* A failed load leaves the session with a history, as the sync left it.
LEMMA DiscardType ==
    ASSUME TypeOK, NEW s \in Slots, NEW f \in Histories \cup {<<>>}, Discard(s, f)
    PROVE  live' \in [Slots -> Histories] /\ disk' \subseteq Checkpoints
<1>1. <<>> \in Histories
  BY EmptyType
<1> QED BY <1>1 DEF TypeOK, Discard

\* However a prefill ends, the types are kept, and the owners.
LEMMA TypedPrefill ==
    ASSUME SlotsTyped, NEW s \in Slots,
           PrefillFails(s) \/ PrefillCancelled(s) \/ PrefillStopped(s) \/ PrefillDone(s)
    PROVE  SlotsTyped'
<1> DEFINE e == turn[s].effective
<1>1. /\ turn[s] # None /\ turn[s] \in Turns /\ e \in Texts /\ Ctx \in Nat
      /\ Len(e) \in Nat /\ live \in [Slots -> Histories] /\ disk \subseteq Checkpoints
  BY LenType, BindingsAssumption DEF PrefillFails, PrefillCancelled, PrefillStopped, PrefillDone,
        Prefilling, SlotsTyped, TypeOK, Turns
<1>2. \A f \in Frontiers(s) : f \in Histories
  BY <1>1, FrontiersType DEF SlotsTyped
<1>3. Len(e) < Ctx => e \in Histories
  BY <1>1 DEF Histories
<1>4. CASE PrefillFails(s)
  <2>1. live' \in [Slots -> Histories] /\ disk' \subseteq Checkpoints
    BY <1>2, <1>4, DiscardType DEF PrefillFails, SlotsTyped
  <2>2. TypeOK' /\ Owned'
    BY <1>1, <1>4, <2>1, EndJobKeeps DEF PrefillFails, SlotsTyped, TypeOK, bindings
  <2> QED BY <2>2 DEF SlotsTyped
<1>5. CASE PrefillCancelled(s)
  <2>1. live' \in [Slots -> Histories] /\ disk' \subseteq Checkpoints
    <3>1. CASE \E f \in Frontiers(s) \cup {<<>>} : Discard(s, f)
      BY <1>2, <3>1, DiscardType DEF SlotsTyped
    <3>2. CASE Len(e) < Ctx /\ live' = [live EXCEPT ![s] = e] /\ UNCHANGED disk
      BY <1>1, <1>3, <3>2
    <3> QED BY <1>5, <3>1, <3>2 DEF PrefillCancelled
  <2>2. TypeOK' /\ Owned'
    BY <1>1, <1>5, <2>1, EndJobKeeps, ForgetAllType DEF PrefillCancelled, SlotsTyped, TypeOK
  <2> QED BY <2>2 DEF SlotsTyped
<1>6. CASE PrefillStopped(s)
  <2>1. live' \in [Slots -> Histories] /\ disk' \subseteq Checkpoints
    BY <1>2, <1>6, DiscardType DEF PrefillStopped, SlotsTyped
  <2>2. TypeOK' /\ Owned'
    BY <1>1, <1>6, <2>1, EndJobKeeps DEF PrefillStopped, SlotsTyped, TypeOK, bindings
  <2> QED BY <2>2 DEF SlotsTyped
<1>7. CASE PrefillDone(s)
  <2>1. e \in Histories /\ live' \in [Slots -> Histories]
    BY <1>1, <1>3, <1>7 DEF PrefillDone
  <2>2. disk' \subseteq Checkpoints
    <3>1. ByTokens(e) \in Checkpoints
      BY <1>1, <2>1, TextType DEF ByTokens, Checkpoints
    <3> QED BY <1>1, <1>7, <3>1, PutType DEF PrefillDone
  <2>3. /\ responses' \in [Slots -> Bindings \cup {None}]
        /\ anthropic' \in [Slots -> Bindings \cup {None}]
        /\ thinking' \in [Slots -> Bindings \cup {None}]
    BY <1>7 DEF PrefillDone, ForgetOthers, Unless, SlotsTyped, TypeOK
  <2>4. /\ turn' \in [Slots -> Turns \cup {None}]
        /\ turn'[s].by = turn[s].by /\ turn'[s] \in Turns
        /\ \A z \in Slots \ {s} : turn'[z] = turn[z]
    BY <1>1, <1>7 DEF PrefillDone, SlotsTyped, TypeOK, Turns
  <2>5. TypeOK'
    BY <1>7, <2>1, <2>2, <2>3, <2>4 DEF PrefillDone, SlotsTyped, TypeOK
  <2>6. Owned'
    BY <1>1, <1>7, <2>4 DEF PrefillDone, SlotsTyped, Owned
  <2> QED BY <2>5, <2>6 DEF SlotsTyped
<1> QED BY <1>4, <1>5, <1>6, <1>7

\* What a client reads of an output is a text.
LEMMA ReadType ==
    ASSUME SlotsTyped, NEW s \in Slots, turn[s] # None,
           NEW out \in Answered \cup Called \cup {<<"reasoning">>}, Read(s, out)
    PROVE  chat' \in [Clients -> Texts]
<1> DEFINE c == turn[s].by
           said == IF kind[c].resends THEN Text(out) ELSE Visible(out)
<1>1. c \in Clients /\ asked[c].means \in Texts /\ chat \in [Clients -> Texts]
  BY DEF SlotsTyped, TypeOK, Owned, Turns, Requests
<1>2. said \in Texts
  BY OutputType
<1>3. <<"end">> \in Texts
  <2>1. "end" \in Items
    BY DEF Items
  <2> QED BY <2>1, ItemType
<1> HIDE DEF said
<1>4. asked[c].means \o said \o <<"end">> \in Texts
  BY <1>1, <1>2, <1>3, ConcatType
<1>5. chat' = [chat EXCEPT ![c] = asked[c].means \o said \o <<"end">>]
  BY DEF Read, said
<1> QED BY <1>1, <1>4, <1>5

\* What is remembered of a turn that ends well.
LEMMA RememberTurnType ==
    ASSUME SlotsTyped, NEW s \in Slots, turn[s] # None, NEW t \in Histories,
           NEW out \in Answered \cup Called, RememberTurn(s, out, t)
    PROVE  /\ responses' \in [Slots -> Bindings \cup {None}]
           /\ anthropic' \in [Slots -> Bindings \cup {None}]
           /\ thinking' \in [Slots -> Bindings \cup {None}]
<1> DEFINE c == turn[s].by
           r == asked[c]
           byTokens == CallOf(out) = None /\ kind[c].tools /\ ~ContinuedVisibly(s)
<1>1. c \in Clients /\ r # None /\ r.prompt \in Texts
  BY DEF SlotsTyped, TypeOK, Owned, Turns, Requests
<1>2. /\ Text(out) \in Texts /\ Visible(out) \in Texts /\ CallOf(out) \in Calls \cup {None}
      /\ <<>> \in Texts /\ <<"end">> \in Texts /\ None \in Calls \cup {None}
  <2>1. <<"end">> \in Texts
    <3>1. "end" \in Items
      BY DEF Items
    <3> QED BY <3>1, ItemType
  <2>2. <<>> \in Texts
    BY EmptyType
  <2> QED BY <2>1, <2>2, OutputType
<1>3. \A x \in ResponsesTexts(r, out) : x \in Texts
  <2>1. r.prompt \o Visible(out) \o <<"end">> \in Texts /\ r.prompt \o Text(out) \o <<"end">> \in Texts
    BY <1>1, <1>2, ConcatType
  <2> QED BY <2>1 DEF ResponsesTexts
<1>4. ThinkingText(r, out) \in Texts
  BY <1>1, <1>2, ConcatType DEF ThinkingText
<1>5. byTokens \in BOOLEAN
  BY DEF SlotsTyped, TypeOK
<1> HIDE DEF byTokens
<1>6. responses' \in [Slots -> Bindings \cup {None}]
  <2>1. PICK x \in ResponsesTexts(r, out) : responses' =
            IF Api(c) # "responses" THEN responses
            ELSE [responses EXCEPT ![s] = Remember(c, x, CallOf(out), t, FALSE)]
    BY DEF RememberTurn
  <2>2. Remember(c, x, CallOf(out), t, FALSE) \in Bindings
    BY <1>1, <1>2, <1>3, RememberType DEF SlotsTyped
  <2> QED BY <2>1, <2>2 DEF SlotsTyped, TypeOK
<1>7. anthropic' \in [Slots -> Bindings \cup {None}]
  <2>1. Remember(c, <<>>, CallOf(out), t, FALSE) \in Bindings
    BY <1>1, <1>2, RememberType DEF SlotsTyped
  <2> QED BY <2>1 DEF RememberTurn, SlotsTyped, TypeOK
<1>8. thinking' \in [Slots -> Bindings \cup {None}]
  <2>1. Remember(c, ThinkingText(r, out), None, t, byTokens) \in Bindings
    BY <1>1, <1>2, <1>4, <1>5, RememberType DEF SlotsTyped
  <2> QED BY <2>1 DEF RememberTurn, SlotsTyped, TypeOK, byTokens
<1> QED BY <1>6, <1>7, <1>8

\* The session with an output that fits is a history.
LEMMA OutputFits ==
    ASSUME TypeOK, NEW s \in Slots, NEW out \in Texts, Fits(s, out)
    PROVE  live[s] \o out \in Histories
<1>1. live[s] \in Texts /\ Len(live[s]) <= Ctx
  BY DEF TypeOK, Histories
<1> QED BY <1>1, ConcatType DEF Fits, Histories

\* However a generation ends.
LEMMA TypedDecode ==
    ASSUME SlotsTyped, NEW s \in Slots,
           TurnEnds(s) \/ StopSequence(s) \/ CutShort(s) \/ TurnLost(s)
    PROVE  SlotsTyped'
<1>1. turn[s] # None /\ live \in [Slots -> Histories] /\ disk \subseteq Checkpoints
  BY DEF TurnEnds, StopSequence, CutShort, TurnLost, Decoding, SlotsTyped, TypeOK
<1>2. <<>> \in Histories /\ <<>> \in Texts
  BY EmptyType
<1>3. ASSUME NEW out \in Outputs(s)
      PROVE  /\ out \in Answered \cup Called /\ out \in Texts /\ Fits(s, out)
             /\ CallOf(out) \in Calls \cup {None}
  BY <1>3, OutputType DEF Outputs
<1>4. CASE TurnEnds(s)
  <2>1. PICK out \in Outputs(s) :
            /\ live' = [live EXCEPT ![s] = live[s] \o out]
            /\ made' = made \cup ({CallOf(out)} \ {None})
            /\ RememberTurn(s, out, live[s] \o out) /\ Read(s, out)
    BY <1>4 DEF TurnEnds
  <2>2. live[s] \o out \in Histories
    BY <1>3, OutputFits DEF SlotsTyped
  <2>3. live' \in [Slots -> Histories] /\ made' \subseteq Calls
    BY <1>1, <1>3, <2>1, <2>2 DEF SlotsTyped, TypeOK
  <2>4. chat' \in [Clients -> Texts]
    BY <1>1, <1>3, <2>1, ReadType
  <2>5. TypeOK' /\ Owned'
    BY <1>1, <1>3, <1>4, <2>1, <2>2, <2>3, <2>4, RememberTurnType, EndJobKeeps
       DEF TurnEnds, SlotsTyped, TypeOK
  <2> QED BY <2>5 DEF SlotsTyped
<1>5. CASE StopSequence(s)
  <2>1. PICK out \in Outputs(s) :
            live' = [live EXCEPT ![s] = <<>>] /\ RememberTurn(s, out, <<>>) /\ Read(s, out)
    BY <1>5 DEF StopSequence
  <2>2. chat' \in [Clients -> Texts] /\ live' \in [Slots -> Histories]
    BY <1>1, <1>2, <1>3, <2>1, ReadType
  <2>3. TypeOK' /\ Owned'
    BY <1>1, <1>2, <1>3, <1>5, <2>1, <2>2, RememberTurnType, EndJobKeeps
       DEF StopSequence, SlotsTyped, TypeOK
  <2> QED BY <2>3 DEF SlotsTyped
<1>6. CASE CutShort(s)
  <2>1. PICK out \in Outputs(s) \cup {<<"reasoning">>} :
            Fits(s, out) /\ live' = [live EXCEPT ![s] = live[s] \o out] /\ Read(s, out)
    BY <1>6 DEF CutShort
  <2>2. out \in Answered \cup Called \cup {<<"reasoning">>} /\ out \in Texts
    BY <1>3, OutputType
  <2>3. chat' \in [Clients -> Texts] /\ live' \in [Slots -> Histories]
    BY <1>1, <2>1, <2>2, ReadType, OutputFits DEF SlotsTyped
  <2>4. TypeOK' /\ Owned'
    BY <1>1, <1>6, <2>3, ForgetAllType, EndJobKeeps DEF CutShort, SlotsTyped, TypeOK
  <2> QED BY <2>4 DEF SlotsTyped
<1>7. CASE TurnLost(s)
  <2>1. \A out \in {<<>>, <<"reasoning">>, <<"answer">>} : out \in Texts
    <3>1. "reasoning" \in Items /\ "answer" \in Items
      BY DEF Items
    <3> QED BY <1>2, <3>1, ItemType
  <2>2. live' \in [Slots -> Histories]
    BY <1>1, <1>2, <1>7, <2>1, OutputFits DEF TurnLost, SlotsTyped
  <2>3. TypeOK' /\ Owned'
    BY <1>1, <1>7, <2>2, ForgetAllType, EndJobKeeps DEF TurnLost, SlotsTyped, TypeOK
  <2> QED BY <2>3 DEF SlotsTyped
<1> QED BY <1>4, <1>5, <1>6, <1>7

\* The start of the process.
LEMMA TypedInit ==
    ASSUME Init
    PROVE  SlotsTyped
<1>1. <<>> \in Histories /\ <<>> \in Texts
  BY EmptyType
<1> QED BY <1>1 DEF Init, SlotsTyped, TypeOK, Owned

\* Each step keeps the types and the owners.
LEMMA TypedStep ==
    ASSUME SlotsTyped, [Next]_vars
    PROVE  SlotsTyped'
<1>1. <<>> \in Histories
  BY EmptyType
<1>2. ASSUME NEW s \in Slots, Persist(s)
      PROVE  SlotsTyped'
  <2>1. disk' \subseteq Checkpoints
    BY <1>2, PersistedType DEF Persist, SlotsTyped
  <2> QED BY <1>1, <1>2, <2>1 DEF Persist, SlotsTyped, TypeOK, Owned, bindings
<1>3. CASE Stop
  BY <1>3 DEF Stop, SlotsTyped, TypeOK, Owned, bindings
<1>4. CASE Restart
  BY <1>1, <1>4 DEF Restart, SlotsTyped, TypeOK, Owned
<1>5. CASE UNCHANGED vars
  BY <1>5 DEF vars, SlotsTyped, TypeOK, Owned, bindings
<1> QED BY <1>2, <1>3, <1>4, <1>5, TypedAsk, TypedStart, TypedPrefill, TypedDecode DEF Next

\* Sessions, bindings, requests, turns and checkpoints are what they are declared
\* to be: no session and no binding outgrows the context, no request is empty.
THEOREM BindingsTyped == Spec => []TypeOK
<1>1. Spec => []SlotsTyped
  BY TypedInit, TypedStep, PTL DEF Spec
<1> QED BY <1>1, PTL DEF SlotsTyped

-----------------------------------------------------------------------------
(* Bindings are honest.                                                    *)

Three(s) == {responses[s], anthropic[s], thinking[s]}

Single(s) ==
    /\ responses[s] # None => anthropic[s] = None /\ thinking[s] = None
    /\ anthropic[s] # None => thinking[s] = None

Honest(s) == live[s] # <<>> => \A b \in Three(s) : AtFrontier(b, s) => b.of = live[s]

\* Only a Responses client works with a Responses binding.
OfItsClient(s) ==
    /\ Prefilling(s) /\ turn[s].via \in {"responses-visible", "responses-tool-output"}
          => Api(turn[s].by) = "responses"
    /\ Decoding(s) /\ responses[s] # None => Api(turn[s].by) = "responses"

\* What will not fit continues from a binding.
Outgrown(s) ==
    Prefilling(s) /\ turn[s].file = None /\ Len(turn[s].effective) >= Ctx =>
        /\ IsPrefix(live[s], turn[s].effective)
        /\ Honest(s)
        /\ \E b \in Three(s) : AtFrontier(b, s)

SlotSound(s) ==
    Single(s) /\ (turn[s] = None => Honest(s)) /\ OfItsClient(s) /\ Outgrown(s)

Sound == \A s \in Slots : SlotSound(s)

\* A slot that is left alone stays as it is.
LEMMA Elsewhere ==
    ASSUME Sound, NEW s \in Slots, SlotSound(s)', kind' = kind,
           \A z \in Slots \ {s} :
              /\ live'[z] = live[z] /\ responses'[z] = responses[z]
              /\ anthropic'[z] = anthropic[z] /\ thinking'[z] = thinking[z]
              /\ turn'[z] = turn[z]
    PROVE  Sound'
<1>1. ASSUME NEW z \in Slots \ {s}
      PROVE  SlotSound(z)'
  BY <1>1 DEF Sound, SlotSound, Single, Honest, Three, OfItsClient, Outgrown, AtFrontier,
        Prefilling, Decoding, Api
<1> QED BY <1>1 DEF Sound

\* A slot that rests without bindings is sound, as is one without a session.
LEMMA RestSound ==
    ASSUME NEW s \in Slots, turn[s] = None, Single(s), Honest(s)
    PROVE  SlotSound(s)
BY DEF SlotSound, OfItsClient, Outgrown, Prefilling, Decoding

\* Of the texts a live request is given, only those that continue from a binding
\* are longer than its prompt.
LEMMA OutgrownStart ==
    ASSUME SlotsTyped, Sound, NEW s \in Slots, NEW c \in Clients, Takes(s, c),
           Len(Effective(s, c)) >= Ctx
    PROVE  /\ IsPrefix(live[s], Effective(s, c))
           /\ \E b \in Three(s) : AtFrontier(b, s)
<1> DEFINE r == asked[c]
<1>1. /\ r.prompt \in Texts /\ Len(r.prompt) \in Nat /\ Len(r.prompt) >= 1
      /\ Len(r.prompt) < Ctx /\ Ctx \in Nat /\ live[s] \in Texts /\ Len(live[s]) \in Nat
  BY LenType, BindingsAssumption DEF Takes, SlotsTyped, TypeOK, Requests, Histories
<1>2. ASSUME NEW n \in Nat
      PROVE  IsPrefix(live[s], live[s] \o Drop(r.prompt, n))
  BY <1>1, DropType, PrefixOfConcat
<1>3. CASE Reuse(s, c) = "responses-visible"
  <2>1. AtFrontier(responses[s], s)
    BY <1>3 DEF Reuse, Continues
  <2>2. Len(responses[s].text) \in Nat
    BY <2>1, LenType DEF AtFrontier, SlotsTyped, TypeOK, Bindings
  <2> QED BY <1>2, <1>3, <2>1, <2>2 DEF Effective, Three
<1>4. CASE Reuse(s, c) = "thinking-visible"
  <2>1. AtFrontier(thinking[s], s)
    BY <1>4 DEF Reuse, Continues
  <2>2. Len(thinking[s].text) \in Nat
    BY <2>1, LenType DEF AtFrontier, SlotsTyped, TypeOK, Bindings
  <2> QED BY <1>2, <1>4, <2>1, <2>2 DEF Effective, Three
<1>5. CASE Reuse(s, c) \in {"responses-tool-output", "anthropic-tool-output"}
  <2>1. AtFrontier(responses[s], s) \/ AtFrontier(anthropic[s], s)
    BY <1>5 DEF Reuse, Answers
  <2>2. <<"end", Last(r.prompt)>> \in Texts
    <3>1. "end" \in Items /\ Last(r.prompt) \in Items
      BY <1>1, ElementOfSeq DEF Items, Last, Texts
    <3> QED BY <3>1, PairType
  <2> QED BY <1>1, <1>5, <2>1, <2>2, PrefixOfConcat DEF Effective, Three
<1>6. CASE Reuse(s, c) = "memory-text"
  <2>1. IsPrefix(Text(live[s]), r.prompt)
    BY <1>6 DEF Reuse
  <2>2. Len(live[s]) <= Len(r.prompt)
    BY <1>1, <2>1, TextType DEF IsPrefix
  <2>3. Len(Drop(r.prompt, Len(live[s]))) = Len(r.prompt) - Len(live[s])
    BY <1>1, <2>2, DropType
  <2> DEFINE d == Drop(r.prompt, Len(live[s]))
  <2>4. d \in Texts
    BY <1>1, DropType
  <2>5. Effective(s, c) = live[s] \o d
    BY <1>6 DEF Effective
  <2> HIDE DEF d
  <2>6. Len(live[s] \o d) = Len(live[s]) + Len(d)
    BY <1>1, <2>4, ConcatType
  <2>7. Len(Effective(s, c)) = Len(r.prompt)
    BY <1>1, <2>3, <2>5, <2>6 DEF d
  <2> QED BY <1>1, <2>7
<1>7. CASE Reuse(s, c) \notin {"responses-visible", "thinking-visible", "responses-tool-output",
                               "anthropic-tool-output", "memory-text"}
  <2>1. Effective(s, c) = r.prompt
    BY <1>7 DEF Effective
  <2> QED BY <1>1, <2>1
<1> QED BY <1>3, <1>4, <1>5, <1>6, <1>7

\* A request that is taken finds the bindings of its slot honest, and keeps them.
LEMMA SoundStart ==
    ASSUME SlotsTyped, Sound, NEW s \in Slots, NEW c \in Clients,
           StartLive(s, c) \/ StartCold(s, c)
    PROVE  Sound'
<1>1. /\ Takes(s, c) /\ turn[s] = None /\ SlotSound(s) /\ kind' = kind
      /\ responses' = responses /\ anthropic' = anthropic /\ thinking' = thinking
  BY DEF StartLive, StartCold, Takes, Sound, bindings
<1>2. ASSUME NEW via \in Tiers, NEW e \in Texts, NEW x \in Checkpoints \cup {None},
             turn' = [turn EXCEPT ![s] = Work(c, via, e, x)],
             \A z \in Slots \ {s} : live'[z] = live[z],
             via \in {"responses-visible", "responses-tool-output"} => Api(c) = "responses",
             x = None /\ Len(e) >= Ctx =>
                 live'[s] = live[s] /\ IsPrefix(live[s], e) /\ \E b \in Three(s) : AtFrontier(b, s)
      PROVE  Sound'
  <2>1. Work(c, via, e, x) # None
    BY WorkType, BindingsAssumption
  <2>2. /\ turn'[s] = Work(c, via, e, x) /\ turn'[s].by = c /\ turn'[s].stage = "prefill"
        /\ turn'[s].via = via /\ turn'[s].effective = e /\ turn'[s].file = x
        /\ \A z \in Slots \ {s} : turn'[z] = turn[z]
    BY <1>2 DEF SlotsTyped, TypeOK, Work
  <2>3. Single(s)' /\ OfItsClient(s)'
    BY <1>1, <1>2, <2>2 DEF SlotSound, Single, OfItsClient, Prefilling, Decoding, Api
  <2>4. Outgrown(s)'
    BY <1>1, <1>2, <2>2 DEF SlotSound, Outgrown, Honest, Three, AtFrontier
  <2>5. SlotSound(s)'
    BY <2>1, <2>2, <2>3, <2>4 DEF SlotSound
  <2> QED BY <1>1, <1>2, <2>2, <2>5, Elsewhere
<1>3. CASE StartLive(s, c)
  <2>1. Effective(s, c) \in Texts /\ Reuse(s, c) \in Tiers
    <3>1. Effective(s, c) \in Texts
      BY <1>1, EffectiveType DEF Takes, SlotsTyped
    <3> QED BY <3>1 DEF Reuse, Tiers
  <2>2. Reuse(s, c) \in {"responses-visible", "responses-tool-output"} => Api(c) = "responses"
    BY DEF Reuse
  <2>3. Len(Effective(s, c)) >= Ctx =>
            IsPrefix(live[s], Effective(s, c)) /\ \E b \in Three(s) : AtFrontier(b, s)
    BY <1>1, OutgrownStart
  <2> QED BY <1>2, <1>3, <2>1, <2>2, <2>3 DEF StartLive
<1>4. CASE StartCold(s, c)
  <2> DEFINE p == asked[c].prompt
  <2>1. /\ p \in Texts /\ Len(p) < Ctx /\ Len(p) \in Nat /\ Ctx \in Nat
        /\ "none" \in Tiers /\ "disk-text" \in Tiers /\ disk' \subseteq Checkpoints
    BY <1>1, <1>4, PersistedType, LenType, BindingsAssumption
       DEF StartCold, Takes, SlotsTyped, TypeOK, Requests, Tiers
  <2>2. ~(Len(p) >= Ctx) /\ "none" \notin {"responses-visible", "responses-tool-output"}
        /\ "disk-text" \notin {"responses-visible", "responses-tool-output"}
    BY <2>1
  <2> HIDE DEF p
  <2>3. CASE /\ turn' = [turn EXCEPT ![s] = Work(c, "none", p, None)]
             /\ live' \in {live, [live EXCEPT ![s] = <<>>]}
    <3>1. \A z \in Slots \ {s} : live'[z] = live[z]
      BY <2>3 DEF SlotsTyped, TypeOK
    <3> QED BY <1>2, <2>1, <2>2, <2>3, <3>1
  <2>4. ASSUME NEW y \in Longest(disk', p), live' = [live EXCEPT ![s] = y.of],
               turn' = [turn EXCEPT ![s] = Work(c, "disk-text", y.of \o Drop(p, Len(y.key)), y)]
        PROVE  Sound'
    <3>1. y \in Checkpoints /\ y # None
      BY <2>1, BindingsAssumption DEF Longest, Matches
    <3>2. y.of \in Texts /\ Len(y.key) \in Nat
      BY <3>1, LenType DEF Checkpoints, Histories
    <3>3. y.of \o Drop(p, Len(y.key)) \in Texts
      BY <2>1, <3>2, DropType, ConcatType
    <3>4. \A z \in Slots \ {s} : live'[z] = live[z]
      BY <2>4 DEF SlotsTyped, TypeOK
    <3> HIDE DEF Work
    <3> QED BY <1>2, <2>1, <2>2, <2>4, <3>1, <3>3, <3>4
  <2> QED BY <1>4, <2>3, <2>4 DEF StartCold, p
<1> QED BY <1>3, <1>4

\* Where a session ends at a binding, or past it, the binding is honest.
LEMMA HonestAfter ==
    ASSUME NEW s \in Slots, live' = [live EXCEPT ![s] = live'[s]], UNCHANGED bindings,
           live'[s] # <<>> =>
               \A b \in Three(s) : b # None /\ b.at = Len(live'[s]) => b.of = live'[s]
    PROVE  Honest(s)'
BY DEF Honest, Three, AtFrontier, bindings

\* The end of a job at slot s, its bindings kept or all forgotten, and honest.
LEMMA SoundEnd ==
    ASSUME SlotsTyped, Sound, NEW s \in Slots, turn[s] # None, EndJob(s), kind' = kind,
           NEW l, live' = [live EXCEPT ![s] = l], Single(s)', Honest(s)',
           \A z \in Slots \ {s} : /\ responses'[z] = responses[z]
                                  /\ anthropic'[z] = anthropic[z] /\ thinking'[z] = thinking[z]
    PROVE  Sound'
<1>1. turn'[s] = None /\ \A z \in Slots \ {s} : turn'[z] = turn[z] /\ live'[z] = live[z]
  BY DEF EndJob, SlotsTyped, TypeOK
<1>2. SlotSound(s)'
  BY <1>1 DEF SlotSound, OfItsClient, Outgrown, Prefilling, Decoding
<1> QED BY <1>1, <1>2, Elsewhere

\* The same with no binding left.
LEMMA SoundForgotten ==
    ASSUME SlotsTyped, Sound, NEW s \in Slots, turn[s] # None, EndJob(s), kind' = kind,
           NEW l, live' = [live EXCEPT ![s] = l], ForgetAll(s)
    PROVE  Sound'
<1>1. /\ responses'[s] = None /\ anthropic'[s] = None /\ thinking'[s] = None
      /\ \A z \in Slots \ {s} : /\ responses'[z] = responses[z]
                                /\ anthropic'[z] = anthropic[z] /\ thinking'[z] = thinking[z]
  BY DEF ForgetAll, SlotsTyped, TypeOK
<1>2. Single(s)' /\ Honest(s)'
  BY <1>1 DEF Single, Honest, Three, AtFrontier
<1> QED BY <1>1, <1>2, SoundEnd

\* A prefill that ends for any reason leaves honest bindings: the one that an
\* outgrown text continues from stays at the old end of the session.
LEMMA SoundPrefill ==
    ASSUME ~Coincide, SlotsTyped, Sound, NEW s \in Slots,
           PrefillFails(s) \/ PrefillCancelled(s) \/ PrefillStopped(s) \/ PrefillDone(s)
    PROVE  Sound'
<1> DEFINE e == turn[s].effective
<1>1. /\ turn[s] # None /\ turn[s] \in Turns /\ e \in Texts /\ live[s] \in Texts
      /\ Prefilling(s) /\ kind' = kind /\ SlotSound(s)
      /\ live \in [Slots -> Histories]
  BY DEF PrefillFails, PrefillCancelled, PrefillStopped, PrefillDone,
        Prefilling, SlotsTyped, TypeOK, Turns, Histories, Sound
<1>2. ASSUME UNCHANGED bindings, EndJob(s), NEW f, Discard(s, f),
             f # <<>> /\ turn[s].file = None =>
                 \A b \in Three(s) : b # None /\ b.at = Len(f) => b.of = f
      PROVE  Sound'
  <2>1. PICK l : live' = [live EXCEPT ![s] = l] /\ l \in {f, <<>>} /\ (turn[s].file # None => l = <<>>)
    BY <1>2 DEF Discard
  <2>2. live'[s] = l
    BY <1>1, <2>1
  <2>3. Honest(s)'
    BY <1>2, <2>1, <2>2, HonestAfter
  <2>4. Single(s)'
    BY <1>1, <1>2 DEF SlotSound, Single, bindings
  <2> QED BY <1>1, <1>2, <2>1, <2>3, <2>4, SoundEnd DEF bindings
<1>3. CASE PrefillFails(s)
  <2>1. CASE Discard(s, <<>>)
    BY <1>2, <1>3, <2>1 DEF PrefillFails
  <2>2. ASSUME Len(e) >= Ctx, NEW f \in Frontiers(s), Discard(s, f)
        PROVE  Sound'
    <3>1. ASSUME f # <<>>, turn[s].file = None, NEW b \in Three(s), b # None, b.at = Len(f)
          PROVE  b.of = f
      <4>1. IsPrefix(live[s], e) /\ Honest(s)
        BY <1>1, <2>2, <3>1 DEF SlotSound, Outgrown
      <4>2. AtFrontier(b, s)
        <5>1. PICK d \in Three(s) : AtFrontier(d, s)
          BY <1>1, <2>2, <3>1 DEF SlotSound, Outgrown
        <5>2. d = b
          BY <1>1, <3>1, <5>1 DEF SlotSound, Single, Three, AtFrontier
        <5> QED BY <5>1, <5>2
      <4>3. Len(f) = Len(live[s])
        BY <3>1, <4>2 DEF AtFrontier
      <4>4. f = live[s]
        <5>1. f = live[s] \/ f = SubSeq(e, 1, Len(f))
          BY <1>1, FrontiersType DEF SlotsTyped
        <5>2. SubSeq(e, 1, Len(live[s])) = live[s]
          BY <1>1, <4>1, PrefixIs
        <5> QED BY <4>3, <5>1, <5>2
      <4> QED BY <3>1, <4>1, <4>2, <4>4 DEF Honest
    <3> QED BY <1>2, <1>3, <2>2, <3>1 DEF PrefillFails
  <2> QED BY <1>3, <2>1, <2>2 DEF PrefillFails
<1>4. CASE PrefillStopped(s)
  <2>1. PICK f \in Frontiers(s) :
            /\ Discard(s, f)
            /\ \A b \in Three(s) : b # None /\ b.at = Len(f) => b.of = f
    BY <1>4 DEF PrefillStopped, Three
  <2> QED BY <1>2, <1>4, <2>1 DEF PrefillStopped
<1>5. CASE PrefillCancelled(s)
  <2>1. PICK l : live' = [live EXCEPT ![s] = l]
    BY <1>5 DEF PrefillCancelled, Discard
  <2> QED BY <1>1, <1>5, <2>1, SoundForgotten DEF PrefillCancelled
<1>6. CASE PrefillDone(s)
  <2>1. /\ turn'[s].stage = "decode" /\ turn'[s].by = turn[s].by
        /\ turn'[s] \in Turns
        /\ \A z \in Slots \ {s} : turn'[z] = turn[z] /\ live'[z] = live[z]
    BY <1>1, <1>6 DEF PrefillDone, SlotsTyped, TypeOK, Turns
  <2>2. /\ \A z \in Slots \ {s} : /\ responses'[z] = responses[z]
                                  /\ anthropic'[z] = anthropic[z] /\ thinking'[z] = thinking[z]
        /\ responses'[s] \in {responses[s], None} /\ anthropic'[s] \in {anthropic[s], None}
        /\ thinking'[s] \in {thinking[s], None}
        /\ responses'[s] # None => turn[s].via \in {"responses-visible", "responses-tool-output"}
    BY <1>6 DEF PrefillDone, ForgetOthers, Unless, SlotsTyped, TypeOK
  <2>3. Single(s)'
    BY <1>1, <2>2 DEF SlotSound, Single
  <2>4. OfItsClient(s)'
    BY <1>1, <2>1, <2>2 DEF SlotSound, OfItsClient, Prefilling, Decoding, Api
  <2>5. SlotSound(s)'
    BY <2>1, <2>3, <2>4, BindingsAssumption DEF SlotSound, Outgrown, Prefilling
  <2> QED BY <1>1, <2>1, <2>2, <2>5, Elsewhere
<1> QED BY <1>3, <1>4, <1>5, <1>6

\* What is remembered of a turn is one binding, to the session it left.
LEMMA RememberedOne ==
    ASSUME SlotsTyped, NEW s \in Slots, SlotSound(s), Decoding(s),
           NEW out, NEW t, RememberTurn(s, out, t)
    PROVE  /\ Single(s)'
           /\ \A b \in Three(s)' : b # None => b.of = t
           /\ \A z \in Slots \ {s} : /\ responses'[z] = responses[z]
                                     /\ anthropic'[z] = anthropic[z] /\ thinking'[z] = thinking[z]
<1> DEFINE c == turn[s].by
<1>1. /\ \/ Api(c) # "responses" /\ responses' = responses /\ responses[s] = None
         \/ /\ Api(c) = "responses"
            /\ \E x : responses' = [responses EXCEPT ![s] = Remember(c, x, CallOf(out), t, FALSE)]
      /\ anthropic' = [anthropic EXCEPT ![s] =
             IF Api(c) = "anthropic" /\ CallOf(out) # None
             THEN Remember(c, <<>>, CallOf(out), t, FALSE) ELSE None]
  BY DEF RememberTurn, SlotSound, OfItsClient
<1>2. responses'[s] # None => Api(c) = "responses" /\ responses'[s].of = t
  BY <1>1 DEF SlotsTyped, TypeOK, Remember
<1>3. anthropic'[s] # None => Api(c) = "anthropic" /\ CallOf(out) # None /\ anthropic'[s].of = t
  BY <1>1 DEF SlotsTyped, TypeOK, Remember
<1>4. thinking'[s] # None => Rememberable(c, out) /\ thinking'[s].of = t
  <2>1. PICK y : thinking' = [thinking EXCEPT ![s] =
                     IF Rememberable(c, out) THEN Remember(c, ThinkingText(asked[c], out), None, t, y) ELSE None]
    BY DEF RememberTurn
  <2> QED BY <2>1 DEF SlotsTyped, TypeOK, Remember
<1>5. Single(s)'
  BY <1>2, <1>3, <1>4 DEF Single, Rememberable
<1>6. \A b \in Three(s)' : b # None => b.of = t
  BY <1>2, <1>3, <1>4 DEF Three
<1>7. ASSUME NEW z \in Slots \ {s}
      PROVE  /\ responses'[z] = responses[z]
             /\ anthropic'[z] = anthropic[z] /\ thinking'[z] = thinking[z]
  BY DEF RememberTurn, SlotsTyped, TypeOK
<1> QED BY <1>5, <1>6, <1>7

\* However a generation ends, what is remembered of it is honest.
LEMMA SoundDecode ==
    ASSUME SlotsTyped, Sound, NEW s \in Slots,
           TurnEnds(s) \/ StopSequence(s) \/ CutShort(s) \/ TurnLost(s)
    PROVE  Sound'
<1>1. /\ Decoding(s) /\ turn[s] # None /\ EndJob(s) /\ kind' = kind /\ SlotSound(s)
      /\ live \in [Slots -> Histories]
  BY DEF TurnEnds, StopSequence, CutShort, TurnLost, Decoding, SlotsTyped, TypeOK, Sound
<1>2. ASSUME NEW out, NEW t, RememberTurn(s, out, t), live' = [live EXCEPT ![s] = t]
      PROVE  Sound'
  <2>1. live'[s] = t
    BY <1>1, <1>2
  <2>2. Honest(s)'
    BY <1>1, <1>2, <2>1, RememberedOne DEF Honest, AtFrontier
  <2> QED BY <1>1, <1>2, <2>2, RememberedOne, SoundEnd
<1>3. CASE TurnEnds(s)
  BY <1>2, <1>3 DEF TurnEnds
<1>4. CASE StopSequence(s)
  BY <1>2, <1>4 DEF StopSequence
<1>5. CASE CutShort(s) \/ TurnLost(s)
  <2>1. PICK l : live' = [live EXCEPT ![s] = l]
    BY <1>5 DEF CutShort, TurnLost
  <2> QED BY <1>1, <1>5, <2>1, SoundForgotten DEF CutShort, TurnLost
<1> QED BY <1>3, <1>4, <1>5

\* Each step leaves the slots sound.
LEMMA SoundStep ==
    ASSUME ~Coincide, SlotsTyped, Sound, [Next]_vars
    PROVE  Sound'
<1>1. ASSUME UNCHANGED <<kind, live, bindings, turn>>
      PROVE  Sound'
  BY <1>1 DEF bindings, Sound, SlotSound, Single, Honest, Three, OfItsClient, Outgrown, AtFrontier,
        Prefilling, Decoding, Api
<1>2. ASSUME NEW s \in Slots, Persist(s)
      PROVE  Sound'
  <2>1. /\ live'[s] = <<>> /\ \A z \in Slots \ {s} : live'[z] = live[z]
        /\ turn' = turn /\ turn[s] = None /\ SlotSound(s) /\ kind' = kind
        /\ responses' = responses /\ anthropic' = anthropic /\ thinking' = thinking
    BY <1>2 DEF Persist, SlotsTyped, TypeOK, Sound, bindings
  <2>2. SlotSound(s)'
    BY <2>1 DEF SlotSound, Single, Honest, OfItsClient, Outgrown, Prefilling, Decoding
  <2> QED BY <2>1, <2>2, Elsewhere
<1>3. CASE Restart
  BY <1>3 DEF Restart, Sound, SlotSound, Single, Honest, OfItsClient, Outgrown, Prefilling, Decoding
<1>4. ASSUME NEW c \in Clients, NEW m \in Messages \cup Results, NEW alone \in BOOLEAN,
             Ask(c, m, alone)
      PROVE  Sound'
  BY <1>1, <1>4 DEF Ask
<1>5. ASSUME NEW s \in Slots, NEW c \in Clients, Refuse(s, c)
      PROVE  Sound'
  BY <1>1, <1>5 DEF Refuse
<1>6. CASE Stop
  BY <1>1, <1>6 DEF Stop
<1>7. ASSUME NEW s \in Slots, NEW c \in Clients, StartLive(s, c) \/ StartCold(s, c)
      PROVE  Sound'
  BY <1>7, SoundStart
<1>8. ASSUME NEW s \in Slots,
             PrefillFails(s) \/ PrefillCancelled(s) \/ PrefillStopped(s) \/ PrefillDone(s)
      PROVE  Sound'
  BY <1>8, SoundPrefill
<1>9. ASSUME NEW s \in Slots, TurnEnds(s) \/ StopSequence(s) \/ CutShort(s) \/ TurnLost(s)
      PROVE  Sound'
  BY <1>9, SoundDecode
<1>10. CASE UNCHANGED vars
  BY <1>1, <1>10 DEF vars, bindings
<1> QED BY <1>2, <1>3, <1>4, <1>5, <1>6, <1>7, <1>8, <1>9, <1>10 DEF Next

\* BindingsHonest, where a stop signal does not happen to interrupt a prefill
\* just where a binding to another session ends: what a request is taken to
\* continue by its visible text or by its call's id is the session that was
\* remembered by it, whatever failed, was cancelled or was cut in between.
THEOREM BindingsAreHonest == ~Coincide => (Spec => []BindingsHonest)
<1> SUFFICES ASSUME ~Coincide PROVE Spec => []BindingsHonest
  OBVIOUS
<1>1. Init => Sound
  BY DEF Init, Sound, SlotSound, Single, Honest, OfItsClient, Outgrown, Prefilling, Decoding
<1>2. Sound => BindingsHonest
  BY DEF Sound, SlotSound, Honest, Three, BindingsHonest
<1>3. SlotsTyped /\ Sound /\ [Next]_vars => SlotsTyped' /\ Sound'
  BY TypedStep, SoundStep
<1>4. Init => SlotsTyped
  BY TypedInit
<1> QED BY <1>1, <1>2, <1>3, <1>4, PTL DEF Spec

-----------------------------------------------------------------------------
(* What is left of a text without some items.                              *)

\* Concatenation may be regrouped.
LEMMA ConcatRegroup ==
    ASSUME NEW t \in Texts, NEW u \in Texts, NEW v \in Texts
    PROVE  (t \o u) \o v = t \o (u \o v)
BY ConcatAssociative DEF Texts

LEMMA ConcatAppend ==
    ASSUME NEW t \in Texts, NEW u \in Texts, NEW i \in Items
    PROVE  t \o Append(u, i) = Append(t \o u, i)
<1>1. PICK v \in Texts : v = <<i>>
  BY ItemType
<1>2. t \o u \in Texts
  BY ConcatType
<1>3. Append(u, i) = u \o v /\ Append(t \o u, i) = (t \o u) \o v
  BY <1>1, <1>2, AppendIsConcat DEF Texts
<1>4. (t \o u) \o v = t \o (u \o v)
  BY ConcatRegroup
<1> QED BY <1>3, <1>4

\* The equation by which Without is defined, for the first n items of t.
Selection(t, S, f, n) ==
    IF n = 0 THEN <<>> ELSE IF t[n] \in S THEN f[n - 1] ELSE Append(f[n - 1], t[n])
Selects(t, S, f, k) == \A n \in 0..k : f[n] = Selection(t, S, f, n)

LEMMA SelectionExists ==
    ASSUME NEW t, NEW S, NEW k \in Nat
    PROVE  \E f : Selects(t, S, f, k)
<1> DEFINE Bad == {n \in Nat : ~ \E f : Selects(t, S, f, n)}
<1> SUFFICES ASSUME Bad # {} PROVE FALSE
  OBVIOUS
<1>1. PICK n \in Bad : \A m \in Bad : n <= m
  <2>1. Bad \subseteq Nat
    OBVIOUS
  <2> HIDE DEF Bad
  <2> QED BY <2>1, LeastNat
<1>2. n \in Nat /\ ~ \E f : Selects(t, S, f, n)
  OBVIOUS
<1>3. n # 0
  <2> SUFFICES ASSUME n = 0 PROVE FALSE
    OBVIOUS
  <2> DEFINE f == [i \in 0..0 |-> <<>>]
  <2>1. Selects(t, S, f, 0)
    BY DEF Selects, Selection
  <2> HIDE DEF f
  <2> QED BY <1>2, <2>1
<1>4. n - 1 \in Nat /\ n - 1 \notin Bad
  BY <1>1, <1>2, <1>3
<1>5. PICK h : Selects(t, S, h, n - 1)
  BY <1>4
<1> DEFINE f == [i \in 0..n |-> IF i < n THEN h[i] ELSE Selection(t, S, h, n)]
<1>6. Selects(t, S, f, n)
  <2> SUFFICES ASSUME NEW i \in 0..n PROVE f[i] = Selection(t, S, f, i)
    BY DEF Selects
  <2>1. i # 0 => i - 1 \in 0..n /\ i - 1 < n
    BY <1>2
  <2>2. i # 0 => f[i - 1] = h[i - 1]
    BY <2>1
  <2>3. CASE i < n
    <3>1. h[i] = Selection(t, S, h, i)
      BY <1>2, <1>5, <2>3 DEF Selects
    <3>2. f[i] = h[i]
      BY <2>3
    <3> HIDE DEF f
    <3> QED BY <2>2, <3>1, <3>2 DEF Selection
  <2>4. CASE i = n
    <3>1. f[i] = Selection(t, S, h, n)
      BY <1>2, <2>4
    <3> HIDE DEF f
    <3> QED BY <2>2, <2>4, <3>1 DEF Selection
  <2> QED BY <1>2, <2>3, <2>4
<1> HIDE DEF f
<1> QED BY <1>2, <1>6

\* Two selections agree as far as their texts do.
LEMMA SelectionsAgree ==
    ASSUME NEW t, NEW u, NEW S, NEW f, NEW g, NEW k \in Nat,
           Selects(t, S, f, k), Selects(u, S, g, k), \A n \in 1..k : t[n] = u[n]
    PROVE  \A n \in 0..k : f[n] = g[n]
<1> DEFINE Bad == {n \in 0..k : f[n] # g[n]}
<1> SUFFICES ASSUME Bad # {} PROVE FALSE
  OBVIOUS
<1>1. PICK n \in Bad : \A m \in Bad : n <= m
  <2>1. Bad \subseteq Nat
    OBVIOUS
  <2> HIDE DEF Bad
  <2> QED BY <2>1, LeastNat
<1>2. n \in 0..k /\ f[n] # g[n]
  OBVIOUS
<1>3. f[n] = Selection(t, S, f, n) /\ g[n] = Selection(u, S, g, n)
  BY <1>2 DEF Selects
<1>4. n # 0
  BY <1>2, <1>3 DEF Selection
<1>5. f[n - 1] = g[n - 1]
  <2>1. n - 1 \in 0..k /\ n - 1 \notin Bad
    BY <1>1, <1>2, <1>4
  <2> QED BY <2>1
<1>6. t[n] = u[n]
  BY <1>2, <1>4
<1> QED BY <1>2, <1>3, <1>4, <1>5, <1>6 DEF Selection

\* Without is the value of any selection at the end of its text.
LEMMA WithoutIs ==
    ASSUME NEW t \in Texts, NEW S
    PROVE  \E f : Selects(t, S, f, Len(t)) /\ Without(t, S) = f[Len(t)]
<1> DEFINE IsIt(f) == f = [n \in 0..Len(t) |->
                              IF n = 0 THEN <<>>
                              ELSE IF t[n] \in S THEN f[n - 1] ELSE Append(f[n - 1], t[n])]
           F == CHOOSE f : IsIt(f)
<1>0. Len(t) \in Nat
  BY LenType
<1>1. Without(t, S) = F[Len(t)]
  BY DEF Without
<1>2. ASSUME NEW f, IsIt(f) PROVE Selects(t, S, f, Len(t))
  BY <1>2 DEF Selects, Selection
<1>3. \E f : IsIt(f)
  <2>1. PICK h : Selects(t, S, h, Len(t))
    BY <1>0, SelectionExists
  <2> DEFINE f == [n \in 0..Len(t) |-> h[n]]
  <2>2. IsIt(f)
    <3> SUFFICES ASSUME NEW n \in 0..Len(t)
                 PROVE  f[n] = IF n = 0 THEN <<>>
                               ELSE IF t[n] \in S THEN f[n - 1] ELSE Append(f[n - 1], t[n])
      OBVIOUS
    <3>1. h[n] = Selection(t, S, h, n)
      BY <2>1 DEF Selects
    <3>2. n # 0 => n - 1 \in 0..Len(t)
      BY <1>0
    <3>3. f[n] = h[n] /\ (n # 0 => f[n - 1] = h[n - 1])
      BY <3>2
    <3> HIDE DEF f
    <3> QED BY <3>1, <3>3 DEF Selection
  <2> HIDE DEF IsIt, f
  <2> QED BY <2>2
<1>4. IsIt(F)
  <2> HIDE DEF IsIt
  <2> QED BY <1>3
<1> HIDE DEF F, IsIt
<1> QED BY <1>1, <1>2, <1>4

LEMMA WithoutEmpty ==
    ASSUME NEW S
    PROVE  Without(<<>>, S) = <<>>
<1>1. PICK f : Selects(<<>>, S, f, 0) /\ Without(<<>>, S) = f[0]
  BY EmptyType, WithoutIs
<1> QED BY <1>1 DEF Selects, Selection

LEMMA WithoutAppend ==
    ASSUME NEW t \in Texts, NEW i \in Items, NEW S
    PROVE  Without(Append(t, i), S) = IF i \in S THEN Without(t, S) ELSE Append(Without(t, S), i)
<1> DEFINE u == Append(t, i)
           k == Len(t)
<1>1. /\ u \in Texts /\ Len(u) = k + 1 /\ k \in Nat
      /\ u[k + 1] = i /\ \A n \in 1..k : u[n] = t[n]
  BY AppendProperties, LenType DEF Texts
<1> HIDE DEF u
<1>2. PICK f : Selects(t, S, f, k) /\ Without(t, S) = f[k]
  BY WithoutIs
<1>3. PICK g : Selects(u, S, g, k + 1) /\ Without(u, S) = g[k + 1]
  BY <1>1, WithoutIs
<1> HIDE DEF k
<1>4. Selects(u, S, g, k)
  <2>1. \A n \in 0..k : n \in 0..k + 1
    BY <1>1
  <2> QED BY <1>3, <2>1 DEF Selects
<1>5. f[k] = g[k]
  BY <1>1, <1>2, <1>4, SelectionsAgree
<1>6. g[k + 1] = Selection(u, S, g, k + 1)
  BY <1>1, <1>3 DEF Selects
<1>7. k + 1 # 0 /\ (k + 1) - 1 = k
  BY <1>1
<1>8. g[k + 1] = IF i \in S THEN g[k] ELSE Append(g[k], i)
  BY <1>1, <1>6, <1>7 DEF Selection
<1> QED BY <1>2, <1>3, <1>5, <1>8 DEF u

\* A text is empty, or has a last item.
LEMMA TextCases ==
    ASSUME NEW t \in Texts, t # <<>>
    PROVE  \E u \in Texts, i \in Items : t = Append(u, i) /\ Len(t) = Len(u) + 1
<1>1. PICK u \in Seq(Items), i \in Items : t = Append(u, i)
  BY SequenceEmptyOrAppend DEF Texts
<1> QED BY <1>1, AppendProperties DEF Texts

LEMMA WithoutType ==
    ASSUME NEW t \in Texts, NEW S
    PROVE  Without(t, S) \in Texts
<1> DEFINE Bad == {n \in Nat : \E u \in Texts : Len(u) = n /\ Without(u, S) \notin Texts}
<1> SUFFICES ASSUME Without(t, S) \notin Texts PROVE FALSE
  OBVIOUS
<1>1. Len(t) \in Bad
  BY LenType
<1>2. PICK n \in Bad : \A m \in Bad : n <= m
  <2>1. Bad \subseteq Nat /\ Bad # {}
    BY <1>1
  <2> HIDE DEF Bad
  <2> QED BY <2>1, LeastNat
<1>3. PICK u \in Texts : Len(u) = n /\ Without(u, S) \notin Texts
  OBVIOUS
<1>4. u # <<>>
  BY <1>3, WithoutEmpty, EmptyType
<1>5. PICK v \in Texts, i \in Items : u = Append(v, i) /\ Len(u) = Len(v) + 1
  BY <1>4, TextCases
<1>6. Without(v, S) \in Texts
  <2>1. Len(v) \in Nat /\ Len(v) < n
    BY <1>3, <1>5, LenType
  <2>2. Len(v) \notin Bad
    BY <1>2, <2>1
  <2> QED BY <2>1, <2>2
<1>7. Append(Without(v, S), i) \in Texts
  BY <1>6, AppendProperties DEF Texts
<1>8. Without(u, S) = IF i \in S THEN Without(v, S) ELSE Append(Without(v, S), i)
  BY <1>5, WithoutAppend
<1> HIDE DEF Bad
<1> QED BY <1>3, <1>6, <1>7, <1>8

LEMMA WithoutConcat ==
    ASSUME NEW t \in Texts, NEW u \in Texts, NEW S
    PROVE  Without(t \o u, S) = Without(t, S) \o Without(u, S)
<1> DEFINE Holds(v) == Without(t \o v, S) = Without(t, S) \o Without(v, S)
           Bad == {n \in Nat : \E v \in Texts : Len(v) = n /\ ~Holds(v)}
<1> SUFFICES ASSUME ~Holds(u) PROVE FALSE
  OBVIOUS
<1>1. Len(u) \in Bad
  BY LenType
<1>2. PICK n \in Bad : \A m \in Bad : n <= m
  <2>1. Bad \subseteq Nat /\ Bad # {}
    BY <1>1
  <2> HIDE DEF Bad
  <2> QED BY <2>1, LeastNat
<1>3. PICK v \in Texts : Len(v) = n /\ ~Holds(v)
  OBVIOUS
<1>a. Without(t, S) \in Texts
  BY WithoutType
<1>4. v # <<>>
  <2>1. t \o <<>> = t /\ Without(t, S) \o <<>> = Without(t, S)
    BY <1>a, ConcatEmptySeq DEF Texts
  <2>2. Holds(<<>>)
    BY <2>1, WithoutEmpty
  <2> QED BY <1>3, <2>2
<1>5. PICK w \in Texts, i \in Items : v = Append(w, i) /\ Len(v) = Len(w) + 1
  BY <1>4, TextCases
<1>6. Holds(w)
  <2>1. Len(w) \in Nat /\ Len(w) < n
    BY <1>3, <1>5, LenType
  <2>2. Len(w) \notin Bad
    <3>1. n \in Nat
      OBVIOUS
    <3> HIDE DEF Bad
    <3> QED BY <1>2, <2>1, <3>1
  <2> QED BY <2>1, <2>2
<1>7. ASSUME NEW x \in Texts, NEW y \in Texts
      PROVE  x \o Append(y, i) = Append(x \o y, i)
  BY ConcatAppend
<1>8. Without(w, S) \in Texts /\ t \o w \in Texts
  BY WithoutType, ConcatType
<1>9. /\ t \o v = Append(t \o w, i)
      /\ Without(t, S) \o Append(Without(w, S), i) = Append(Without(t, S) \o Without(w, S), i)
  <2> HIDE DEF Holds, Bad
  <2>1. t \o Append(w, i) = Append(t \o w, i)
    BY <1>7
  <2>2. Without(t, S) \o Append(Without(w, S), i) = Append(Without(t, S) \o Without(w, S), i)
    BY <1>7, <1>8, <1>a
  <2> QED BY <1>5, <2>1, <2>2
<1>10. Holds(v)
  <2>1. Without(t \o v, S) =
            IF i \in S THEN Without(t \o w, S) ELSE Append(Without(t \o w, S), i)
    <3>1. Without(Append(t \o w, i), S) =
              IF i \in S THEN Without(t \o w, S) ELSE Append(Without(t \o w, S), i)
      BY <1>8, WithoutAppend
    <3> QED BY <1>9, <3>1
  <2>2. Without(v, S) = IF i \in S THEN Without(w, S) ELSE Append(Without(w, S), i)
    BY <1>5, WithoutAppend
  <2>3. Without(t \o w, S) = Without(t, S) \o Without(w, S)
    BY <1>6
  <2> QED BY <1>9, <2>1, <2>2, <2>3
<1> QED BY <1>3, <1>10

-----------------------------------------------------------------------------
(* What is said.                                                           *)

LEMMA TextItem ==
    ASSUME NEW t \in Texts, NEW i \in 1..Len(t)
    PROVE  Text(t)[i] = IF t[i] = "answer'" THEN "answer" ELSE t[i]
BY LenType DEF Text

LEMMA TextConcat ==
    ASSUME NEW t \in Texts, NEW u \in Texts
    PROVE  Text(t \o u) = Text(t) \o Text(u)
<1>1. /\ t \o u \in Texts /\ Len(t \o u) = Len(t) + Len(u) /\ Len(t) \in Nat /\ Len(u) \in Nat
      /\ \A i \in 1..Len(t) + Len(u) :
            (t \o u)[i] = IF i <= Len(t) THEN t[i] ELSE u[i - Len(t)]
  BY ConcatProperties, ConcatType, LenType DEF Texts
<1>2. /\ Text(t) \in Texts /\ Len(Text(t)) = Len(t) /\ Text(u) \in Texts /\ Len(Text(u)) = Len(u)
      /\ Text(t \o u) \in Texts /\ Len(Text(t \o u)) = Len(t) + Len(u)
  BY <1>1, TextType
<1>3. /\ Text(t) \o Text(u) \in Texts /\ Len(Text(t) \o Text(u)) = Len(t) + Len(u)
      /\ \A i \in 1..Len(t) + Len(u) :
            (Text(t) \o Text(u))[i] = IF i <= Len(t) THEN Text(t)[i] ELSE Text(u)[i - Len(t)]
  BY <1>2, ConcatProperties, ConcatType DEF Texts
<1>4. ASSUME NEW i \in 1..Len(t) + Len(u)
      PROVE  Text(t \o u)[i] = (Text(t) \o Text(u))[i]
  <2>1. Text(t \o u)[i] = IF (t \o u)[i] = "answer'" THEN "answer" ELSE (t \o u)[i]
    BY <1>1, TextItem
  <2>2. CASE i <= Len(t)
    <3>1. i \in 1..Len(t)
      BY <1>1, <2>2
    <3>2. Text(t)[i] = IF t[i] = "answer'" THEN "answer" ELSE t[i]
      BY <3>1, TextItem
    <3> QED BY <1>1, <1>3, <2>1, <2>2, <3>2
  <2>3. CASE ~(i <= Len(t))
    <3>1. i - Len(t) \in 1..Len(u)
      BY <1>1, <2>3
    <3>2. Text(u)[i - Len(t)] = IF u[i - Len(t)] = "answer'" THEN "answer" ELSE u[i - Len(t)]
      BY <3>1, TextItem
    <3> QED BY <1>1, <1>3, <2>1, <2>3, <3>2
  <2> QED BY <2>2, <2>3
<1> QED BY <1>2, <1>3, <1>4, SeqEqual DEF Texts

LEMMA TextTwice ==
    ASSUME NEW t \in Texts
    PROVE  Text(Text(t)) = Text(t)
<1>1. /\ Text(t) \in Texts /\ Len(Text(t)) = Len(t)
      /\ Text(Text(t)) \in Texts /\ Len(Text(Text(t))) = Len(t)
  BY TextType
<1>2. ASSUME NEW i \in 1..Len(t)
      PROVE  Text(Text(t))[i] = Text(t)[i]
  BY <1>1, TextItem
<1> QED BY <1>1, <1>2, SeqEqual DEF Texts

\* Said is a text, and says what its parts say, however they are spelled.
LEMMA SaidType ==
    ASSUME NEW t \in Texts
    PROVE  Said(t) \in Texts
BY TextType, WithoutType DEF Said

LEMMA SaidConcat ==
    ASSUME NEW t \in Texts, NEW u \in Texts
    PROVE  Said(t \o u) = Said(t) \o Said(u)
<1>1. Text(t) \in Texts /\ Text(u) \in Texts
  BY TextType
<1>2. Text(t \o u) = Text(t) \o Text(u)
  BY TextConcat
<1> DEFINE S == {"reasoning", "end"}
<1> HIDE DEF S
<1>3. Without(Text(t) \o Text(u), S) = Without(Text(t), S) \o Without(Text(u), S)
  BY <1>1, WithoutConcat
<1> QED BY <1>2, <1>3 DEF Said, S

LEMMA SaidText ==
    ASSUME NEW t \in Texts
    PROVE  Said(Text(t)) = Said(t)
BY TextTwice DEF Said

\* The text of one item.
LEMMA TextOfItem ==
    ASSUME NEW i \in Items
    PROVE  Text(<<i>>) = <<IF i = "answer'" THEN "answer" ELSE i>>
<1> DEFINE j == IF i = "answer'" THEN "answer" ELSE i
<1>1. j \in Items
  BY DEF Items
<1>2. <<i>> \in Texts /\ Len(<<i>>) = 1 /\ <<i>>[1] = i
  BY ItemType
<1>3. <<j>> \in Texts /\ Len(<<j>>) = 1 /\ <<j>>[1] = j
  BY <1>1, ItemType
<1>4. Text(<<i>>) \in Texts /\ Len(Text(<<i>>)) = 1
  BY <1>2, TextType
<1>5. 1 \in 1..Len(<<i>>)
  BY <1>2
<1>6. Text(<<i>>)[1] = j
  BY <1>2, <1>5, TextItem
<1>7. \A n \in 1..1 : n = 1
  OBVIOUS
<1> HIDE DEF j
<1>8. Text(<<i>>) = <<j>>
  BY <1>3, <1>4, <1>6, <1>7, SeqEqual DEF Texts
<1> QED BY <1>8 DEF j

\* One item.
LEMMA SaidItem ==
    ASSUME NEW i \in Items
    PROVE  Said(<<i>>) = IF i \in {"reasoning", "end"} THEN <<>>
                         ELSE IF i = "answer'" THEN <<"answer">> ELSE <<i>>
<1> DEFINE j == IF i = "answer'" THEN "answer" ELSE i
           S == {"reasoning", "end"}
<1>1. j \in Items
  BY DEF Items
<1>4. Text(<<i>>) = <<j>>
  BY TextOfItem
<1>5. <<j>> = Append(<<>>, j)
  OBVIOUS
<1> HIDE DEF j, S
<1>6. Without(<<j>>, S) = IF j \in S THEN Without(<<>>, S) ELSE Append(Without(<<>>, S), j)
  <2>1. \A t \in Texts : Without(Append(t, j), S) =
                            IF j \in S THEN Without(t, S) ELSE Append(Without(t, S), j)
    BY <1>1, WithoutAppend
  <2>2. Without(Append(<<>>, j), S) =
            IF j \in S THEN Without(<<>>, S) ELSE Append(Without(<<>>, S), j)
    BY <2>1, EmptyType
  <2> QED BY <1>5, <2>2
<1>7. Said(<<i>>) = IF j \in S THEN <<>> ELSE <<j>>
  BY <1>4, <1>5, <1>6, WithoutEmpty DEF Said, S
<1> QED BY <1>7 DEF j, S

LEMMA SaidMarks == Said(<<"reasoning">>) = <<>> /\ Said(<<"end">>) = <<>> /\ Said(<<>>) = <<>>
<1>1. "reasoning" \in Items /\ "end" \in Items
  BY DEF Items
<1>2. Text(<<>>) = <<>>
  BY EmptyType, TextType, EmptySeq DEF Texts
<1>3. Said(<<>>) = <<>>
  BY <1>2, WithoutEmpty DEF Said
<1> QED BY <1>1, <1>3, SaidItem

\* Marks at the end of a text say nothing.
LEMMA SaidClosed ==
    ASSUME NEW t \in Texts
    PROVE  t \o <<"end">> \in Texts /\ Said(t \o <<"end">>) = Said(t)
<1>1. <<"end">> \in Texts
  BY ItemType DEF Items
<1>2. Said(t \o <<"end">>) = Said(t) \o <<>>
  BY <1>1, SaidConcat, SaidMarks
<1>3. Said(t) \in Texts
  BY SaidType
<1> QED BY <1>1, <1>2, <1>3, ConcatType, ConcatEmptySeq DEF Texts

\* A message says itself.
LEMMA SaidMessage ==
    ASSUME NEW t \in Texts, NEW m \in Messages \cup Results
    PROVE  /\ m \in Items /\ <<m>> \in Texts /\ Append(t, m) \in Texts
           /\ Append(t, m) = t \o <<m>>
           /\ Said(<<m>>) = <<m>>
           /\ Said(Append(t, m)) = Said(t) \o <<m>>
           /\ Len(Said(Append(t, m))) = Len(Said(t)) + 1
<1>1. m \in Items /\ m \notin {"reasoning", "end", "answer'"}
  BY ItemsAssumption DEF Items
<1>2. <<m>> \in Texts /\ Len(<<m>>) = 1
  BY <1>1, ItemType
<1>3. Said(<<m>>) = <<m>>
  BY <1>1, SaidItem
<1>4. Append(t, m) = t \o <<m>>
  BY <1>1, AppendIsConcat DEF Texts
<1>5. Said(t) \in Texts
  BY SaidType
<1>6. Said(t \o <<m>>) = Said(t) \o <<m>>
  BY <1>2, <1>3, SaidConcat
<1>7. Append(t, m) \in Texts
  BY <1>2, <1>4, ConcatType
<1>8. Len(Said(t) \o <<m>>) = Len(Said(t)) + 1
  BY <1>2, <1>5, ConcatType
<1> QED BY <1>1, <1>2, <1>3, <1>4, <1>6, <1>7, <1>8

-----------------------------------------------------------------------------
(* Prefixes and suffixes.                                                  *)

\* A text that begins with another goes on after it.
LEMMA PrefixSplit ==
    ASSUME NEW t \in Texts, NEW u \in Texts, IsPrefix(t, u)
    PROVE  u = t \o Drop(u, Len(t)) /\ Drop(u, Len(t)) \in Texts
<1>1. Len(t) \in Nat /\ Len(u) \in Nat /\ Len(t) <= Len(u)
  BY LenType DEF IsPrefix
<1>2. SubSeq(u, 1, Len(t)) = t
  BY PrefixIs
<1>3. SubSeq(u, 1, Len(t)) \o SubSeq(u, Len(t) + 1, Len(u)) = SubSeq(u, 1, Len(u))
  <2>1. /\ u \in Seq(Items) /\ 1 \in 1..Len(u) + 1 /\ Len(t) \in (1 - 1)..Len(u)
        /\ Len(u) \in Len(t)..Len(u)
    BY <1>1 DEF Texts
  <2> QED BY <2>1, ConcatAdjacentSubSeq
<1>4. SubSeq(u, 1, Len(u)) = u
  BY SubSeqFull DEF Texts
<1> QED BY <1>1, <1>2, <1>3, <1>4, DropType DEF Drop

\* What continues a text begins as it does.
LEMMA HeadOfPrefix ==
    ASSUME NEW t \in Texts, NEW u \in Texts, t # <<>>, IsPrefix(t, u)
    PROVE  Head(u) = Head(t) /\ u # <<>>
<1>1. Len(t) \in Nat \ {0} /\ Len(u) \in Nat /\ Len(t) <= Len(u)
  BY LenType, EmptySeq DEF Texts, IsPrefix
<1>2. SubSeq(u, 1, Len(t)) = t
  BY PrefixIs
<1>3. Head(SubSeq(u, 1, Len(t))) = u[1]
  BY <1>1, HeadTailOfSubSeq DEF Texts
<1> QED BY <1>1, <1>2, <1>3, EmptyType

LEMMA HeadOfConcat ==
    ASSUME NEW t \in Texts, NEW u \in Texts, t # <<>>
    PROVE  Head(t \o u) = Head(t) /\ t \o u # <<>>
BY ConcatType, PrefixOfConcat, HeadOfPrefix

LEMMA ReverseType ==
    ASSUME NEW t \in Texts
    PROVE  /\ Reverse(t) \in Texts /\ Len(Reverse(t)) = Len(t)
           /\ \A i \in 1..Len(t) : Reverse(t)[i] = t[(Len(t) - i) + 1]
<1>1. Len(t) \in Nat
  BY LenType
<1>2. \A i \in 1..Len(t) : t[(Len(t) - i) + 1] \in Items
  <2> SUFFICES ASSUME NEW i \in 1..Len(t) PROVE t[(Len(t) - i) + 1] \in Items
    OBVIOUS
  <2>1. (Len(t) - i) + 1 \in 1..Len(t)
    BY <1>1
  <2> QED BY <2>1, ElementOfSeq DEF Texts
<1>3. Reverse(t) \in [1..Len(t) -> Items]
  BY <1>2 DEF Reverse
<1>4. Reverse(t) \in Seq(Items)
  BY <1>1, <1>3, SeqDef
<1> QED BY <1>1, <1>3, <1>4, LenProperties DEF Texts, Reverse

\* A text ends with its last part.
LEMMA SuffixOfConcat ==
    ASSUME NEW t \in Texts, NEW u \in Texts
    PROVE  IsSuffix(u, t \o u)
<1> DEFINE v == t \o u
           a == Reverse(u)
           b == Reverse(v)
<1>1. /\ v \in Texts /\ Len(v) = Len(t) + Len(u) /\ Len(t) \in Nat /\ Len(u) \in Nat
      /\ \A i \in 1..Len(t) + Len(u) : v[i] = IF i <= Len(t) THEN t[i] ELSE u[i - Len(t)]
  BY ConcatProperties, ConcatType, LenType DEF Texts
<1> HIDE DEF v
<1>2. /\ a \in Texts /\ Len(a) = Len(u)
      /\ \A i \in 1..Len(u) : a[i] = u[(Len(u) - i) + 1]
  BY ReverseType
<1>3. /\ b \in Texts /\ Len(b) = Len(v)
      /\ \A i \in 1..Len(v) : b[i] = v[(Len(v) - i) + 1]
  BY <1>1, ReverseType
<1> HIDE DEF a, b
<1>4. \A i \in 1..Len(u) : a[i] = b[i]
  <2> SUFFICES ASSUME NEW i \in 1..Len(u) PROVE a[i] = b[i]
    OBVIOUS
  <2> DEFINE k == (Len(v) - i) + 1
  <2>1. k \in 1..Len(t) + Len(u) /\ ~(k <= Len(t)) /\ k - Len(t) = (Len(u) - i) + 1 /\ i \in 1..Len(v)
    BY <1>1
  <2>2. b[i] = v[k]
    BY <1>3, <2>1
  <2> HIDE DEF k
  <2>3. v[k] = u[(Len(u) - i) + 1]
    BY <1>1, <2>1
  <2> QED BY <1>2, <2>2, <2>3
<1>5. SubSeq(b, 1, Len(a)) = a
  <2>1. \A i \in 1..Len(u) : b[i] \in Items
    BY <1>1, <1>3, ElementOfSeq DEF Texts
  <2>2. /\ SubSeq(b, 1, Len(u)) \in Seq(Items)
        /\ Len(SubSeq(b, 1, Len(u))) = Len(u)
        /\ \A i \in 1..Len(u) : SubSeq(b, 1, Len(u))[i] = b[i]
    BY <1>1, <2>1, SubSeqProperties
  <2> QED BY <1>2, <1>4, <2>2, SeqEqual DEF Texts
<1>6. SubSeq(a, 1, Len(a)) = a
  BY <1>2, SubSeqFull DEF Texts
<1> QED BY <1>1, <1>2, <1>3, <1>5, <1>6 DEF IsSuffix, IsPrefix, a, b, v

LEMMA SuffixOfItself ==
    ASSUME NEW t \in Texts
    PROVE  IsSuffix(t, t)
<1>1. <<>> \o t = t
  BY ConcatEmptySeq DEF Texts
<1> QED BY <1>1, EmptyType, SuffixOfConcat

-----------------------------------------------------------------------------
(* Outputs.                                                                *)

\* What follows the first item.
LEMMA TailOfItem ==
    ASSUME NEW i \in Items, NEW t \in Texts
    PROVE  Tail(<<i>> \o t) = t
<1> DEFINE u == <<i>> \o t
<1>1. <<i>> \in Texts /\ Len(<<i>>) = 1 /\ Len(t) \in Nat
  BY ItemType, LenType
<1>2. /\ u \in Texts /\ Len(u) = 1 + Len(t)
      /\ \A k \in 1..1 + Len(t) : u[k] = IF k <= 1 THEN <<i>>[k] ELSE t[k - 1]
  BY <1>1, ConcatProperties DEF Texts
<1> HIDE DEF u
<1>3. u # <<>>
  BY <1>1, <1>2, EmptyType
<1>4. /\ Tail(u) \in Texts /\ Len(Tail(u)) = Len(t)
      /\ \A k \in 1..Len(t) : Tail(u)[k] = u[k + 1]
  BY <1>1, <1>2, <1>3, HeadTailProperties DEF Texts
<1>5. ASSUME NEW k \in 1..Len(t)
      PROVE  Tail(u)[k] = t[k]
  <2>1. k + 1 \in 1..1 + Len(t) /\ ~(k + 1 <= 1) /\ (k + 1) - 1 = k
    BY <1>1
  <2> QED BY <1>2, <1>4, <2>1
<1>6. Tail(u) = t
  BY <1>4, <1>5, SeqEqual DEF Texts
<1> QED BY <1>6 DEF u

\* What an output is made of, and what of it is visible.
LEMMA OutputShape ==
    ASSUME NEW out \in Answered \cup Called \cup {<<"reasoning">>}
    PROVE  \/ out = <<"reasoning">> /\ Text(out) = <<"reasoning">> /\ Visible(out) = <<>>
              /\ CallOf(out) = None
           \/ \E i \in {"answer", "answer'"} \cup (Calls \ made) :
              \E j \in {"answer"} \cup (Calls \ made) :
                /\ i \in Items /\ j \in Items /\ Text(<<i>>) = <<j>>
                /\ CallOf(out) = (IF j \in Calls THEN j ELSE None)
                /\ Visible(out) = <<j>>
                /\ \/ out = <<i>> /\ Text(out) = <<j>>
                   \/ out = <<"reasoning">> \o <<i>> /\ Text(out) = <<"reasoning">> \o <<j>>
<1>1. "reasoning" \in Items /\ <<"reasoning">> \in Texts /\ Text(<<"reasoning">>) = <<"reasoning">>
  <2>1. "reasoning" \in Items
    BY DEF Items
  <2> QED BY <2>1, ItemType, TextOfItem
<1>2. CASE out = <<"reasoning">>
  <2>1. Visible(out) = <<>>
    <3>1. <<"reasoning">> \o <<>> = <<"reasoning">>
      BY <1>1, ConcatEmptySeq DEF Texts
    <3>2. Tail(<<"reasoning">>) = <<>>
      BY <1>1, <3>1, EmptyType, TailOfItem
    <3>3. Head(out) = "reasoning"
      BY <1>2
    <3> QED BY <1>1, <1>2, <3>2, <3>3 DEF Visible
  <2>2. Last(out) = "reasoning"
    BY <1>2 DEF Last
  <2>3. CallOf(out) = None
    BY <2>2, ItemsAssumption DEF CallOf
  <2> QED BY <1>1, <1>2, <2>1, <2>3
<1>3. CASE out \in EndsIn({"answer", "answer'"}) \cup EndsIn(Calls \ made)
  <2>1. PICK i \in {"answer", "answer'"} \cup (Calls \ made) : out = <<i>> \/ out = <<"reasoning", i>>
    BY <1>3 DEF EndsIn
  <2> DEFINE j == IF i = "answer'" THEN "answer" ELSE i
  <2>2. i \in Items /\ j \in Items /\ j \in {"answer"} \cup (Calls \ made) /\ i # "reasoning"
        /\ (j \in Calls => j = i) /\ (j \notin Calls => i \notin Calls)
    BY ItemsAssumption DEF Items
  <2>3. Text(<<i>>) = <<j>> /\ <<i>> \in Texts /\ <<j>> \in Texts
    BY <2>2, TextOfItem, ItemType
  <2> HIDE DEF j
  <2>4. CASE out = <<i>>
    <3>1. Last(out) = i /\ Head(out) = i
      BY <2>4 DEF Last
    <3>2. CallOf(out) = (IF j \in Calls THEN j ELSE None)
      BY <2>2, <3>1 DEF CallOf
    <3>3. Visible(out) = <<j>>
      BY <2>2, <2>3, <2>4, <3>1 DEF Visible
    <3> QED BY <2>1, <2>2, <2>3, <2>4, <3>2, <3>3
  <2>5. CASE out = <<"reasoning", i>>
    <3>1. out = <<"reasoning">> \o <<i>>
      BY <2>5
    <3>2. Text(out) = <<"reasoning">> \o <<j>>
      BY <1>1, <2>3, <3>1, TextConcat
    <3>3. Last(out) = i /\ Head(out) = "reasoning"
      BY <2>5 DEF Last
    <3>4. CallOf(out) = (IF j \in Calls THEN j ELSE None)
      BY <2>2, <3>3 DEF CallOf
    <3>5. Tail(<<"reasoning">> \o <<j>>) = <<j>>
      BY <1>1, <2>2, <2>3, TailOfItem
    <3>6. Visible(out) = <<j>>
      BY <3>2, <3>3, <3>5 DEF Visible
    <3> QED BY <2>1, <2>2, <2>3, <3>1, <3>2, <3>4, <3>6
  <2> QED BY <2>1, <2>4, <2>5
<1> QED BY <1>2, <1>3 DEF Answered, Called

\* Visible or not, an output says the same.
LEMMA OutputSaid ==
    ASSUME NEW out \in Answered \cup Called \cup {<<"reasoning">>}
    PROVE  Said(Visible(out)) = Said(out) /\ Said(Text(out)) = Said(out)
<1>1. out \in Texts
  BY OutputType
<1>2. Said(Text(out)) = Said(out)
  BY <1>1, SaidText
<1>3. CASE out = <<"reasoning">> /\ Visible(out) = <<>>
  BY <1>3, SaidMarks, <1>2
<1>4. ASSUME NEW i \in Items, NEW j \in Items, Text(<<i>>) = <<j>>, Visible(out) = <<j>>,
             \/ out = <<i>> /\ Text(out) = <<j>>
             \/ out = <<"reasoning">> \o <<i>> /\ Text(out) = <<"reasoning">> \o <<j>>
      PROVE  Said(Visible(out)) = Said(out)
  <2>1. <<i>> \in Texts /\ <<j>> \in Texts /\ <<"reasoning">> \in Texts
    BY ItemType DEF Items
  <2>2. Said(<<j>>) = Said(<<i>>) /\ Said(<<i>>) \in Texts
    BY <1>4, <2>1, SaidText, SaidType
  <2>3. CASE out = <<"reasoning">> \o <<i>>
    <3>1. Said(out) = Said(<<"reasoning">>) \o Said(<<i>>)
      BY <2>1, <2>3, SaidConcat
    <3>2. <<>> \o Said(<<i>>) = Said(<<i>>)
      BY <2>2, ConcatEmptySeq DEF Texts
    <3> QED BY <1>4, <2>2, <3>1, <3>2, SaidMarks
  <2> QED BY <1>4, <2>2, <2>3
<1> QED BY <1>2, <1>3, <1>4, OutputShape

\* The call that is open after an output is the one it made.
LEMMA OutputOpens ==
    ASSUME NEW out \in Answered \cup Called \cup {<<"reasoning">>}, NEW t \in Texts,
           NEW m \in Messages \cup Results, NEW x \in {Visible(out), Text(out)}
    PROVE  /\ OpenCall((Append(t, m) \o x) \o <<"end">>) = CallOf(out)
           /\ CallOf(out) \in {None} \cup (Calls \ made)
<1> DEFINE u == Append(t, m)
<1>1. u \in Texts /\ Len(u) = Len(t) + 1 /\ Len(t) \in Nat /\ u[Len(t) + 1] = m
  <2>1. m \in Items /\ t \in Seq(Items)
    BY SaidMessage DEF Texts
  <2> QED BY <2>1, AppendProperties, LenType DEF Texts
<1>2. "end" \in Items /\ <<"end">> \in Texts /\ Len(<<"end">>) = 1
  BY ItemType DEF Items
<1> HIDE DEF u
<1>3. ASSUME NEW v \in Texts, Len(v) >= 1
      PROVE  OpenCall(v \o <<"end">>) = IF v[Len(v)] \in Calls THEN v[Len(v)] ELSE None
  <2>1. /\ Len(v \o <<"end">>) = Len(v) + 1 /\ Len(v) \in Nat
        /\ (v \o <<"end">>)[Len(v)] = v[Len(v)]
    <3>1. Len(v) \in 1..Len(v) + Len(<<"end">>) /\ Len(v) <= Len(v)
      BY <1>2, <1>3, LenType
    <3> QED BY <1>2, <3>1, ConcatProperties, LenType DEF Texts
  <2> DEFINE w == v \o <<"end">>
  <2>2. w[Len(w) - 1] = v[Len(v)] /\ Len(w) > 1
    BY <1>3, <2>1
  <2> HIDE DEF w
  <2>3. OpenCall(w) = IF v[Len(v)] \in Calls THEN v[Len(v)] ELSE None
    BY <2>2 DEF OpenCall
  <2> QED BY <2>3 DEF w
<1>4. CASE x = <<>> /\ CallOf(out) = None
  <2>1. u \o x = u
    BY <1>1, <1>4, ConcatEmptySeq DEF Texts
  <2>2. m \notin Calls
    BY ItemsAssumption
  <2>3. u[Len(u)] = m /\ Len(u) >= 1
    BY <1>1
  <2>4. OpenCall(u \o <<"end">>) = None
    BY <1>1, <1>3, <2>2, <2>3
  <2> QED BY <1>4, <2>1, <2>4 DEF u
<1>5. ASSUME NEW j \in Items, NEW y \in Texts, x = y \o <<j>>
      PROVE  OpenCall((u \o x) \o <<"end">>) = IF j \in Calls THEN j ELSE None
  <2>1. <<j>> \in Texts /\ Len(<<j>>) = 1 /\ <<j>>[1] = j
    BY ItemType
  <2>2. x \in Texts /\ Len(x) = Len(y) + 1 /\ Len(y) \in Nat /\ x[Len(x)] = j
    <3>1. Len(y) + 1 \in 1..Len(y) + Len(<<j>>) /\ ~(Len(y) + 1 <= Len(y)) /\ (Len(y) + 1) - Len(y) = 1
      BY <2>1, LenType
    <3> QED BY <1>5, <2>1, <3>1, ConcatProperties, LenType DEF Texts
  <2>3. /\ u \o x \in Texts /\ Len(u \o x) = Len(u) + Len(x)
        /\ (u \o x)[Len(u) + Len(x)] = j
    <3>1. /\ Len(u) + Len(x) \in 1..Len(u) + Len(x) /\ ~(Len(u) + Len(x) <= Len(u))
          /\ (Len(u) + Len(x)) - Len(u) = Len(x)
      BY <1>1, <2>2
    <3>2. /\ u \o x \in Texts /\ Len(u \o x) = Len(u) + Len(x)
          /\ \A i \in 1..Len(u) + Len(x) :
                 (u \o x)[i] = IF i <= Len(u) THEN u[i] ELSE x[i - Len(u)]
      BY <1>1, <2>2, ConcatProperties DEF Texts
    <3> QED BY <2>2, <3>1, <3>2
  <2>4. Len(u \o x) >= 1 /\ (u \o x)[Len(u \o x)] = j
    BY <1>1, <2>2, <2>3
  <2> QED BY <1>3, <2>3, <2>4
<1>6. CASE x = <<"reasoning">> /\ CallOf(out) = None
  <2>1. "reasoning" \in Items /\ "reasoning" \notin Calls
    BY ItemsAssumption DEF Items
  <2>2. x = <<>> \o <<"reasoning">>
    BY <1>6
  <2>3. OpenCall((u \o x) \o <<"end">>) = None
    BY <1>5, <2>1, <2>2, EmptyType
  <2> QED BY <1>6, <2>3 DEF u
<1>7. ASSUME NEW j \in {"answer"} \cup (Calls \ made), j \in Items,
             x \in {<<j>>, <<"reasoning">> \o <<j>>},
             CallOf(out) = (IF j \in Calls THEN j ELSE None)
      PROVE  OpenCall((u \o x) \o <<"end">>) = CallOf(out)
  <2>1. <<"reasoning">> \in Texts /\ <<j>> \in Texts
    BY <1>7, ItemType DEF Items
  <2>2. <<>> \o <<j>> = <<j>>
    BY <2>1, ConcatEmptySeq DEF Texts
  <2>3. PICK y \in Texts : x = y \o <<j>>
    BY <1>7, <2>1, <2>2, EmptyType
  <2>4. OpenCall((u \o x) \o <<"end">>) = IF j \in Calls THEN j ELSE None
    BY <1>5, <1>7, <2>3
  <2> QED BY <1>7, <2>4
<1>8. CallOf(out) \in {None} \cup (Calls \ made)
  <2>1. ASSUME NEW j \in {"answer"} \cup (Calls \ made), CallOf(out) = (IF j \in Calls THEN j ELSE None)
        PROVE  CallOf(out) \in {None} \cup (Calls \ made)
    BY <2>1, ItemsAssumption
  <2>2. \/ CallOf(out) = None
        \/ \E j \in {"answer"} \cup (Calls \ made) : CallOf(out) = (IF j \in Calls THEN j ELSE None)
    BY OutputShape
  <2> QED BY <2>1, <2>2
<1> QED BY <1>4, <1>6, <1>7, <1>8, OutputShape DEF u

-----------------------------------------------------------------------------
(* The conversation.                                                       *)

\* Text text stands for the tokens of: it is what was said last in them, and
\* all of it unless it begins with what a tool has said.
Stands(text, of) ==
    /\ text # <<>> /\ IsSuffix(Said(text), Said(of))
    /\ Head(text) \notin Results => Said(text) = Said(of)

\* Request r is one of client c at this point of its conversation.
Asks(c, r) ==
    \E m \in IF OpenCall(chat[c]) = None THEN Messages ELSE Results :
        /\ r = Request(c, m, r.needs)
        /\ r.needs => Api(c) # "openai" /\ OpenCall(chat[c]) # None

\* An id leads from a conversation to its own session only.
IdIsHonest(b) ==
    b.id # None => \A c \in Clients : b.id = OpenCall(chat[c]) => Said(b.of) = Said(chat[c])

\* A binding is older than the end of its client's conversation, or is to it.
OldOrLast(b) ==
    \/ Len(Said(b.of)) < Len(Said(chat[b.by]))
    \/ /\ Said(b.of) = Said(chat[b.by])
       /\ Api(b.by) # "openai" => b.id = OpenCall(chat[b.by])
       /\ b.id = None /\ ~b.needs /\ ~kind[b.by].resends => IsPrefix(b.text, chat[b.by])

Remembers(b) ==
    b # None => /\ b.at = Len(b.of) /\ b.id \in made \cup {None}
                /\ b.of # <<>> => IdIsHonest(b) /\ OldOrLast(b)

Remembered(s) ==
    /\ \A b \in Three(s) : Remembers(b)
    /\ responses[s] # None => Api(responses[s].by) = "responses"
    /\ anthropic[s] # None => Api(anthropic[s].by) = "anthropic" /\ anthropic[s].id # None
    /\ thinking[s] # None => Api(thinking[s].by) # "responses" /\ thinking[s].id = None
    /\ \A b \in {responses[s], thinking[s]} : b # None /\ b.of # <<>> => Stands(b.text, b.of)

Working(s) ==
    turn[s] # None =>
        /\ Said(turn[s].effective) = Said(asked[turn[s].by].means)
        /\ Decoding(s) => live[s] = turn[s].effective

TalksSense(c) ==
    /\ OpenCall(chat[c]) \in made \cup {None}
    /\ chat[c] # <<>> => Head(chat[c]) \in Messages
    /\ asked[c] # None => Asks(c, asked[c])

Talking == \A c \in Clients : TalksSense(c)

DiskStands == \A e \in disk : Stands(e.key, e.of)

Conversing ==
    /\ Talking /\ DiskStands
    /\ \A s \in Slots : Remembered(s) /\ Working(s)

\* What a request is.
LEMMA AskedFacts ==
    ASSUME SlotsTyped, Talking, NEW c \in Clients, asked[c] # None
    PROVE  \E m \in Messages \cup Results :
             LET r == asked[c] IN
             /\ r.means = Append(chat[c], m) /\ r.means \in Texts /\ r.prompt \in Texts
             /\ chat[c] \in Texts
             /\ r.means # <<>> /\ Head(r.means) \in Messages
             /\ r.needs => r.prompt = <<m>> /\ m \in Results /\ r.id # None
             /\ ~r.needs => r.prompt = r.means
             /\ r.id # None => r.id = OpenCall(chat[c])
             /\ Api(c) # "openai" => r.id = OpenCall(chat[c])
             /\ r.id # None => Api(c) # "openai"
<1> DEFINE r == asked[c]
<1>1. r \in Requests /\ chat[c] \in Texts
  BY DEF SlotsTyped, TypeOK
<1>2. PICK m \in IF OpenCall(chat[c]) = None THEN Messages ELSE Results :
          /\ r = Request(c, m, r.needs)
          /\ r.needs => Api(c) # "openai" /\ OpenCall(chat[c]) # None
  BY DEF Talking, TalksSense, Asks
<1>3. /\ m \in Messages \cup Results /\ (OpenCall(chat[c]) = None => m \in Messages)
      /\ (OpenCall(chat[c]) # None => m \in Results)
  BY <1>2
<1>4. /\ r.means = Append(chat[c], m) /\ r.prompt = (IF r.needs THEN <<m>> ELSE r.means)
      /\ r.id = (IF Api(c) = "openai" THEN None ELSE OpenCall(chat[c]))
  <2> HIDE DEF r
  <2>1. /\ Request(c, m, r.needs).means = Append(chat[c], m)
        /\ Request(c, m, r.needs).prompt = (IF r.needs THEN <<m>> ELSE Append(chat[c], m))
        /\ Request(c, m, r.needs).id = (IF Api(c) = "openai" THEN None ELSE OpenCall(chat[c]))
    BY DEF Request
  <2> QED BY <1>2, <2>1
<1>5. r.means \in Texts /\ r.prompt \in Texts /\ r.needs \in BOOLEAN
  BY <1>1 DEF Requests
<1>6. r.means # <<>> /\ Head(r.means) \in Messages
  <2>1. Append(chat[c], m) = chat[c] \o <<m>> /\ <<m>> \in Texts /\ m \in Items
    BY <1>1, <1>3, SaidMessage
  <2>2. CASE chat[c] = <<>>
    <3>1. OpenCall(chat[c]) = None
      BY <2>2, EmptyType DEF OpenCall
    <3>2. Append(<<>>, m) = <<m>> /\ Head(<<m>>) = m
      OBVIOUS
    <3>3. <<m>> # <<>>
      BY <2>1, ItemType, EmptyType
    <3> QED BY <1>3, <1>4, <2>2, <3>1, <3>2, <3>3
  <2>3. CASE chat[c] # <<>>
    <3>1. Head(chat[c]) \in Messages
      BY <2>3 DEF Talking, TalksSense
    <3> QED BY <1>1, <1>4, <2>1, <2>3, <3>1, HeadOfConcat
  <2> QED BY <2>2, <2>3
<1> HIDE DEF r
<1>7. r.needs => r.prompt = <<m>> /\ m \in Results /\ r.id # None
  BY <1>2, <1>3, <1>4
<1> QED BY <1>1, <1>3, <1>4, <1>5, <1>6, <1>7 DEF r

\* What continues a text that stands for tokens may be appended to these.
LEMMA StandsIn ==
    ASSUME NEW text \in Texts, NEW of \in Texts, NEW p \in Texts, Stands(text, of),
           Head(p) \in Messages, IsPrefix(text, p)
    PROVE  Said(of \o Drop(p, Len(text))) = Said(p)
<1>1. Head(text) \in Messages
  BY HeadOfPrefix DEF Stands
<1>2. Said(text) = Said(of)
  BY <1>1, ItemsAssumption DEF Stands
<1>3. p = text \o Drop(p, Len(text)) /\ Drop(p, Len(text)) \in Texts
  BY PrefixSplit
<1>4. Said(of \o Drop(p, Len(text))) = Said(of) \o Said(Drop(p, Len(text)))
  BY <1>3, SaidConcat
<1>5. Said(text \o Drop(p, Len(text))) = Said(text) \o Said(Drop(p, Len(text)))
  BY <1>3, SaidConcat
<1> QED BY <1>2, <1>3, <1>4, <1>5

\* No text but an empty one begins a single item, other than itself.
LEMMA NotBeforeItem ==
    ASSUME NEW t \in Texts, NEW i \in Items, t # <<>>, IsStrictPrefix(t, <<i>>)
    PROVE  FALSE
<1>1. Len(t) \in Nat \ {0} /\ Len(<<i>>) = 1 /\ <<i>> \in Texts
  BY EmptySeq, LenType, ItemType DEF Texts
<1> DEFINE u == <<i>>
<1> HIDE DEF u
<1>2. u \in Texts /\ Len(u) = 1 /\ IsPrefix(t, u) /\ t # u
  BY <1>1 DEF IsStrictPrefix, u
<1>3. Len(t) = 1
  <2>1. Len(t) <= Len(u)
    BY <1>2 DEF IsPrefix
  <2>2. \A n \in Nat \ {0} : n <= 1 => n = 1
    OBVIOUS
  <2>3. Len(t) <= 1
    BY <1>2, <2>1
  <2> QED BY <1>1, <2>2, <2>3
<1>4. SubSeq(u, 1, 1) = t
  BY <1>2, <1>3, PrefixIs
<1>5. SubSeq(u, 1, 1) = u
  BY <1>2, SubSeqFull DEF Texts
<1> QED BY <1>2, <1>4, <1>5

\* What a request is given, where it continues from a session, is its
\* conversation.
LEMMA EffectiveSaid ==
    ASSUME SlotsTyped, Sound, Conversing, NEW s \in Slots, NEW c \in Clients, Takes(s, c),
           ~Unavailable(s, c), Reuse(s, c) # "none"
    PROVE  Said(Effective(s, c)) = Said(asked[c].means)
<1> DEFINE r == asked[c]
<1>1. PICK m \in Messages \cup Results :
             /\ r.means = Append(chat[c], m) /\ r.means \in Texts /\ r.prompt \in Texts
             /\ chat[c] \in Texts
             /\ r.means # <<>> /\ Head(r.means) \in Messages
             /\ r.needs => r.prompt = <<m>> /\ m \in Results /\ r.id # None
             /\ ~r.needs => r.prompt = r.means
             /\ r.id # None => r.id = OpenCall(chat[c])
  BY AskedFacts DEF Takes, Conversing
<1>2. /\ live[s] \in Texts /\ live[s] # <<>> /\ turn[s] = None /\ Remembered(s) /\ Honest(s)
      /\ r.needs => Reuse(s, c) \in ToolTiers
      /\ r.needs \in BOOLEAN
  BY DEF Takes, Unavailable, Reuse, SlotsTyped, TypeOK, Histories, Conversing, Sound, SlotSound, Requests
<1>3. ASSUME NEW b \in {responses[s], thinking[s]}, Continues(b, s, r)
      PROVE  Said(live[s] \o Drop(r.prompt, Len(b.text))) = Said(r.means)
  <2>1. b \in Bindings /\ b.text \in Texts /\ AtFrontier(b, s) /\ b # None
        /\ IsStrictPrefix(b.text, r.prompt) /\ IsPrefix(b.text, r.prompt)
    BY <1>3 DEF Continues, AtFrontier, SlotsTyped, TypeOK, Bindings, IsStrictPrefix
  <2>2. b.of = live[s]
    BY <1>2, <2>1 DEF Honest, Three
  <2>3. Stands(b.text, live[s])
    BY <1>2, <2>1, <2>2 DEF Remembered
  <2>4. ~r.needs
    <3> SUFFICES ASSUME r.needs PROVE FALSE
      OBVIOUS
    <3>1. m \in Items
      BY <1>1, SaidMessage
    <3>2. b.text # <<>>
      BY <2>3 DEF Stands
    <3> QED BY <1>1, <2>1, <3>1, <3>2, NotBeforeItem
  <2>5. Said(live[s] \o Drop(r.prompt, Len(b.text))) = Said(r.prompt)
    BY <1>1, <1>2, <2>1, <2>3, <2>4, StandsIn
  <2> QED BY <1>1, <2>4, <2>5
<1>4. ASSUME NEW b \in {responses[s], anthropic[s]}, Answers(b, s, r)
      PROVE  Said(live[s] \o <<"end", Last(r.prompt)>>) = Said(r.means)
  <2>1. AtFrontier(b, s) /\ b # None /\ b.id # None /\ b.id = OpenCall(chat[c])
    BY <1>1, <1>4 DEF Answers, AtFrontier
  <2>2. b.of = live[s]
    BY <1>2, <2>1 DEF Honest, Three
  <2>3. Said(live[s]) = Said(chat[c])
    BY <1>2, <2>1, <2>2 DEF Remembered, Remembers, IdIsHonest, Three
  <2>4. Last(r.prompt) = m
    <3>1. CASE r.needs
      <4>1. r.prompt = <<m>>
        BY <1>1, <3>1
      <4> HIDE DEF r
      <4> QED BY <4>1 DEF Last
    <3>2. CASE ~r.needs
      <4>1. r.prompt = Append(chat[c], m) /\ m \in Items
        BY <1>1, <3>2, SaidMessage
      <4>2. Len(r.prompt) = Len(chat[c]) + 1 /\ r.prompt[Len(chat[c]) + 1] = m
        BY <1>1, <4>1, AppendProperties DEF Texts
      <4> QED BY <4>2 DEF Last
    <3> QED BY <1>2, <3>1, <3>2
  <2>5. /\ <<"end">> \in Texts /\ <<m>> \in Texts /\ Said(<<m>>) = <<m>>
        /\ Said(r.means) = Said(chat[c]) \o <<m>>
    BY <1>1, SaidMessage, ItemType DEF Items
  <2>6. <<"end", m>> = <<"end">> \o <<m>>
    OBVIOUS
  <2>7. Said(<<"end", m>>) = <<m>>
    <3>1. Said(<<"end">> \o <<m>>) = Said(<<"end">>) \o Said(<<m>>)
      BY <2>5, SaidConcat
    <3>2. <<>> \o <<m>> = <<m>>
      BY <2>5, ConcatEmptySeq DEF Texts
    <3> QED BY <2>5, <2>6, <3>1, <3>2, SaidMarks
  <2>8. <<"end", m>> \in Texts
    BY <2>5, <2>6, ConcatType
  <2>9. Said(live[s] \o <<"end", m>>) = Said(live[s]) \o Said(<<"end", m>>)
    BY <1>2, <2>8, SaidConcat
  <2> QED BY <2>3, <2>4, <2>5, <2>7, <2>9
<1>5. CASE Reuse(s, c) = "responses-visible"
  <2>1. Continues(responses[s], s, r)
    BY <1>5 DEF Reuse
  <2> QED BY <1>3, <1>5, <2>1 DEF Effective
<1>6. CASE Reuse(s, c) = "thinking-visible"
  <2>1. Continues(thinking[s], s, r)
    BY <1>6 DEF Reuse
  <2> QED BY <1>3, <1>6, <2>1 DEF Effective
<1>7. CASE Reuse(s, c) \in {"responses-tool-output", "anthropic-tool-output"}
  <2>1. Answers(responses[s], s, r) \/ Answers(anthropic[s], s, r)
    BY <1>7 DEF Reuse
  <2> QED BY <1>4, <1>7, <2>1 DEF Effective
<1>8. CASE Reuse(s, c) = "memory-text"
  <2>1. IsPrefix(Text(live[s]), r.prompt)
    BY <1>8 DEF Reuse
  <2>2. r.prompt = r.means
    BY <1>1, <1>2, <1>8 DEF ToolTiers
  <2>3. Text(live[s]) \in Texts /\ Len(Text(live[s])) = Len(live[s])
    BY <1>2, TextType
  <2> DEFINE d == Drop(r.prompt, Len(live[s]))
  <2>4. d \in Texts /\ r.prompt = Text(live[s]) \o d
    BY <1>1, <2>1, <2>3, PrefixSplit
  <2>5. Effective(s, c) = live[s] \o d
    BY <1>8 DEF Effective
  <2> HIDE DEF d, r
  <2>6. Said(live[s] \o d) = Said(live[s]) \o Said(d)
    BY <1>2, <2>4, SaidConcat
  <2>7. Said(Text(live[s]) \o d) = Said(live[s]) \o Said(d)
    <3>1. Said(Text(live[s])) = Said(live[s])
      BY <1>2, SaidText
    <3>2. Said(Text(live[s]) \o d) = Said(Text(live[s])) \o Said(d)
      BY <2>3, <2>4, SaidConcat
    <3> QED BY <3>1, <3>2
  <2>8. Said(Effective(s, c)) = Said(r.means)
    BY <2>2, <2>4, <2>5, <2>6, <2>7
  <2> QED BY <2>8 DEF r
<1>9. CASE Reuse(s, c) = "memory-token"
  <2>1. r.prompt = r.means
    BY <1>1, <1>2, <1>9 DEF ToolTiers
  <2>2. Effective(s, c) = r.prompt
    BY <1>9 DEF Effective
  <2> QED BY <2>1, <2>2
<1>10. Reuse(s, c) \in {"responses-visible", "thinking-visible", "responses-tool-output",
                        "anthropic-tool-output", "memory-text", "memory-token"}
  BY DEF Reuse
<1> QED BY <1>5, <1>6, <1>7, <1>8, <1>9, <1>10

-----------------------------------------------------------------------------
(* The steps that leave the conversations alone.                           *)

\* Bindings that are kept or forgotten are as they were.
LEMMA RememberedStays ==
    ASSUME NEW s \in Slots, Remembered(s), kind' = kind, chat' = chat, made' = made,
           responses'[s] \in {responses[s], None}, anthropic'[s] \in {anthropic[s], None},
           thinking'[s] \in {thinking[s], None}
    PROVE  Remembered(s)'
<1>1. ASSUME NEW b, Remembers(b) PROVE Remembers(b)'
  BY <1>1 DEF Remembers, IdIsHonest, OldOrLast, Api
<1>2. Remembers(None)'
  BY DEF Remembers
<1>3. \A b \in Three(s)' : Remembers(b)'
  BY <1>1, <1>2 DEF Remembered, Three
<1>4. (/\ responses[s] # None => Api(responses[s].by) = "responses"
       /\ anthropic[s] # None => Api(anthropic[s].by) = "anthropic" /\ anthropic[s].id # None
       /\ thinking[s] # None => Api(thinking[s].by) # "responses" /\ thinking[s].id = None)'
  BY DEF Remembered, Api
<1>5. (\A b \in {responses[s], thinking[s]} : b # None /\ b.of # <<>> => Stands(b.text, b.of))'
  BY DEF Remembered
<1> QED BY <1>3, <1>4, <1>5 DEF Remembered

\* A slot whose request and session stay is at work as it was.
LEMMA WorkingStays ==
    ASSUME NEW s \in Slots, Working(s), turn'[s] = turn[s], live'[s] = live[s],
           turn[s] # None => asked'[turn[s].by] = asked[turn[s].by]
    PROVE  Working(s)'
BY DEF Working, Decoding

\* What a client asks depends on its own conversation.
LEMMA TalksSenseStill ==
    ASSUME NEW c \in Clients, TalksSense(c), chat'[c] = chat[c], kind' = kind, made \subseteq made',
           asked'[c] \in {asked[c], None}
    PROVE  TalksSense(c)'
BY DEF TalksSense, Asks, Request, Api

\* A checkpoint that stands for its tokens is put beside others that do.
LEMMA PutStands ==
    ASSUME NEW d, NEW e, \A y \in d : Stands(y.key, y.of), Stands(e.key, e.of), NEW x \in Put(d, e)
    PROVE  \A y \in x : Stands(y.key, y.of)
BY DEF Put

\* Tokens stand for themselves.
LEMMA TokensStand ==
    ASSUME NEW t \in Texts, t # <<>>
    PROVE  Stands(ByTokens(t).key, ByTokens(t).of)
<1>1. Text(t) \in Texts /\ Len(Text(t)) = Len(t) /\ Len(t) # 0
  BY TextType, EmptySeq DEF Texts
<1>2. Text(t) # <<>>
  BY <1>1, EmptyType
<1>3. Said(Text(t)) = Said(t) /\ Said(t) \in Texts
  BY SaidText, SaidType
<1>4. IsSuffix(Said(Text(t)), Said(t))
  BY <1>3, SuffixOfItself
<1> QED BY <1>2, <1>3, <1>4 DEF Stands, ByTokens

\* What is persisted of a slot at rest stands for its tokens.
LEMMA PersistedStands ==
    ASSUME SlotsTyped, Sound, Conversing, NEW s \in Slots, turn[s] = None, NEW x \in Persisted(s)
    PROVE  \A y \in x : Stands(y.key, y.of)
<1>1. CASE Len(live[s]) < MinTokens
  BY <1>1 DEF Persisted, Conversing, DiskStands
<1>2. CASE ~(Len(live[s]) < MinTokens)
  <2>1. live[s] \in Texts /\ live[s] # <<>> /\ Honest(s) /\ Remembered(s)
    BY <1>2, EmptyType, BindingsAssumption
       DEF SlotsTyped, TypeOK, Histories, Sound, SlotSound, Conversing
  <2>2. ASSUME NEW b \in {responses[s], thinking[s]}, AtFrontier(b, s)
        PROVE  Stands(b.text, live[s])
    <3>1. b # None /\ b.of = live[s]
      BY <2>1, <2>2 DEF Honest, Three, AtFrontier
    <3> QED BY <2>1, <3>1 DEF Remembered
  <2>3. Stands(CheckpointOf(s).key, CheckpointOf(s).of)
    <3>1. CASE AtFrontier(responses[s], s)
      BY <2>2, <3>1 DEF CheckpointOf
    <3>2. CASE ~AtFrontier(responses[s], s) /\ AtFrontier(thinking[s], s) /\ ~thinking[s].byTokens
      BY <2>2, <3>2 DEF CheckpointOf
    <3>3. CASE ~AtFrontier(responses[s], s) /\ ~(AtFrontier(thinking[s], s) /\ ~thinking[s].byTokens)
      <4>1. CheckpointOf(s) = ByTokens(live[s])
        BY <3>3 DEF CheckpointOf
      <4> QED BY <2>1, <4>1, TokensStand
    <3> QED BY <3>1, <3>2, <3>3
  <2>4. x \in Put(disk, CheckpointOf(s))
    BY <1>2 DEF Persisted
  <2> QED BY <2>3, <2>4, PutStands DEF Conversing, DiskStands
<1> QED BY <1>1, <1>2

LEMMA ConversingAsk ==
    ASSUME SlotsTyped, Conversing, NEW c \in Clients, NEW m \in Messages \cup Results,
           NEW alone \in BOOLEAN, Ask(c, m, alone)
    PROVE  Conversing'
<1>1. /\ asked[c] = None /\ m \in (IF OpenCall(chat[c]) = None THEN Messages ELSE Results)
      /\ alone => Api(c) # "openai" /\ OpenCall(chat[c]) # None
      /\ asked' = [asked EXCEPT ![c] = Request(c, m, alone)]
      /\ kind' = kind /\ chat' = chat /\ made' = made /\ live' = live /\ turn' = turn /\ disk' = disk
      /\ responses' = responses /\ anthropic' = anthropic /\ thinking' = thinking
  BY DEF Ask, bindings
<1>2. asked'[c] = Request(c, m, alone) /\ \A d \in Clients \ {c} : asked'[d] = asked[d]
  BY <1>1 DEF SlotsTyped, TypeOK
<1>3. Asks(c, asked'[c])
  <2>1. Request(c, m, alone).needs = alone
    BY DEF Request
  <2> HIDE DEF Request
  <2> QED BY <1>1, <1>2, <2>1 DEF Asks
<1>4. Talking'
  <2>1. TalksSense(c)'
    <3>1. Asks(c, asked[c])'
      BY <1>1, <1>3 DEF Asks, Request, Api
    <3>2. TalksSense(c)
      BY DEF Conversing, Talking
    <3> QED BY <1>1, <3>1, <3>2 DEF TalksSense
  <2>2. \A d \in Clients \ {c} : TalksSense(d)'
    BY <1>1, <1>2, TalksSenseStill DEF Conversing, Talking
  <2> QED BY <2>1, <2>2 DEF Talking
<1>5. ASSUME NEW s \in Slots PROVE Remembered(s)' /\ Working(s)'
  <2>1. turn[s] # None => turn[s].by # c /\ turn[s].by \in Clients
    BY <1>1 DEF SlotsTyped, Owned, TypeOK, Turns
  <2>2. Remembered(s)'
    BY <1>1, RememberedStays DEF Conversing
  <2>3. Working(s)'
    BY <1>1, <1>2, <2>1, WorkingStays DEF Conversing
  <2> QED BY <2>2, <2>3
<1> QED BY <1>1, <1>4, <1>5 DEF Conversing, DiskStands, Stands

\* Steps that do not touch what a client asks but to end it.
LEMMA TalkingEnds ==
    ASSUME Talking, kind' = kind, chat' = chat, made' = made,
           \A c \in Clients : asked'[c] \in {asked[c], None}
    PROVE  Talking'
BY TalksSenseStill DEF Talking

LEMMA ConversingRefuse ==
    ASSUME SlotsTyped, Conversing, NEW s \in Slots, NEW c \in Clients, Refuse(s, c)
    PROVE  Conversing'
<1>1. /\ \A z \in Slots : turn[z] # None => turn[z].by # c
      /\ asked' = [asked EXCEPT ![c] = None]
      /\ kind' = kind /\ chat' = chat /\ made' = made /\ live' = live /\ turn' = turn /\ disk' = disk
      /\ responses' = responses /\ anthropic' = anthropic /\ thinking' = thinking
  BY DEF Refuse, bindings, Takes
<1>2. asked'[c] = None /\ \A d \in Clients \ {c} : asked'[d] = asked[d]
  BY <1>1 DEF SlotsTyped, TypeOK
<1>3. Talking'
  BY <1>1, <1>2, TalkingEnds DEF Conversing
<1>4. ASSUME NEW z \in Slots PROVE Remembered(z)' /\ Working(z)'
  <2>1. turn[z] # None => turn[z].by # c /\ turn[z].by \in Clients
    BY <1>1 DEF SlotsTyped, TypeOK, Turns
  <2>2. Remembered(z)'
    BY <1>1, RememberedStays DEF Conversing
  <2>3. Working(z)'
    BY <1>1, <1>2, <2>1, WorkingStays DEF Conversing
  <2> QED BY <2>2, <2>3
<1> QED BY <1>1, <1>3, <1>4 DEF Conversing, DiskStands, Stands

\* A slot that takes a request is given the conversation of its client.
LEMMA ConversingStart ==
    ASSUME SlotsTyped, Sound, Conversing, NEW s \in Slots, NEW c \in Clients,
           StartLive(s, c) \/ StartCold(s, c)
    PROVE  Conversing'
<1>1. /\ Takes(s, c) /\ ~Unavailable(s, c) /\ turn[s] = None
      /\ kind' = kind /\ chat' = chat /\ made' = made /\ asked' = asked
      /\ responses' = responses /\ anthropic' = anthropic /\ thinking' = thinking
  BY DEF StartLive, StartCold, bindings, Takes
<1>2. ASSUME NEW via, NEW e, NEW x, turn' = [turn EXCEPT ![s] = Work(c, via, e, x)],
             Said(e) = Said(asked[c].means), \A z \in Slots \ {s} : live'[z] = live[z],
             \A y \in disk' : Stands(y.key, y.of)
      PROVE  Conversing'
  <2>1. /\ turn'[s] = Work(c, via, e, x) /\ \A z \in Slots \ {s} : turn'[z] = turn[z]
    BY <1>2 DEF SlotsTyped, TypeOK
  <2>2. /\ turn'[s].by = c /\ turn'[s].effective = e /\ turn'[s].stage = "prefill"
    BY <2>1 DEF Work
  <2>3. Working(s)'
    BY <1>1, <1>2, <2>2 DEF Working, Decoding
  <2>4. \A z \in Slots \ {s} : Working(z)'
    BY <1>1, <1>2, <2>1, WorkingStays DEF Conversing
  <2>5. \A z \in Slots : Remembered(z)'
    BY <1>1, RememberedStays DEF Conversing
  <2>6. Talking'
    BY <1>1, TalkingEnds DEF Conversing
  <2> QED BY <1>2, <2>3, <2>4, <2>5, <2>6 DEF Conversing, DiskStands, Stands
<1>3. CASE StartLive(s, c)
  <2>1. Said(Effective(s, c)) = Said(asked[c].means)
    BY <1>1, <1>3, EffectiveSaid DEF StartLive
  <2>2. live' = live /\ disk' = disk
    BY <1>3 DEF StartLive
  <2> QED BY <1>2, <1>3, <2>1, <2>2 DEF StartLive, Conversing, DiskStands
<1>4. CASE StartCold(s, c)
  <2> DEFINE p == asked[c].prompt
  <2>1. ~asked[c].needs
    BY <1>4, ItemsAssumption DEF StartCold, Unavailable, ToolTiers
  <2>2. p \in Texts /\ p = asked[c].means /\ Head(p) \in Messages
    BY <1>1, <2>1, AskedFacts DEF Takes, Conversing
  <2>3. \A y \in disk' : Stands(y.key, y.of)
    BY <1>1, <1>4, PersistedStands DEF StartCold
  <2>4. disk' \subseteq Checkpoints
    BY <1>4, PersistedType DEF StartCold, SlotsTyped
  <2>5. CASE /\ turn' = [turn EXCEPT ![s] = Work(c, "none", p, None)]
             /\ live' \in {live, [live EXCEPT ![s] = <<>>]}
    <3>1. \A z \in Slots \ {s} : live'[z] = live[z]
      BY <2>5 DEF SlotsTyped, TypeOK
    <3> QED BY <1>2, <2>2, <2>3, <2>5, <3>1
  <2>6. ASSUME NEW y \in Longest(disk', p), live' = [live EXCEPT ![s] = y.of],
               turn' = [turn EXCEPT ![s] = Work(c, "disk-text", y.of \o Drop(p, Len(y.key)), y)]
        PROVE  Conversing'
    <3>1. y \in Checkpoints /\ IsPrefix(y.key, p) /\ Stands(y.key, y.of)
      BY <2>3, <2>4 DEF Longest, Matches
    <3>2. y.of \in Texts /\ y.key \in Texts
      BY <3>1 DEF Checkpoints, Histories
    <3>3. Said(y.of \o Drop(p, Len(y.key))) = Said(p)
      BY <2>2, <3>1, <3>2, StandsIn
    <3>4. \A z \in Slots \ {s} : live'[z] = live[z]
      BY <2>6 DEF SlotsTyped, TypeOK
    <3> HIDE DEF p
    <3>5. Said(y.of \o Drop(p, Len(y.key))) = Said(asked[c].means)
      BY <2>2, <3>3
    <3> QED BY <1>2, <2>3, <2>6, <3>4, <3>5
  <2> QED BY <1>4, <2>5, <2>6 DEF StartCold
<1> QED BY <1>3, <1>4

\* The end of a job that its client learns nothing from.
LEMMA JobEnds ==
    ASSUME SlotsTyped, Conversing, NEW s \in Slots, turn[s] # None, EndJob(s),
           kind' = kind, chat' = chat, made' = made,
           disk' \subseteq disk, \A z \in Slots \ {s} : live'[z] = live[z],
           \A z \in Slots : /\ responses'[z] \in {responses[z], None}
                            /\ anthropic'[z] \in {anthropic[z], None}
                            /\ thinking'[z] \in {thinking[z], None}
    PROVE  Conversing'
<1>1. /\ turn'[s] = None /\ \A z \in Slots \ {s} : turn'[z] = turn[z]
      /\ \A c \in Clients : asked'[c] = IF c = turn[s].by THEN None ELSE asked[c]
  BY DEF EndJob, SlotsTyped, TypeOK
<1>2. Talking'
  BY <1>1, TalkingEnds DEF Conversing
<1>3. \A z \in Slots : Remembered(z)'
  BY RememberedStays DEF Conversing
<1>4. ASSUME NEW z \in Slots PROVE Working(z)'
  <2>1. CASE z = s
    BY <1>1, <2>1 DEF Working
  <2>2. CASE z # s
    <3>1. turn[z] # None => turn[z].by # turn[s].by /\ turn[z].by \in Clients
      BY <2>2 DEF SlotsTyped, Owned, TypeOK, Turns
    <3> QED BY <1>1, <2>2, <3>1, WorkingStays DEF Conversing
  <2> QED BY <2>1, <2>2
<1> QED BY <1>2, <1>3, <1>4 DEF Conversing, DiskStands, Stands

LEMMA ConversingPrefill ==
    ASSUME SlotsTyped, Conversing, NEW s \in Slots,
           PrefillFails(s) \/ PrefillCancelled(s) \/ PrefillStopped(s) \/ PrefillDone(s)
    PROVE  Conversing'
<1>1. /\ turn[s] # None /\ turn[s] \in Turns /\ Prefilling(s)
      /\ kind' = kind /\ chat' = chat /\ made' = made
  BY DEF PrefillFails, PrefillCancelled, PrefillStopped, PrefillDone, Prefilling, SlotsTyped, TypeOK
<1>2. ASSUME NEW f, Discard(s, f)
      PROVE  disk' \subseteq disk /\ \A z \in Slots \ {s} : live'[z] = live[z]
  BY <1>2 DEF Discard, SlotsTyped, TypeOK
<1>3. CASE PrefillFails(s) \/ PrefillStopped(s)
  <2>1. \E f : Discard(s, f)
    BY <1>3 DEF PrefillFails, PrefillStopped
  <2>2. UNCHANGED bindings /\ EndJob(s)
    BY <1>3 DEF PrefillFails, PrefillStopped
  <2> QED BY <1>1, <1>2, <2>1, <2>2, JobEnds DEF bindings
<1>4. CASE PrefillCancelled(s)
  <2>1. disk' \subseteq disk /\ \A z \in Slots \ {s} : live'[z] = live[z]
    BY <1>2, <1>4 DEF PrefillCancelled, SlotsTyped, TypeOK
  <2>2. \A z \in Slots : /\ responses'[z] \in {responses[z], None}
                         /\ anthropic'[z] \in {anthropic[z], None}
                         /\ thinking'[z] \in {thinking[z], None}
    BY <1>4 DEF PrefillCancelled, ForgetAll, SlotsTyped, TypeOK
  <2> QED BY <1>1, <1>4, <2>1, <2>2, JobEnds DEF PrefillCancelled
<1>5. CASE PrefillDone(s)
  <2>1. /\ turn'[s].stage = "decode" /\ turn'[s].by = turn[s].by
        /\ turn'[s].effective = turn[s].effective /\ live'[s] = turn[s].effective
        /\ \A z \in Slots \ {s} : turn'[z] = turn[z] /\ live'[z] = live[z]
        /\ asked' = asked
    BY <1>1, <1>5 DEF PrefillDone, SlotsTyped, TypeOK, Turns
  <2>2. \A z \in Slots : /\ responses'[z] \in {responses[z], None}
                         /\ anthropic'[z] \in {anthropic[z], None}
                         /\ thinking'[z] \in {thinking[z], None}
    BY <1>5 DEF PrefillDone, ForgetOthers, Unless, SlotsTyped, TypeOK
  <2>3. Talking'
    BY <1>1, <2>1, TalkingEnds DEF Conversing
  <2>4. \A z \in Slots : Remembered(z)'
    BY <1>1, <2>2, RememberedStays DEF Conversing
  <2>5. \A z \in Slots \ {s} : Working(z)'
    BY <2>1, WorkingStays DEF Conversing
  <2>6. Working(s)'
    BY <1>1, <2>1 DEF Working, Conversing
  <2>7. \A y \in disk' : Stands(y.key, y.of)
    <3>1. CASE disk' = disk
      BY <3>1 DEF Conversing, DiskStands
    <3>2. CASE /\ ~(Len(turn[s].effective) < MinTokens)
               /\ disk' \in Put(disk, ByTokens(turn[s].effective))
      <4>1. turn[s].effective \in Texts /\ turn[s].effective # <<>>
        BY <1>1, <3>2, EmptyType, BindingsAssumption DEF Turns
      <4>2. Stands(ByTokens(turn[s].effective).key, ByTokens(turn[s].effective).of)
        BY <4>1, TokensStand
      <4> QED BY <3>2, <4>2, PutStands DEF Conversing, DiskStands
    <3> QED BY <1>5, <3>1, <3>2 DEF PrefillDone
  <2> QED BY <2>3, <2>4, <2>5, <2>6, <2>7 DEF Conversing, DiskStands, Stands
<1> QED BY <1>3, <1>4, <1>5

-----------------------------------------------------------------------------
(* The end of a generation.                                                *)

Ended == Answered \cup Called \cup {<<"reasoning">>}

\* What a client reads continues its conversation.
LEMMA ReadSaid ==
    ASSUME SlotsTyped, Conversing, NEW s \in Slots, Decoding(s), NEW out \in Ended, Read(s, out),
           NEW c \in Clients, c = turn[s].by
    PROVE  /\ \A d \in Clients \ {c} : chat'[d] = chat[d]
           /\ chat'[c] \in Texts /\ chat[c] \in Texts
           /\ chat'[c] # <<>> /\ Head(chat'[c]) \in Messages
           /\ Said(chat'[c]) = Said(asked[c].means) \o Said(out)
           /\ Len(Said(chat[c])) < Len(Said(chat'[c]))
           /\ OpenCall(chat'[c]) = CallOf(out) /\ CallOf(out) \in {None} \cup (Calls \ made)
           /\ ~kind[c].resends => chat'[c] = (asked[c].means \o Visible(out)) \o <<"end">>
<1> DEFINE r == asked[c]
<1>1. asked[c] # None
  BY DEF Decoding, SlotsTyped, Owned
<1>2. PICK m \in Messages \cup Results :
             /\ r.means = Append(chat[c], m) /\ r.means \in Texts /\ chat[c] \in Texts
             /\ r.means # <<>> /\ Head(r.means) \in Messages
  BY <1>1, AskedFacts DEF Conversing
<1>3. /\ out \in Texts /\ Text(out) \in Texts /\ Visible(out) \in Texts /\ <<"end">> \in Texts
      /\ Said(Visible(out)) = Said(out) /\ Said(Text(out)) = Said(out)
  BY OutputType, OutputSaid, ItemType DEF Ended, Items
<1>4. PICK x \in {Visible(out), Text(out)} :
          /\ chat' = [chat EXCEPT ![c] = (r.means \o x) \o <<"end">>]
          /\ ~kind[c].resends => x = Visible(out)
  BY DEF Read
<1> HIDE DEF r
<1>5. /\ chat'[c] = (r.means \o x) \o <<"end">> /\ \A d \in Clients \ {c} : chat'[d] = chat[d]
      /\ x \in Texts /\ Said(x) = Said(out)
  BY <1>3, <1>4 DEF SlotsTyped, TypeOK
<1>6. /\ r.means \o x \in Texts /\ r.means \o x # <<>> /\ Head(r.means \o x) = Head(r.means)
  BY <1>2, <1>5, ConcatType, HeadOfConcat
<1>7. /\ chat'[c] \in Texts /\ chat'[c] # <<>> /\ Head(chat'[c]) = Head(r.means)
  BY <1>3, <1>5, <1>6, ConcatType, HeadOfConcat
<1>8. Said(chat'[c]) = Said(r.means) \o Said(out)
  <2>1. Said((r.means \o x) \o <<"end">>) = Said(r.means \o x)
    BY <1>6, SaidClosed
  <2>2. Said(r.means \o x) = Said(r.means) \o Said(x)
    BY <1>2, <1>5, SaidConcat
  <2> QED BY <1>5, <2>1, <2>2, Zenon
<1>9. Len(Said(chat[c])) < Len(Said(chat'[c]))
  <2>1. Len(Said(r.means)) = Len(Said(chat[c])) + 1
    <3>1. Len(Said(Append(chat[c], m))) = Len(Said(chat[c])) + 1
      BY <1>2, SaidMessage
    <3> QED BY <1>2, <3>1, Zenon
  <2>2. Said(r.means) \in Texts /\ Said(out) \in Texts /\ Said(chat[c]) \in Texts
    BY <1>2, <1>3, SaidType
  <2>3. Len(Said(r.means) \o Said(out)) = Len(Said(r.means)) + Len(Said(out))
    BY <2>2, ConcatType
  <2>4. Len(Said(out)) \in Nat /\ Len(Said(chat[c])) \in Nat
    BY <2>2, LenType
  <2>5. Len(Said(chat'[c])) = Len(Said(chat[c])) + 1 + Len(Said(out))
    BY <1>8, <2>1, <2>3
  <2> QED BY <2>4, <2>5
<1>10. OpenCall(chat'[c]) = CallOf(out) /\ CallOf(out) \in {None} \cup (Calls \ made)
  <2>1. /\ OpenCall((Append(chat[c], m) \o x) \o <<"end">>) = CallOf(out)
        /\ CallOf(out) \in {None} \cup (Calls \ made)
    BY <1>2, <1>4, OutputOpens DEF Ended
  <2> QED BY <1>2, <1>5, <2>1, Zenon
<1> QED BY <1>2, <1>4, <1>5, <1>7, <1>8, <1>9, <1>10 DEF r

\* The bindings that were there before are older than the conversation now.
LEMMA RemembersStill ==
    ASSUME SlotsTyped, Conversing, NEW s \in Slots, Decoding(s), NEW out \in Ended, Read(s, out),
           kind' = kind, made \subseteq made', NEW b \in Bindings, Remembers(b)
    PROVE  Remembers(b)'
<1> DEFINE c == turn[s].by
<1>0. c \in Clients
  BY DEF Decoding, SlotsTyped, TypeOK, Turns
<1>1. /\ \A d \in Clients \ {c} : chat'[d] = chat[d]
      /\ chat'[c] \in Texts /\ chat[c] \in Texts
      /\ Len(Said(chat[c])) < Len(Said(chat'[c]))
      /\ OpenCall(chat'[c]) \in {None} \cup (Calls \ made)
  BY <1>0, ReadSaid
<1> HIDE DEF c
<1>2. b.by \in Clients /\ b.of \in Texts
  BY DEF Bindings, Histories
<1>3. ASSUME IdIsHonest(b), b.id \in made \cup {None} PROVE IdIsHonest(b)'
  BY <1>0, <1>1, <1>3 DEF IdIsHonest
<1>4. ASSUME OldOrLast(b) PROVE OldOrLast(b)'
  <2>1. CASE b.by = c
    <3>1. /\ Len(Said(b.of)) \in Nat /\ Len(Said(chat[c])) \in Nat
          /\ Len(Said(chat'[c])) \in Nat
      BY <1>1, <1>2, SaidType, LenType
    <3>2. Len(Said(b.of)) <= Len(Said(chat[c]))
      BY <1>4, <2>1, <3>1 DEF OldOrLast
    <3>3. Len(Said(b.of)) < Len(Said(chat'[b.by]))
      BY <1>1, <2>1, <3>1, <3>2
    <3> QED BY <3>3 DEF OldOrLast
  <2>2. CASE b.by # c
    BY <1>1, <1>2, <1>4, <2>2 DEF OldOrLast, Api
  <2> QED BY <2>1, <2>2
<1> QED BY <1>3, <1>4 DEF Remembers

LEMMA RememberedStill ==
    ASSUME SlotsTyped, Conversing, NEW s \in Slots, Decoding(s), NEW out \in Ended, Read(s, out),
           kind' = kind, made \subseteq made', NEW z \in Slots,
           responses'[z] \in {responses[z], None}, anthropic'[z] \in {anthropic[z], None},
           thinking'[z] \in {thinking[z], None}
    PROVE  Remembered(z)'
<1>1. Remembered(z) /\ \A b \in Three(z) : b \in Bindings \cup {None}
  BY DEF Conversing, Three, SlotsTyped, TypeOK
<1>2. ASSUME NEW b \in Three(z) \cup {None} PROVE Remembers(b)'
  <2>1. CASE b = None
    BY <2>1 DEF Remembers
  <2>2. CASE b # None
    BY <1>1, <2>2, RemembersStill DEF Remembered
  <2> QED BY <2>1, <2>2
<1>3. \A b \in Three(z)' : Remembers(b)'
  BY <1>2 DEF Three
<1>4. (/\ responses[z] # None => Api(responses[z].by) = "responses"
       /\ anthropic[z] # None => Api(anthropic[z].by) = "anthropic" /\ anthropic[z].id # None
       /\ thinking[z] # None => Api(thinking[z].by) # "responses" /\ thinking[z].id = None)'
  BY <1>1 DEF Remembered, Api
<1>5. (\A b \in {responses[z], thinking[z]} : b # None /\ b.of # <<>> => Stands(b.text, b.of))'
  BY <1>1 DEF Remembered
<1> QED BY <1>3, <1>4, <1>5 DEF Remembered

\* What is remembered by a text stands for the session.
LEMMA NewStands ==
    ASSUME SlotsTyped, Conversing, NEW s \in Slots, Decoding(s), NEW out \in Ended,
           NEW c \in Clients, c = turn[s].by,
           NEW v \in {Visible(out), Text(out)}, NEW w \in {<<>>, <<"end">>}
    PROVE  /\ Stands((asked[c].prompt \o v) \o w, live[s] \o out)
           /\ Said(live[s] \o out) = Said(asked[c].means) \o Said(out)
<1> DEFINE r == asked[c]
           x == (r.prompt \o v) \o w
<1>1. asked[c] # None /\ r.needs \in BOOLEAN
  BY DEF Decoding, SlotsTyped, Owned, TypeOK, Requests
<1>2. PICK m \in Messages \cup Results :
             /\ r.means = Append(chat[c], m) /\ r.means \in Texts /\ r.prompt \in Texts
             /\ chat[c] \in Texts
             /\ r.means # <<>> /\ Head(r.means) \in Messages
             /\ r.needs => r.prompt = <<m>> /\ m \in Results
             /\ ~r.needs => r.prompt = r.means
  BY <1>1, AskedFacts DEF Conversing
<1>3. /\ out \in Texts /\ v \in Texts /\ Said(v) = Said(out)
  BY OutputType, OutputSaid DEF Ended
<1>4. live[s] \in Texts /\ Said(live[s]) = Said(r.means)
  <2>1. turn[s] # None /\ live[s] = turn[s].effective
    BY DEF Conversing, Working, Decoding
  <2> QED BY <2>1 DEF Conversing, Working, SlotsTyped, TypeOK, Histories
<1> HIDE DEF r
<1>5. /\ <<m>> \in Texts /\ Said(<<m>>) = <<m>> /\ Said(r.means) = Said(chat[c]) \o <<m>>
  BY <1>2, SaidMessage
<1>6. r.prompt # <<>>
  <2>1. <<m>> # <<>>
    OBVIOUS
  <2> QED BY <1>1, <1>2, <2>1 DEF r
<1>7. /\ r.prompt \o v \in Texts /\ r.prompt \o v # <<>> /\ Head(r.prompt \o v) = Head(r.prompt)
      /\ Said(r.prompt \o v) = Said(r.prompt) \o Said(out)
  <2>1. Said(r.prompt \o v) = Said(r.prompt) \o Said(v)
    BY <1>2, <1>3, SaidConcat
  <2>2. r.prompt \o v \in Texts
    BY <1>2, <1>3, ConcatType
  <2>3. r.prompt \o v # <<>> /\ Head(r.prompt \o v) = Head(r.prompt)
    BY <1>2, <1>3, <1>6, HeadOfConcat
  <2> QED BY <1>3, <2>1, <2>2, <2>3
<1>8. w \in Texts /\ Said((r.prompt \o v) \o w) = Said(r.prompt \o v)
  <2>1. CASE w = <<"end">>
    BY <1>7, <2>1, SaidClosed, ItemType DEF Items
  <2>2. CASE w = <<>>
    BY <1>7, <2>2, EmptyType, ConcatEmptySeq DEF Texts
  <2> QED BY <2>1, <2>2
<1>9. x \in Texts /\ x # <<>> /\ Head(x) = Head(r.prompt) /\ Said(x) = Said(r.prompt) \o Said(out)
  BY <1>7, <1>8, ConcatType, HeadOfConcat
<1> HIDE DEF x
<1>10. Said(live[s] \o out) = Said(r.means) \o Said(out)
  BY <1>3, <1>4, SaidConcat
<1>11. Said(x) \in Texts /\ Said(chat[c]) \in Texts /\ Said(out) \in Texts
  BY <1>2, <1>3, <1>9, SaidType
<1>12. CASE ~r.needs
  <2>1. Said(x) = Said(live[s] \o out)
    BY <1>2, <1>9, <1>10, <1>12
  <2>2. IsSuffix(Said(x), Said(live[s] \o out))
    BY <1>11, <2>1, SuffixOfItself
  <2> QED BY <1>9, <1>10, <2>1, <2>2 DEF Stands, r, x
<1>13. CASE r.needs
  <2>1. Said(x) = <<m>> \o Said(out)
    BY <1>2, <1>5, <1>9, <1>13
  <2>2. Said(live[s] \o out) = Said(chat[c]) \o Said(x)
    <3>1. (Said(chat[c]) \o <<m>>) \o Said(out) = Said(chat[c]) \o (<<m>> \o Said(out))
      BY <1>5, <1>11, ConcatRegroup
    <3> QED BY <1>5, <1>10, <2>1, <3>1, Zenon
  <2>3. IsSuffix(Said(x), Said(live[s] \o out))
    BY <1>11, <2>2, SuffixOfConcat
  <2>4. Head(x) \in Results
    <3>1. Head(<<m>>) = m
      OBVIOUS
    <3> QED BY <1>2, <1>9, <1>13, <3>1
  <2> QED BY <1>9, <1>10, <2>3, <2>4 DEF Stands, r, x
<1> QED BY <1>1, <1>12, <1>13 DEF r

\* What is remembered of a turn is to the end of the conversation it was read in.
LEMMA NewRemembers ==
    ASSUME SlotsTyped, Conversing, NEW s \in Slots, Decoding(s), NEW out \in Ended, Read(s, out),
           kind' = kind, NEW c \in Clients, c = turn[s].by,
           NEW text, NEW id, NEW t, NEW byTokens, t \in {live[s] \o out, <<>>},
           id \in {CallOf(out), None}, id \in made' \cup {None},
           Api(c) # "openai" => id = CallOf(out),
           id = None /\ ~asked[c].needs /\ ~kind[c].resends => IsPrefix(text, chat'[c]),
           NEW b, b = Remember(c, text, id, t, byTokens)
    PROVE  Remembers(b)'
<1>1. /\ \A d \in Clients \ {c} : chat'[d] = chat[d]
      /\ Said(chat'[c]) = Said(asked[c].means) \o Said(out)
      /\ OpenCall(chat'[c]) = CallOf(out) /\ CallOf(out) \in {None} \cup (Calls \ made)
  BY ReadSaid
<1>2. Said(live[s] \o out) = Said(chat'[c])
  BY <1>1, NewStands
<1>3. /\ b.by = c /\ b.needs = asked[c].needs /\ b.text = text /\ b.id = id /\ b.at = Len(t) /\ b.of = t
  BY DEF Remember
<1>4. ASSUME t # <<>> PROVE IdIsHonest(b)'
  <2> SUFFICES ASSUME id # None, NEW d \in Clients, id = OpenCall(chat'[d])
               PROVE  Said(t) = Said(chat'[d])
    BY <1>3 DEF IdIsHonest
  <2>1. CASE d = c
    BY <1>2, <1>4, <2>1
  <2>2. CASE d # c
    <3>1. OpenCall(chat[d]) \in made \cup {None}
      BY DEF Conversing, Talking, TalksSense
    <3> QED BY <1>1, <2>2, <3>1
  <2> QED BY <2>1, <2>2
<1>5. ASSUME t # <<>> PROVE OldOrLast(b)'
  BY <1>1, <1>2, <1>3, <1>5 DEF OldOrLast, Api
<1> QED BY <1>3, <1>4, <1>5 DEF Remembers

\* A text is a prefix of itself.
LEMMA PrefixOfItself ==
    ASSUME NEW t \in Texts
    PROVE  IsPrefix(t, t)
BY LenType DEF IsPrefix

LEMMA TurnRemembered ==
    ASSUME SlotsTyped, Sound, Conversing, NEW s \in Slots, Decoding(s), NEW out \in Ended, Read(s, out),
           NEW t \in {live[s] \o out, <<>>}, RememberTurn(s, out, t),
           kind' = kind, made \subseteq made', CallOf(out) \in made' \cup {None},
           NEW z \in Slots
    PROVE  Remembered(z)'
<1> DEFINE c == turn[s].by
           r == asked[c]
<1>1. c \in Clients /\ c = turn[s].by /\ asked[c] # None
  BY DEF Decoding, SlotsTyped, Owned, TypeOK, Turns
<1>2. CASE z # s
  <2>1. responses'[z] = responses[z] /\ anthropic'[z] = anthropic[z] /\ thinking'[z] = thinking[z]
    BY <1>2 DEF RememberTurn, SlotsTyped, TypeOK
  <2> QED BY <2>1, RememberedStill
<1>3. CASE z = s
  <2>1. responses'[s] # None =>
            /\ Api(c) = "responses"
            /\ \E x \in ResponsesTexts(r, out) : \E y : responses'[s] = Remember(c, x, CallOf(out), t, y)
    <3>1. responses[s] # None => Api(c) = "responses"
      BY DEF Sound, SlotSound, OfItsClient
    <3> QED BY <3>1 DEF RememberTurn, SlotsTyped, TypeOK
  <2>2. anthropic'[s] # None =>
            /\ Api(c) = "anthropic" /\ CallOf(out) # None
            /\ \E y : anthropic'[s] = Remember(c, <<>>, CallOf(out), t, y)
    BY DEF RememberTurn, SlotsTyped, TypeOK
  <2>3. thinking'[s] # None =>
            /\ Rememberable(c, out)
            /\ \E y : thinking'[s] = Remember(c, ThinkingText(r, out), None, t, y)
    <3>1. PICK y : thinking' = [thinking EXCEPT ![s] =
                     IF Rememberable(c, out) THEN Remember(c, ThinkingText(r, out), None, t, y) ELSE None]
      BY DEF RememberTurn
    <3> QED BY <3>1 DEF SlotsTyped, TypeOK
  <2>4. PICK m \in Messages \cup Results :
             /\ r.means \in Texts /\ r.prompt \in Texts
             /\ ~r.needs => r.prompt = r.means
    BY <1>1, AskedFacts DEF Conversing
  <2>5. ~kind[c].resends => chat'[c] = (r.means \o Visible(out)) \o <<"end">>
    BY <1>1, ReadSaid
  <2> HIDE DEF r
  <2>6. /\ Visible(out) \in Texts /\ <<"end">> \in Texts /\ <<>> \in Texts
        /\ r.prompt \o Visible(out) \in Texts
        /\ (r.prompt \o Visible(out)) \o <<"end">> \in Texts
    <3>1. Visible(out) \in Texts /\ <<"end">> \in Texts /\ <<>> \in Texts
      BY OutputType, ItemType, EmptyType DEF Ended, Items
    <3>2. r.prompt \o Visible(out) \in Texts
      BY <2>4, <3>1, ConcatType
    <3> QED BY <3>1, <3>2, ConcatType
  <2>7. ASSUME NEW b, b # None, b = responses'[s]
        PROVE  Remembers(b)' /\ Stands(b.text, live[s] \o out) /\ b.of = t /\ b.by = c
    <3>1. PICK x \in ResponsesTexts(r, out) : \E y : b = Remember(c, x, CallOf(out), t, y)
      BY <2>1, <2>7 DEF r
    <3>2. \E v \in {Visible(out), Text(out)} : x = (r.prompt \o v) \o <<"end">>
      BY <3>1 DEF ResponsesTexts
    <3>3. CallOf(out) = None => x = (r.prompt \o Visible(out)) \o <<"end">>
      BY <3>1 DEF ResponsesTexts
    <3>4. CallOf(out) = None /\ ~r.needs /\ ~kind[c].resends => IsPrefix(x, chat'[c])
      BY <2>4, <2>5, <2>6, <3>3, PrefixOfItself
    <3>5. Stands(x, live[s] \o out)
      <4>1. PICK v \in {Visible(out), Text(out)} : x = (r.prompt \o v) \o <<"end">>
        BY <3>2
      <4>2. Stands((asked[c].prompt \o v) \o <<"end">>, live[s] \o out)
        BY <1>1, NewStands
      <4> QED BY <4>1, <4>2 DEF r
    <3>6. Remembers(b)'
      BY <1>1, <3>1, <3>4, NewRemembers DEF r
    <3> QED BY <3>1, <3>5, <3>6 DEF Remember
  <2>8. ASSUME NEW b, b # None, b = anthropic'[s]
        PROVE  Remembers(b)' /\ b.id # None /\ b.by = c
    <3>1. (\E y : b = Remember(c, <<>>, CallOf(out), t, y)) /\ CallOf(out) # None
      BY <2>2, <2>8
    <3>2. Remembers(b)'
      BY <1>1, <3>1, NewRemembers
    <3> QED BY <3>1, <3>2 DEF Remember
  <2>9. ASSUME NEW b, b # None, b = thinking'[s]
        PROVE  Remembers(b)' /\ Stands(b.text, live[s] \o out) /\ b.of = t /\ b.by = c /\ b.id = None
    <3>1. PICK y : b = Remember(c, ThinkingText(r, out), None, t, y)
      BY <2>3, <2>9 DEF r
    <3> DEFINE x == ThinkingText(r, out)
    <3>2. PICK w \in {<<>>, <<"end">>} : x = (r.prompt \o Visible(out)) \o w
      BY DEF ThinkingText
    <3>3. Api(c) # "openai" => CallOf(out) = None
      BY <2>3, <2>9 DEF Rememberable
    <3> HIDE DEF x
    <3>4. ~r.needs /\ ~kind[c].resends => IsPrefix(x, chat'[c])
      <4>1. CASE w = <<"end">>
        BY <2>4, <2>5, <2>6, <3>2, <4>1, PrefixOfItself
      <4>2. CASE w = <<>>
        <5>1. x = r.prompt \o Visible(out)
          BY <2>6, <3>2, <4>2, ConcatEmptySeq DEF Texts
        <5> QED BY <2>4, <2>5, <2>6, <5>1, PrefixOfConcat
      <4> QED BY <4>1, <4>2
    <3>5. Stands(x, live[s] \o out)
      BY <1>1, <3>2, NewStands DEF r
    <3>6. b = Remember(c, x, None, t, y)
      BY <3>1 DEF x
    <3>7. Remembers(b)'
      BY <1>1, <3>3, <3>4, <3>6, NewRemembers DEF r
    <3> QED BY <3>5, <3>6, <3>7 DEF Remember
  <2>10. \A b \in Three(s)' : Remembers(b)'
    <3>1. Remembers(None)'
      BY DEF Remembers
    <3> QED BY <2>7, <2>8, <2>9, <3>1 DEF Three
  <2>11. (/\ responses[s] # None => Api(responses[s].by) = "responses"
          /\ anthropic[s] # None => Api(anthropic[s].by) = "anthropic" /\ anthropic[s].id # None
          /\ thinking[s] # None => Api(thinking[s].by) # "responses" /\ thinking[s].id = None)'
    BY <2>1, <2>2, <2>3, <2>7, <2>8, <2>9 DEF Api, Rememberable
  <2>12. (\A b \in {responses[s], thinking[s]} : b # None /\ b.of # <<>> => Stands(b.text, b.of))'
    <3> SUFFICES ASSUME NEW b \in {responses'[s], thinking'[s]}, b # None, b.of # <<>>
                 PROVE  Stands(b.text, b.of)
      OBVIOUS
    <3>1. Stands(b.text, live[s] \o out) /\ b.of = t
      BY <2>7, <2>9
    <3> QED BY <3>1
  <2> QED BY <1>3, <2>10, <2>11, <2>12 DEF Remembered
<1> QED BY <1>2, <1>3

\* The end of a job that its client has an answer from.
LEMMA AnswerEnds ==
    ASSUME SlotsTyped, Conversing, NEW s \in Slots, Decoding(s), NEW out \in Ended, Read(s, out),
           EndJob(s), kind' = kind, disk' = disk, made \subseteq made', CallOf(out) \in made' \cup {None},
           \A z \in Slots \ {s} : live'[z] = live[z], \A z \in Slots : Remembered(z)'
    PROVE  Conversing'
<1>1. PICK c \in Clients : c = turn[s].by
  BY DEF Decoding, SlotsTyped, TypeOK, Turns
<1>2. /\ turn'[s] = None /\ \A z \in Slots \ {s} : turn'[z] = turn[z]
      /\ \A d \in Clients : asked'[d] = IF d = c THEN None ELSE asked[d]
  BY <1>1 DEF EndJob, SlotsTyped, TypeOK
<1>3. /\ \A d \in Clients \ {c} : chat'[d] = chat[d]
      /\ chat'[c] # <<>> /\ Head(chat'[c]) \in Messages /\ OpenCall(chat'[c]) = CallOf(out)
  BY <1>1, ReadSaid
<1>4. Talking'
  <2>1. TalksSense(c)'
    BY <1>1, <1>2, <1>3 DEF TalksSense
  <2>2. \A d \in Clients \ {c} : TalksSense(d)'
    BY <1>2, <1>3, TalksSenseStill DEF Conversing, Talking
  <2> QED BY <2>1, <2>2 DEF Talking
<1>5. ASSUME NEW z \in Slots PROVE Working(z)'
  <2>1. CASE z = s
    BY <1>2, <2>1 DEF Working
  <2>2. CASE z # s
    <3>1. turn[z] # None => turn[z].by # c /\ turn[z].by \in Clients
      BY <1>1, <2>2 DEF Decoding, SlotsTyped, Owned, TypeOK, Turns
    <3> QED BY <1>2, <2>2, <3>1, WorkingStays DEF Conversing
  <2> QED BY <2>1, <2>2
<1> QED BY <1>4, <1>5 DEF Conversing, DiskStands, Stands

LEMMA ConversingDecode ==
    ASSUME SlotsTyped, Sound, Conversing, NEW s \in Slots,
           TurnEnds(s) \/ StopSequence(s) \/ CutShort(s) \/ TurnLost(s)
    PROVE  Conversing'
<1>1. Decoding(s) /\ EndJob(s) /\ kind' = kind /\ disk' = disk /\ turn[s] # None
  BY DEF TurnEnds, StopSequence, CutShort, TurnLost, Decoding
<1>2. Outputs(s) \subseteq Ended /\ <<"reasoning">> \in Ended
  BY DEF Outputs, Ended
<1>3. ASSUME NEW l, live' = [live EXCEPT ![s] = l] PROVE \A z \in Slots \ {s} : live'[z] = live[z]
  BY <1>3 DEF SlotsTyped, TypeOK
<1>4. ASSUME ForgetAll(s), NEW z \in Slots
      PROVE  /\ responses'[z] \in {responses[z], None} /\ anthropic'[z] \in {anthropic[z], None}
             /\ thinking'[z] \in {thinking[z], None}
  BY <1>4 DEF ForgetAll, SlotsTyped, TypeOK
<1>5. CASE TurnEnds(s)
  <2>1. PICK out \in Outputs(s) :
            /\ live' = [live EXCEPT ![s] = live[s] \o out]
            /\ made' = made \cup ({CallOf(out)} \ {None})
            /\ RememberTurn(s, out, live[s] \o out) /\ Read(s, out)
    BY <1>5 DEF TurnEnds
  <2>2. out \in Ended /\ made \subseteq made' /\ CallOf(out) \in made' \cup {None}
    BY <1>2, <2>1
  <2>3. \A z \in Slots : Remembered(z)'
    BY <1>1, <2>1, <2>2, TurnRemembered
  <2>4. \A z \in Slots \ {s} : live'[z] = live[z]
    BY <1>3, <2>1
  <2> QED BY <1>1, <2>1, <2>2, <2>3, <2>4, AnswerEnds
<1>6. CASE StopSequence(s)
  <2>1. PICK out \in Outputs(s) :
            /\ CallOf(out) = None
            /\ live' = [live EXCEPT ![s] = <<>>]
            /\ RememberTurn(s, out, <<>>) /\ Read(s, out)
    BY <1>6 DEF StopSequence
  <2>2. out \in Ended /\ made \subseteq made' /\ CallOf(out) \in made' \cup {None}
    BY <1>2, <1>6, <2>1 DEF StopSequence
  <2>3. \A z \in Slots : Remembered(z)'
    BY <1>1, <2>1, <2>2, TurnRemembered
  <2>4. \A z \in Slots \ {s} : live'[z] = live[z]
    BY <1>3, <2>1
  <2> QED BY <1>1, <2>1, <2>2, <2>3, <2>4, AnswerEnds
<1>7. CASE CutShort(s)
  <2>1. PICK out \in Outputs(s) \cup {<<"reasoning">>} :
            /\ CallOf(out) = None
            /\ live' = [live EXCEPT ![s] = @ \o out]
            /\ Read(s, out)
    BY <1>7 DEF CutShort
  <2>2. out \in Ended /\ made \subseteq made' /\ CallOf(out) \in made' \cup {None}
    BY <1>2, <1>7, <2>1 DEF CutShort
  <2>3. \A z \in Slots : Remembered(z)'
    BY <1>1, <1>4, <1>7, <2>1, <2>2, RememberedStill DEF CutShort
  <2>4. \A z \in Slots \ {s} : live'[z] = live[z]
    BY <1>3, <2>1
  <2> QED BY <1>1, <2>1, <2>2, <2>3, <2>4, AnswerEnds
<1>8. CASE TurnLost(s)
  <2>1. \A z \in Slots \ {s} : live'[z] = live[z]
    BY <1>8 DEF TurnLost, SlotsTyped, TypeOK
  <2>2. ForgetAll(s) /\ chat' = chat /\ made' = made
    BY <1>8 DEF TurnLost
  <2> QED BY <1>1, <1>4, <2>1, <2>2, JobEnds
<1> QED BY <1>5, <1>6, <1>7, <1>8

-----------------------------------------------------------------------------
(* All steps.                                                              *)

LEMMA ConversingInit ==
    ASSUME Init
    PROVE  Conversing
<1>1. OpenCall(<<>>) = None
  BY EmptyType DEF OpenCall
<1> QED BY <1>1 DEF Init, Conversing, Talking, TalksSense, DiskStands, Remembered, Remembers, Three, Working

LEMMA ConversingStep ==
    ASSUME SlotsTyped, Sound, Conversing, [Next]_vars
    PROVE  Conversing'
<1>1. ASSUME UNCHANGED <<kind, chat, asked, made, bindings, turn>>,
             \A z \in Slots : live'[z] = live[z] \/ turn[z] = None,
             \A y \in disk' : Stands(y.key, y.of)
      PROVE  Conversing'
  <2>1. Talking'
    BY <1>1, TalkingEnds DEF Conversing
  <2>2. \A z \in Slots : Remembered(z)'
    BY <1>1, RememberedStays DEF Conversing, bindings
  <2>3. \A z \in Slots : Working(z)'
    BY <1>1 DEF Conversing, Working, Decoding
  <2> QED BY <1>1, <2>1, <2>2, <2>3 DEF Conversing, DiskStands, Stands
<1>2. ASSUME NEW s \in Slots, Persist(s)
      PROVE  Conversing'
  <2>1. \A y \in disk' : Stands(y.key, y.of)
    BY <1>2, PersistedStands DEF Persist
  <2>2. \A z \in Slots : turn[z] = None
    BY <1>2 DEF Persist
  <2> QED BY <1>1, <1>2, <2>1, <2>2 DEF Persist
<1>3. CASE Restart
  <2>1. /\ kind' = kind /\ chat' = chat /\ made' = made /\ disk' = disk
        /\ \A c \in Clients : asked'[c] = None
        /\ \A s \in Slots : responses'[s] = None /\ anthropic'[s] = None /\ thinking'[s] = None
                            /\ turn'[s] = None
    BY <1>3 DEF Restart
  <2>2. Talking'
    BY <2>1, TalkingEnds DEF Conversing
  <2>3. \A s \in Slots : Remembered(s)'
    BY <2>1, RememberedStays DEF Conversing
  <2>4. \A s \in Slots : Working(s)'
    BY <2>1 DEF Working
  <2> QED BY <2>1, <2>2, <2>3, <2>4 DEF Conversing, DiskStands, Stands
<1>4. ASSUME NEW c \in Clients, NEW m \in Messages \cup Results, NEW alone \in BOOLEAN,
             Ask(c, m, alone)
      PROVE  Conversing'
  BY <1>4, ConversingAsk
<1>5. ASSUME NEW s \in Slots, NEW c \in Clients, Refuse(s, c)
      PROVE  Conversing'
  BY <1>5, ConversingRefuse
<1>6. CASE Stop
  BY <1>1, <1>6 DEF Stop, Conversing, DiskStands
<1>7. ASSUME NEW s \in Slots, NEW c \in Clients, StartLive(s, c) \/ StartCold(s, c)
      PROVE  Conversing'
  BY <1>7, ConversingStart
<1>8. ASSUME NEW s \in Slots,
             PrefillFails(s) \/ PrefillCancelled(s) \/ PrefillStopped(s) \/ PrefillDone(s)
      PROVE  Conversing'
  BY <1>8, ConversingPrefill
<1>9. ASSUME NEW s \in Slots, TurnEnds(s) \/ StopSequence(s) \/ CutShort(s) \/ TurnLost(s)
      PROVE  Conversing'
  BY <1>9, ConversingDecode
<1>10. CASE UNCHANGED vars
  BY <1>1, <1>10 DEF vars, bindings, Conversing, DiskStands
<1> QED BY <1>2, <1>3, <1>4, <1>5, <1>6, <1>7, <1>8, <1>9, <1>10 DEF Next

\* The invariant of all that follows.
LEMMA Conversations == ~Coincide => (Spec => [](SlotsTyped /\ Sound /\ Conversing))
<1> SUFFICES ASSUME ~Coincide PROVE Spec => [](SlotsTyped /\ Sound /\ Conversing)
  OBVIOUS
<1>1. Init => SlotsTyped /\ Sound /\ Conversing
  <2>1. Init => Sound
    BY DEF Init, Sound, SlotSound, Single, Honest, OfItsClient, Outgrown, Prefilling, Decoding
  <2> QED BY <2>1, TypedInit, ConversingInit
<1>2. SlotsTyped /\ Sound /\ Conversing /\ [Next]_vars => (SlotsTyped /\ Sound /\ Conversing)'
  BY TypedStep, SoundStep, ConversingStep
<1> QED BY <1>1, <1>2, PTL DEF Spec

\* AnswersTheChat, under the same provision: whether a request replays its
\* history or sends a tool's output alone, and whatever it continues from, a live
\* binding, the tokens or the text of a session, or a checkpoint under either kind
\* of key, the model is given what was said in its client's conversation, all of
\* it and nothing else.
THEOREM ChatAnswered == ~Coincide => (Spec => []AnswersTheChat)
<1>1. Conversing => AnswersTheChat
  BY DEF Conversing, Working, AnswersTheChat
<1> QED BY <1>1, Conversations, PTL

\* KeysHonest, under the same provision: the text a checkpoint is found by was
\* said last in its tokens, through any number of turns, slots and restarts.
THEOREM KeysAreHonest == ~Coincide => (Spec => []KeysHonest)
<1>1. Conversing => KeysHonest
  BY DEF Conversing, DiskStands, Stands, KeysHonest
<1> QED BY <1>1, Conversations, PTL

\* A text is a strict prefix of what has one more message.
LEMMA StrictPrefixOfAppend ==
    ASSUME NEW t \in Texts, NEW u \in Texts, IsPrefix(t, u), NEW m \in Messages \cup Results
    PROVE  IsStrictPrefix(t, Append(u, m))
<1> DEFINE d == Drop(u, Len(t))
<1>1. u = t \o d /\ d \in Texts
  BY PrefixSplit
<1>2. Append(u, m) = u \o <<m>> /\ <<m>> \in Texts /\ m \in Items
  BY SaidMessage
<1> HIDE DEF d
<1>3. Append(u, m) = t \o (d \o <<m>>) /\ d \o <<m>> \in Texts
  BY <1>1, <1>2, ConcatRegroup, ConcatType
<1>4. IsPrefix(t, Append(u, m))
  BY <1>3, PrefixOfConcat
<1>5. t # Append(u, m)
  <2>1. Len(Append(u, m)) = Len(u) + 1
    BY <1>2, AppendProperties DEF Texts
  <2>2. Len(t) <= Len(u) /\ Len(t) \in Nat /\ Len(u) \in Nat
    BY LenType DEF IsPrefix
  <2> QED BY <2>1, <2>2
<1> QED BY <1>4, <1>5 DEF IsStrictPrefix

LEMMA LiveContinues ==
    ASSUME SlotsTyped, Conversing, NEW s \in Slots, NEW c \in Clients,
           turn[s] = None, live[s] # <<>>, asked[c] # None, ~kind[c].resends,
           NEW b \in Three(s), AtFrontier(b, s), b.by = c, Said(b.of) = Said(chat[c]),
           b.needs => asked[c].needs
    PROVE  Reuse(s, c) # "none"
<1> DEFINE r == asked[c]
<1>1. PICK m \in Messages \cup Results :
             /\ r.means = Append(chat[c], m) /\ chat[c] \in Texts
             /\ r.needs => r.id # None
             /\ ~r.needs => r.prompt = r.means
             /\ r.id # None => r.id = OpenCall(chat[c])
             /\ Api(c) # "openai" => r.id = OpenCall(chat[c])
             /\ r.id # None => Api(c) # "openai"
  BY AskedFacts DEF Conversing
<1>2. b # None /\ b \in Bindings /\ b.text \in Texts /\ b.of \in Texts /\ Remembered(s)
  BY DEF AtFrontier, SlotsTyped, TypeOK, Three, Bindings, Histories, Conversing
<1>3. b.of # <<>>
  <2>1. b.at = Len(live[s]) /\ b.at = Len(b.of)
    BY <1>2 DEF AtFrontier, Remembered, Remembers
  <2>2. Len(live[s]) # 0
    BY EmptySeq DEF SlotsTyped, TypeOK, Histories, Texts
  <2> QED BY <2>1, <2>2, EmptyType
<1>4. /\ Api(c) # "openai" => b.id = OpenCall(chat[c])
      /\ b.id = None /\ ~b.needs => IsPrefix(b.text, chat[c])
  <2>1. OldOrLast(b)
    BY <1>2, <1>3 DEF Remembered, Remembers
  <2>2. ~(Len(Said(b.of)) < Len(Said(chat[c])))
    <3>1. Len(Said(chat[c])) \in Nat
      BY <1>1, SaidType, LenType
    <3> QED BY <3>1
  <2> QED BY <2>1, <2>2 DEF OldOrLast
<1>5. b.id = None /\ ~r.needs => IsStrictPrefix(b.text, r.prompt)
  BY <1>1, <1>2, <1>4, StrictPrefixOfAppend
<1> HIDE DEF r
<1>6. CASE b = responses[s]
  <2>1. Api(c) = "responses" /\ r.id = b.id
    BY <1>1, <1>2, <1>4, <1>6 DEF Remembered
  <2>2. CASE r.id # None
    BY <1>6, <2>1, <2>2 DEF Reuse, Answers, r
  <2>3. CASE r.id = None
    BY <1>1, <1>5, <1>6, <2>1, <2>3 DEF Reuse, Continues, r
  <2> QED BY <2>2, <2>3
<1>7. CASE b = anthropic[s]
  <2>1. Api(c) = "anthropic" /\ r.id = b.id /\ b.id # None
    BY <1>1, <1>2, <1>4, <1>7 DEF Remembered
  <2> QED BY <1>7, <2>1 DEF Reuse, Answers, r
<1>8. CASE b = thinking[s]
  <2>1. Api(c) # "responses" /\ b.id = None
    BY <1>2, <1>8 DEF Remembered
  <2>2. ~r.needs
    BY <1>1, <1>4, <2>1
  <2> QED BY <1>5, <1>8, <2>1, <2>2 DEF Reuse, Continues, r
<1> QED BY <1>6, <1>7, <1>8 DEF Three

\* ContinuesLive, under the same provision: a client that leaves out its reasoning,
\* and comes back to the slot where its last turn ended and which nobody has used
\* since, finds that session again, by the text that it knows or by the id of the
\* call it answers.
THEOREM LiveIsContinued == ~Coincide => (Spec => []ContinuesLive)
<1>1. SlotsTyped /\ Conversing => ContinuesLive
  BY LiveContinues DEF ContinuesLive, Three
<1> QED BY <1>1, Conversations, PTL
=============================================================================
