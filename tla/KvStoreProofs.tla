--------------------------- MODULE KvStoreProofs ---------------------------
(***************************************************************************)
(* For every set of slots and prompts, every schedule of checkpoints, any  *)
(* budget, any number of runs and whatever goes wrong: a request is        *)
(* answered from its own prompt, the schedule of checkpoints is honest,    *)
(* the payloads stay within the budget, nothing is left behind, and with   *)
(* one slot no conversation is replaced before it is persisted.            *)
(*                                                                         *)
(* What makes it inductive: the store under way (OpOK) knows how far it    *)
(* is, what it has checked and where its slot goes on; a slot (SlotOK)     *)
(* is described by the place it is at or will go on from, so that a store  *)
(* in between changes nothing; a cold checkpoint that is pending explains  *)
(* why the schedule is ahead of what is stored.                            *)
(***************************************************************************)
EXTENDS KvStore, SumProofs, SequenceTheorems

-----------------------------------------------------------------------------
(* Prefixes.                                                               *)

LEMMA LenNat ==
    ASSUME NEW t \in Texts
    PROVE  Len(t) \in Nat
BY LenProperties DEF Texts

LEMMA NoTextType == NoText \in Texts /\ Len(NoText) = 0
BY EmptySeq DEF Texts, NoText

LEMMA TakeType ==
    ASSUME NEW t \in Texts, NEW n \in 0..Len(t)
    PROVE  /\ Take(t, n) \in Texts /\ Len(Take(t, n)) = n
           /\ \A i \in 1..n : Take(t, n)[i] = t[i]
<1>1. Len(t) \in Nat /\ \A i \in 1..n : t[i] \in Words
  BY LenNat, ElementOfSeq DEF Texts
<1>2. /\ SubSeq(t, 1, n) \in Seq(Words)
      /\ Len(SubSeq(t, 1, n)) = IF 1 <= n THEN n - 1 + 1 ELSE 0
      /\ \A i \in 1..n - 1 + 1 : SubSeq(t, 1, n)[i] = t[1 + i - 1]
  BY <1>1, SubSeqProperties
<1> QED BY <1>1, <1>2 DEF Take, Texts

LEMMA TakeAll ==
    ASSUME NEW t \in Texts
    PROVE  Take(t, Len(t)) = t
BY SubSeqFull DEF Take, Texts

\* A prefix is the beginning of the longer text.
LEMMA PrefixIs ==
    ASSUME NEW s \in Texts, NEW t \in Texts
    PROVE  IsPrefix(s, t) <=> Len(s) <= Len(t) /\ Take(t, Len(s)) = s
<1>1. SubSeq(s, 1, Len(s)) = s
  BY TakeAll DEF Take
<1> QED BY <1>1 DEF IsPrefix, Take

LEMMA TakeIsPrefix ==
    ASSUME NEW t \in Texts, NEW n \in 0..Len(t)
    PROVE  IsPrefix(Take(t, n), t)
BY TakeType, PrefixIs, LenNat

\* A prefix of the text up to n is one of the text, and a prefix no longer than
\* n one of the text up to n.
LEMMA PrefixOfTake ==
    ASSUME NEW s \in Texts, NEW t \in Texts, NEW n \in 0..Len(t)
    PROVE  /\ IsPrefix(s, Take(t, n)) => IsPrefix(s, t)
           /\ IsPrefix(s, t) /\ Len(s) <= n => IsPrefix(s, Take(t, n))
<1>1. Len(s) \in Nat /\ Len(t) \in Nat /\ Take(t, n) \in Texts /\ Len(Take(t, n)) = n
  BY LenNat, TakeType
<1>2. ASSUME Len(s) <= n
      PROVE  Take(Take(t, n), Len(s)) = Take(t, Len(s))
  <2> DEFINE u == Take(Take(t, n), Len(s))
             v == Take(t, Len(s))
  <2>1. /\ u \in Texts /\ Len(u) = Len(s)
        /\ \A i \in 1..Len(s) : u[i] = Take(t, n)[i]
    BY <1>1, <1>2, TakeType
  <2>2. /\ v \in Texts /\ Len(v) = Len(s)
        /\ \A i \in 1..Len(s) : v[i] = t[i]
    BY <1>1, <1>2, TakeType
  <2>3. \A i \in 1..Len(s) : Take(t, n)[i] = t[i]
    BY <1>1, <1>2, TakeType
  <2> HIDE DEF u, v
  <2>4. u = v
    BY <2>1, <2>2, <2>3, SeqEqual DEF Texts
  <2> QED BY <2>4 DEF u, v
<1> QED BY <1>1, <1>2, PrefixIs

\* One more token keeps a prefix.
LEMMA PrefixOfAppend ==
    ASSUME NEW s \in Texts, NEW t \in Texts, NEW w \in Words
    PROVE  /\ Append(t, w) \in Texts /\ Len(Append(t, w)) = Len(t) + 1
           /\ IsPrefix(t, Append(t, w))
           /\ IsPrefix(s, t) => IsPrefix(s, Append(t, w))
<1> DEFINE u == Append(t, w)
<1>1. /\ u \in Texts /\ Len(u) = Len(t) + 1 /\ Len(t) \in Nat /\ Len(s) \in Nat
      /\ \A i \in 1..Len(t) : u[i] = t[i]
  BY AppendProperties, LenNat DEF Texts
<1> HIDE DEF u
<1>2. Take(u, Len(t)) = t
  <2>1. /\ Take(u, Len(t)) \in Texts /\ Len(Take(u, Len(t))) = Len(t)
        /\ \A i \in 1..Len(t) : Take(u, Len(t))[i] = u[i]
    BY <1>1, TakeType
  <2> QED BY <1>1, <2>1, SeqEqual DEF Texts
<1>3. IsPrefix(t, u)
  BY <1>1, <1>2, PrefixIs
<1>4. IsPrefix(s, t) => IsPrefix(s, u)
  BY <1>1, <1>2, PrefixOfTake
<1> QED BY <1>1, <1>3, <1>4 DEF u

LEMMA PrefixItself ==
    ASSUME NEW t \in Texts
    PROVE  IsPrefix(t, t)
BY LenNat, PrefixIs, TakeAll

LEMMA PrefixTransitive ==
    ASSUME NEW s \in Texts, NEW t \in Texts, NEW u \in Texts, IsPrefix(s, t), IsPrefix(t, u)
    PROVE  IsPrefix(s, u)
<1>1. Len(t) <= Len(u) /\ Take(u, Len(t)) = t /\ Len(t) \in Nat /\ Len(u) \in Nat
  BY PrefixIs, LenNat
<1> QED BY <1>1, PrefixOfTake

\* A prefix and what follows it are the whole.
LEMMA PrefixAndRest ==
    ASSUME NEW s \in Texts, NEW t \in Texts, IsPrefix(s, t)
    PROVE  s \o Drop(t, Len(s)) = t
<1>1. Len(s) <= Len(t) /\ Take(t, Len(s)) = s /\ Len(s) \in Nat /\ Len(t) \in Nat
  BY PrefixIs, LenNat
<1>2. 1 \in 1..Len(t) + 1 /\ Len(s) \in 1 - 1..Len(t) /\ Len(t) \in Len(s)..Len(t)
  BY <1>1
<1>3. SubSeq(t, 1, Len(s)) \o SubSeq(t, Len(s) + 1, Len(t)) = SubSeq(t, 1, Len(t))
  BY <1>2, ConcatAdjacentSubSeq, Zenon DEF Texts
<1> QED BY <1>1, <1>3, TakeAll DEF Take, Drop

-----------------------------------------------------------------------------
(* Sizes.                                                                  *)

Lengths == [t \in Texts |-> Len(t)]

\* The size of the payloads of these texts.
Payload(ts) == SumFunctionOnSet(Lengths, ts)

LEMMA LengthsNat == \A t \in Texts : Lengths[t] = Len(t) /\ Lengths[t] \in Nat
BY LenNat DEF Lengths

\* PayloadsWithinBudget, in terms of one function.
LEMMA PayloadIs ==
    ASSUME NEW ts \in SUBSET Texts, IsFiniteSet(ts)
    PROVE  SumFunction([t \in ts |-> Len(t)]) = Payload(ts)
<1> DEFINE f == [t \in ts |-> Len(t)]
<1>1. \A t \in ts : f[t] = Lengths[t]
  BY LengthsNat
<1>2. DOMAIN f = ts
  OBVIOUS
<1> HIDE DEF f
<1>3. SumFunctionOnSet(f, ts) = SumFunctionOnSet(Lengths, ts)
  BY <1>1, SumSame
<1> QED BY <1>2, <1>3 DEF SumFunction, Payload, f

\* Fewer checkpoints have a smaller payload, and one more adds its text at most.
LEMMA PayloadBounds ==
    ASSUME NEW ts \in SUBSET Texts, IsFiniteSet(ts)
    PROVE  /\ Payload(ts) \in Nat
           /\ \A us \in SUBSET ts : Payload(us) <= Payload(ts)
           /\ \A t \in Texts : Payload(ts \cup {t}) <= Payload(ts) + Len(t)
<1>1. \A t \in Texts : Lengths[t] \in Nat /\ Lengths[t] = Len(t)
  BY LengthsNat
<1>2. Payload(ts) \in Nat
  BY <1>1, SumRemove DEF Payload
<1>3. ASSUME NEW us \in SUBSET ts
      PROVE  Payload(us) <= Payload(ts)
  BY <1>1, SumMonotone DEF Payload
<1>4. ASSUME NEW t \in Texts
      PROVE  Payload(ts \cup {t}) <= Payload(ts) + Len(t)
  <2>1. CASE t \in ts
    <3>1. ts \cup {t} = ts
      BY <2>1
    <3>2. Len(t) \in Nat
      BY <1>1
    <3>3. Payload(ts \cup {t}) = Payload(ts)
      BY <3>1
    <3> QED BY <3>2, <3>3, <1>2
  <2>2. CASE t \notin ts
    <3>1. SumFunctionOnSet(Lengths, ts \cup {t}) = Lengths[t] + SumFunctionOnSet(Lengths, ts)
      BY <1>1, <2>2, SumAdd
    <3>2. Lengths[t] \in Nat /\ Lengths[t] = Len(t)
      BY <1>1
    <3> QED BY <3>1, <3>2, <1>2 DEF Payload
  <2> QED BY <2>1, <2>2
<1> QED BY <1>2, <1>3, <1>4

LEMMA NoPayload == Payload({}) = 0
BY SumEmpty DEF Payload

\* The budget pass counts the payloads, and the maps on top.
LEMMA TotalCovers ==
    ASSUME NEW f, DOMAIN f \in SUBSET Texts, IsFiniteSet(DOMAIN f),
           \A t \in DOMAIN f : f[t].map \in Nat
    PROVE  Total(f) \in Nat /\ Payload(DOMAIN f) <= Total(f)
<1> DEFINE g == [t \in DOMAIN f |-> FileBytes(t, f[t].map)]
           ts == DOMAIN f
<1>1. ASSUME NEW t \in ts
      PROVE  Lengths[t] \in Nat /\ g[t] \in Nat /\ Lengths[t] <= g[t]
  <2>1. Lengths[t] = Len(t) /\ Len(t) \in Nat /\ f[t].map \in Nat
    BY LengthsNat
  <2>2. g[t] = Len(t) + f[t].map
    BY DEF FileBytes
  <2> QED BY <2>1, <2>2
<1>2. DOMAIN g = ts /\ Total(f) = SumFunctionOnSet(g, ts)
  BY DEF Total, SumFunction
<1> HIDE DEF g, ts
<1>3. IsFiniteSet(ts)
  BY DEF ts
<1>4. SumFunctionOnSet(g, ts) \in Nat
  BY <1>1, <1>3, SumRemove
<1>5. SumFunctionOnSet(Lengths, ts) <= SumFunctionOnSet(g, ts)
  BY <1>1, <1>3, SumPointwise
<1> QED BY <1>2, <1>4, <1>5 DEF Payload, ts

\* What a store asks for is at least what the file has.
LEMMA RequiredCovers ==
    ASSUME NEW b \in Nat
    PROVE  Required(b) \in Nat /\ b <= Required(b)
<1>1. b \div 100 \in Nat
  OBVIOUS
<1> QED BY <1>1 DEF Required

LEMMA FitsCovers ==
    ASSUME NEW t \in Texts, NEW m \in Nat, Fits(t, m)
    PROVE  Len(t) <= Budget
<1>1. Len(t) \in Nat /\ FileBytes(t, m) \in Nat /\ Len(t) <= FileBytes(t, m)
  BY LenNat DEF FileBytes
<1>2. Required(FileBytes(t, m)) \in Nat /\ FileBytes(t, m) <= Required(FileBytes(t, m))
  BY <1>1, RequiredCovers
<1> QED BY <1>1, <1>2, KvAssumption DEF Fits

\* The stable length of a text long enough for a checkpoint.
LEMMA StoreLenType ==
    ASSUME NEW n \in Nat, n >= MinTokens
    PROVE  StoreLen(n) \in 1..n
<1>1. MinTokens \in Nat \ {0} /\ Trim \in Nat /\ Align \in Nat
  BY KvAssumption
<1> DEFINE r == IF Align > 0 THEN (n - Trim) % Align ELSE 0
           stable == n - Trim - r
<1>2. r \in Nat
  BY <1>1
<1>3. StoreLen(n) = IF n > MinTokens + Trim /\ stable >= MinTokens THEN stable ELSE n
  BY DEF StoreLen
<1> HIDE DEF r
<1> QED BY <1>1, <1>2, <1>3

\* A checkpoint that is due stays due to a schedule that is not so far.
LEMMA DueEarlier ==
    ASSUME NEW l \in Nat, NEW m \in Nat, l <= m, NEW n \in Nat, ContinuedDue(m, n)
    PROVE  ContinuedDue(l, n)
BY DEF ContinuedDue

LEMMA LargerType ==
    ASSUME NEW m \in Nat, NEW n \in Nat
    PROVE  Larger(m, n) \in Nat /\ m <= Larger(m, n) /\ n <= Larger(m, n)
           /\ (Larger(m, n) = m \/ Larger(m, n) = n)
BY DEF Larger

-----------------------------------------------------------------------------
(* The inductive invariant.                                                *)

OpTypes == [slot : Slots, text : Texts, reason : Reasons, back : PCs \ {"store"},
            stage : {"check", "trailer", "stage", "evict", "write"}, est : 0..MaxMap]

FileTypes == [map : 0..MaxMap, ctx : Contexts]

\* A slot of a process that has not served anything yet.
Blank(s) == /\ tokens[s] = NoText /\ prompt[s] = NoText /\ last[s] = 0 /\ written[s] = 0
            /\ suppressed[s] = -1

ProcessOK ==
    /\ phase \in {"opening", "up", "closing", "down"}
    /\ run \in 1..MaxRuns /\ ctx \in Contexts /\ map \in 0..MaxMap
    /\ \A s \in Slots : pc[s] # "idle" => phase \in {"up", "closing"}
    /\ phase = "down" => \A s \in Slots : Blank(s)

FilesOK ==
    /\ IsFiniteSet(DOMAIN files) /\ DOMAIN files \subseteq Texts
    /\ \A t \in DOMAIN files :
          files[t] \in FileTypes /\ MinTokens <= Len(t) /\ Len(t) <= files[t].ctx
    /\ "unlink" \in Faults \/ Payload(DOMAIN files) <= Budget

\* One leftover per run, and of this run only the file that is being written.
DebrisOK ==
    /\ debris \subseteq Texts \X (1..run)
    /\ \A t \in Texts : <<t, run>> \in debris /\ phase # "down" => op.stage = "write" /\ op.text = t
    /\ \A d, e \in debris : d[2] = e[2] => d = e

\* What a store has checked when it comes to a stage.
OpDisk == op # NoOp =>
    /\ op.stage # "check" => MinTokens <= Len(op.text)
    /\ op.stage = "trailer" => op.text \in DOMAIN files
    /\ op.stage \in {"evict", "write"} => Len(op.text) <= Budget
    /\ op.stage = "write" =>
          "unlink" \in Faults \/ Payload(DOMAIN files) + Len(op.text) <= Budget

\* Why it is made and where its slot goes on.
OpReason ==
    /\ Len(op.text) <= ctx
    /\ op.reason = "cold" =>
          /\ Len(op.text) = cold[op.slot]
          /\ op.back = "gen" \/ (op.back = "sync" /\ cold[op.slot] < Len(prompt[op.slot]))
    /\ op.reason = "continued" =>
          /\ ContinuedDue(last[op.slot], Len(op.text))
          /\ op.back \in {"cold_sync", "sync", "rebuild", "end_cold", "eval"}
    /\ op.reason = "evict" => op.back = "load"
    /\ op.reason = "shutdown" => op.back = "closed"

OpOK ==
    /\ op = NoOp \/ op \in OpTypes
    /\ \A s \in Slots : pc[s] = "store" <=> op # NoOp /\ op.slot = s
    /\ op # NoOp => OpReason

SlotTypes ==
    /\ tokens \in [Slots -> Texts] /\ valid \in [Slots -> BOOLEAN]
    /\ last \in [Slots -> Nat] /\ written \in [Slots -> Nat] /\ suppressed \in [Slots -> Int]
    /\ pc \in [Slots -> PCs]
    /\ asked \in [Slots -> Prompts \cup {NoText}] /\ prompt \in [Slots -> Texts]
    /\ cached \in [Slots -> Nat] /\ cold \in [Slots -> Nat] /\ loaded \in [Slots -> Texts]

\* No length exceeds the context, and the prompt is what was asked, however it
\* was put together.
InContext(s) ==
    /\ Len(tokens[s]) <= ctx /\ last[s] <= ctx /\ written[s] <= ctx
    /\ -1 <= suppressed[s] /\ suppressed[s] <= ctx
    /\ prompt[s] = asked[s] /\ Len(prompt[s]) <= ctx
    /\ cached[s] <= Len(prompt[s]) /\ cold[s] <= Len(prompt[s])

\* What holds at a place of a request.
Course(s) ==
    /\ Place(s) = "eval" => Len(tokens[s]) < ctx
    /\ Place(s) = "load" => cold[s] = 0
    /\ Place(s) \in {"cold_sync", "cold_store"} => 0 < cold[s] /\ cold[s] < Len(prompt[s])
    /\ Place(s) \in {"synced", "end_cold", "gen", "eval", "ended"} =>
          valid[s] /\ IsPrefix(prompt[s], tokens[s])

ColdStoring(s) == op # NoOp /\ op.slot = s /\ op.reason = "cold"

\* Only a cold checkpoint that is pending, or being written, lets the schedule
\* be ahead of what is stored; and no continued one is due where it will be.
Schedule(s) ==
    /\ ColdPending(s) => ~ContinuedDue(last[s], cold[s])
    /\ suppressed[s] >= 0 => ColdPending(s) \/ ColdStoring(s)
    /\ \/ "hangup" \in Faults
       \/ /\ last[s] > written[s] => suppressed[s] >= 0 /\ last[s] = cold[s]
          /\ suppressed[s] <= written[s]

SlotOK(s) == InContext(s) /\ Course(s) /\ Schedule(s)

IInv == /\ ProcessOK /\ FilesOK /\ DebrisOK /\ OpDisk /\ OpOK
        /\ SlotTypes /\ \A s \in Slots : SlotOK(s)

LEMMA ConstantTypes ==
    /\ MinTokens \in Nat \ {0} /\ Budget \in Nat \ {0} /\ MaxRuns \in Nat \ {0} /\ MaxMap \in Nat
    /\ Contexts \subseteq Nat \ {0} /\ Prompts \subseteq Texts \ {NoText} /\ Sampled \subseteq Words
BY KvAssumption DEF Texts, NoText

LEMMA NoOpIsNone ==
    /\ NoOp.stage = "none" /\ NoOp \notin OpTypes
    /\ \A o \in OpTypes : o # NoOp
BY DEF NoOp, OpTypes

LEMMA InitIInv == Init => IInv
<1> SUFFICES ASSUME Init PROVE IInv
  OBVIOUS
<1>t. /\ NoText \in Texts /\ Len(NoText) = 0 /\ ctx \in Nat \ {0} /\ ctx \in Contexts
      /\ MaxRuns \in Nat \ {0} /\ MaxMap \in Nat /\ Budget \in Nat \ {0}
  BY NoTextType, ConstantTypes DEF Init
<1>1. ProcessOK
  BY <1>t DEF Init, ProcessOK
<1>2. FilesOK
  <2>1. DOMAIN files = {}
    BY DEF Init
  <2> QED BY <1>t, <2>1, NoPayload, FS_EmptySet DEF FilesOK
<1>3. DebrisOK
  BY DEF Init, DebrisOK
<1>4. OpDisk /\ OpOK
  BY DEF Init, OpDisk, OpOK
<1>5. SlotTypes
  BY <1>t DEF Init, SlotTypes, PCs
<1>6. ASSUME NEW s \in Slots
      PROVE  SlotOK(s)
  <2>1. /\ Place(s) = "idle" /\ tokens[s] = NoText /\ prompt[s] = NoText /\ asked[s] = NoText
        /\ last[s] = 0 /\ written[s] = 0 /\ cached[s] = 0 /\ cold[s] = 0 /\ suppressed[s] = -1
    BY DEF Init, Place
  <2>2. InContext(s)
    BY <2>1, <1>t DEF InContext
  <2>3. Course(s)
    BY <2>1 DEF Course
  <2>4. Schedule(s)
    BY <2>1 DEF Schedule, ColdPending
  <2> QED BY <2>2, <2>3, <2>4 DEF SlotOK
<1> QED BY <1>1, <1>2, <1>3, <1>4, <1>5, <1>6 DEF IInv

-----------------------------------------------------------------------------
(* What leaves a slot as it was.                                           *)

\* The values of slot s.
Same(s) ==
    /\ tokens'[s] = tokens[s] /\ valid'[s] = valid[s] /\ last'[s] = last[s]
    /\ asked'[s] = asked[s] /\ prompt'[s] = prompt[s] /\ cached'[s] = cached[s]
    /\ cold'[s] = cold[s] /\ suppressed'[s] = suppressed[s] /\ written'[s] = written[s]

LEMMA SlotKept ==
    ASSUME NEW s \in Slots, SlotOK(s), Same(s), ctx' = ctx, Place(s)' = Place(s),
           ColdStoring(s)' <=> ColdStoring(s)
    PROVE  SlotOK(s)'
<1>1. InContext(s)'
  BY DEF SlotOK, InContext, Same
<1>2. Course(s)'
  BY DEF SlotOK, Course, Same
<1>3. ColdPending(s)' <=> ColdPending(s)
  BY DEF Same, ColdPending
<1>4. Schedule(s)'
  BY <1>3 DEF SlotOK, Schedule, Same
<1> QED BY <1>1, <1>2, <1>4 DEF SlotOK

\* All the variables of the slots.
slotVars == <<tokens, valid, rewound, last, pc, asked, prompt, cached, loaded, cold, suppressed,
              written>>

LEMMA AllSame ==
    ASSUME UNCHANGED slotVars, NEW s \in Slots
    PROVE  Same(s) /\ pc'[s] = pc[s]
BY DEF slotVars, Same

\* A store that goes on changes no slot.
LEMMA StageKeeps ==
    ASSUME IInv, op # NoOp, op' \in OpTypes, UNCHANGED slotVars, UNCHANGED <<phase, run, ctx, map>>,
           op'.slot = op.slot, op'.text = op.text, op'.reason = op.reason, op'.back = op.back
    PROVE  ProcessOK' /\ OpOK' /\ SlotTypes' /\ \A s \in Slots : SlotOK(s)'
<1>n. op' # NoOp
  BY NoOpIsNone
<1>1. ProcessOK'
  <2>1. phase # "down"
    BY DEF IInv, OpOK, OpTypes, ProcessOK
  <2> QED BY <2>1 DEF IInv, ProcessOK, slotVars
<1>2. OpOK'
  <2>1. OpReason'
    BY DEF IInv, OpOK, OpReason, slotVars
  <2> QED BY <1>n, <2>1 DEF IInv, OpOK, slotVars
<1>3. SlotTypes'
  BY DEF IInv, SlotTypes, slotVars
<1>4. ASSUME NEW s \in Slots
      PROVE  SlotOK(s)'
  <2>1. Place(s)' = Place(s)
    BY DEF Place, slotVars
  <2>2. ColdStoring(s)' <=> ColdStoring(s)
    BY <1>n DEF ColdStoring
  <2> QED BY <2>1, <2>2, AllSame, SlotKept DEF IInv
<1> QED BY <1>1, <1>2, <1>3, <1>4

\* A slot that is not storing is where its pc says.
LEMMA PlaceIs ==
    ASSUME OpOK, NEW s \in Slots
    PROVE  /\ (op = NoOp \/ op.slot # s) => pc[s] # "store" /\ Place(s) = pc[s] /\ ~ColdStoring(s)
           /\ pc[s] # "store" => Place(s) = pc[s] /\ ~ColdStoring(s)
           /\ op # NoOp => Place(op.slot) = op.back /\ op.slot \in Slots /\ pc[op.slot] = "store"
BY DEF OpOK, Place, ColdStoring, OpTypes

\* What the end of a store does to the schedule of its slot.
LEMMA EndsSchedule ==
    ASSUME IInv, op # NoOp, NEW ok \in BOOLEAN, StoreEnds(ok), NEW s, s = op.slot,
           UNCHANGED <<phase, run, ctx, map, tokens, valid, asked, prompt, cached, loaded, cold>>
    PROVE  /\ s \in Slots /\ op.back \in PCs \ {"store"} /\ pc'[s] = op.back /\ op' = NoOp
           /\ last'[s] \in Nat /\ written'[s] \in Nat /\ suppressed'[s] \in Int
           /\ last'[s] <= ctx /\ written'[s] <= ctx /\ -1 <= suppressed'[s] /\ suppressed'[s] <= ctx
           /\ Schedule(s)'
<1> DEFINE n == Len(op.text)
<1>1. /\ op \in OpTypes /\ OpReason /\ SlotTypes /\ SlotOK(s) /\ s \in Slots
      /\ pc[s] = "store"
  <2>1. op \in OpTypes /\ OpReason /\ SlotTypes
    BY DEF IInv, OpOK
  <2>2. s \in Slots
    BY <2>1 DEF OpTypes
  <2>3. pc[s] = "store" /\ SlotOK(s)
    BY <2>2 DEF IInv, OpOK
  <2> QED BY <2>1, <2>2, <2>3
<1>2. /\ op.text \in Texts /\ op.reason \in {"cold", "continued", "evict", "shutdown"}
      /\ op.back \in PCs \ {"store"}
  <2>1. op.text \in Texts /\ op.back \in PCs \ {"store"}
    BY <1>1 DEF OpTypes
  <2>2. op.reason \in Reasons
    BY <1>1 DEF OpTypes
  <2> QED BY <2>1, <2>2 DEF Reasons
<1>3. /\ n \in Nat /\ n <= ctx /\ ctx \in Nat
      /\ last[s] \in Nat /\ written[s] \in Nat /\ suppressed[s] \in Int /\ cold[s] \in Nat
      /\ last[s] <= ctx /\ written[s] <= ctx /\ -1 <= suppressed[s] /\ suppressed[s] <= ctx
  <2>1. n \in Nat
    BY <1>2, LenNat
  <2>2. n <= ctx
    BY <1>1 DEF OpReason
  <2>3. ctx \in Nat
    BY ConstantTypes DEF IInv, ProcessOK
  <2>4. last[s] \in Nat /\ written[s] \in Nat /\ suppressed[s] \in Int /\ cold[s] \in Nat
    BY <1>1 DEF SlotTypes
  <2> QED BY <1>1, <2>1, <2>2, <2>3, <2>4 DEF SlotOK, InContext
<1>4. /\ pc'[s] = op.back /\ op' = NoOp
      /\ last'[s] = IF op.reason \notin {"cold", "continued"} THEN last[s]
                    ELSE IF ok THEN Larger(last[s], n)
                    ELSE IF op.reason = "cold" THEN Restored(s) ELSE last[s]
      /\ suppressed'[s] = IF op.reason = "cold" THEN -1 ELSE suppressed[s]
      /\ written'[s] = IF ok /\ op.reason \in {"cold", "continued"} THEN Larger(written[s], n)
                       ELSE written[s]
  BY <1>1 DEF StoreEnds, SlotTypes
<1>5. /\ cold'[s] = cold[s] /\ Place(s)' = Place(s) /\ Place(s) = op.back
      /\ (ColdPending(s)' <=> ColdPending(s)) /\ ~ColdStoring(s)'
      /\ ColdStoring(s) <=> op.reason = "cold"
  <2>1. Place(s)' = op.back /\ Place(s) = op.back
    BY <1>1, <1>2, <1>4 DEF Place
  <2>2. cold'[s] = cold[s] /\ (ColdPending(s)' <=> ColdPending(s))
    BY <2>1 DEF ColdPending
  <2>3. ~ColdStoring(s)' /\ (ColdStoring(s) <=> op.reason = "cold")
    BY <1>4 DEF ColdStoring
  <2> QED BY <2>1, <2>2, <2>3
<1>6. op.reason = "cold" => n = cold[s] /\ ~ColdPending(s)
  BY <1>1, <1>5 DEF OpReason, ColdPending
<1>7. Restored(s) = IF suppressed[s] >= 0 /\ last[s] = cold[s] THEN suppressed[s] ELSE last[s]
  BY DEF Restored
<1>8. /\ Larger(last[s], n) \in Nat /\ last[s] <= Larger(last[s], n) /\ n <= Larger(last[s], n)
      /\ (Larger(last[s], n) = last[s] \/ Larger(last[s], n) = n)
      /\ Larger(written[s], n) \in Nat /\ written[s] <= Larger(written[s], n)
      /\ n <= Larger(written[s], n)
      /\ (Larger(written[s], n) = written[s] \/ Larger(written[s], n) = n)
  BY <1>3, LargerType
<1>9. Schedule(s)
  BY <1>1 DEF SlotOK
<1> HIDE DEF n
<1>10. last'[s] \in Nat /\ last'[s] <= ctx
  BY <1>3, <1>4, <1>7, <1>8
<1>11. written'[s] \in Nat /\ written'[s] <= ctx
  BY <1>3, <1>4, <1>8
<1>12. suppressed'[s] \in Int /\ -1 <= suppressed'[s] /\ suppressed'[s] <= ctx
  BY <1>3, <1>4
<1>13. ColdPending(s) => ~ContinuedDue(last'[s], cold[s])
  <2> SUFFICES ASSUME ColdPending(s) PROVE ~ContinuedDue(last'[s], cold[s])
    OBVIOUS
  <2>1. last[s] <= last'[s]
    BY <1>3, <1>4, <1>6, <1>8
  <2>2. ~ContinuedDue(last[s], cold[s])
    BY <1>9 DEF Schedule
  <2> QED BY <1>3, <1>10, <2>1, <2>2, DueEarlier
<1>14. suppressed'[s] >= 0 => ColdPending(s)
  BY <1>4, <1>5, <1>9 DEF Schedule
<1>15. "hangup" \in Faults
       \/ /\ last'[s] > written'[s] => suppressed'[s] >= 0 /\ last'[s] = cold[s]
          /\ suppressed'[s] <= written'[s]
  <2> SUFFICES ASSUME "hangup" \notin Faults
               PROVE  /\ last'[s] > written'[s] => suppressed'[s] >= 0 /\ last'[s] = cold[s]
                      /\ suppressed'[s] <= written'[s]
    OBVIOUS
  <2>1. /\ last[s] > written[s] => suppressed[s] >= 0 /\ last[s] = cold[s]
        /\ suppressed[s] <= written[s]
    BY <1>9 DEF Schedule
  <2>2. CASE op.reason \notin {"cold", "continued"}
    BY <2>1, <2>2, <1>4
  <2>3. CASE op.reason \in {"cold", "continued"} /\ ok
    <3>1. last'[s] = Larger(last[s], n) /\ written'[s] = Larger(written[s], n)
      BY <2>3, <1>4
    <3>2. CASE op.reason = "cold"
      BY <2>1, <3>1, <3>2, <1>3, <1>4, <1>6, <1>8
    <3>3. CASE op.reason # "cold"
      <4>1. suppressed'[s] = suppressed[s]
        BY <3>3, <1>4
      <4> QED BY <2>1, <3>1, <4>1, <1>3, <1>8
    <3> QED BY <3>2, <3>3
  <2>4. CASE op.reason = "cold" /\ ~ok
    <3>1. last'[s] = Restored(s) /\ written'[s] = written[s] /\ suppressed'[s] = -1
      BY <2>4, <1>4
    <3> QED BY <2>1, <3>1, <1>3, <1>7
  <2>5. CASE op.reason = "continued" /\ ~ok
    <3>1. last'[s] = last[s] /\ written'[s] = written[s] /\ suppressed'[s] = suppressed[s]
      BY <2>5, <1>4
    <3> QED BY <2>1, <3>1
  <2> QED BY <2>2, <2>3, <2>4, <2>5
<1>16. Schedule(s)'
  <2>1. ColdPending(s)' => ~ContinuedDue(last'[s], cold'[s])
    BY <1>5, <1>13
  <2>2. suppressed'[s] >= 0 => ColdPending(s)'
    BY <1>5, <1>14
  <2> QED BY <2>1, <2>2, <1>5, <1>15 DEF Schedule
<1> QED BY <1>1, <1>2, <1>4, <1>10, <1>11, <1>12, <1>16

\* A store that ends keeps the rest of the invariant.
LEMMA EndsKeep ==
    ASSUME IInv, op # NoOp, NEW ok \in BOOLEAN, StoreEnds(ok),
           UNCHANGED <<processVars, sessionVars, planVars>>
    PROVE  ProcessOK' /\ OpDisk' /\ OpOK' /\ SlotTypes' /\ \A q \in Slots : SlotOK(q)'
<1> DEFINE s == op.slot
<1>u. UNCHANGED <<phase, run, ctx, map, tokens, valid, asked, prompt, cached, loaded, cold>>
  BY DEF processVars, sessionVars, planVars
<1>1. /\ s \in Slots /\ op.back \in PCs \ {"store"} /\ pc'[s] = op.back /\ op' = NoOp
      /\ last'[s] \in Nat /\ written'[s] \in Nat /\ suppressed'[s] \in Int
      /\ last'[s] <= ctx /\ written'[s] <= ctx /\ -1 <= suppressed'[s] /\ suppressed'[s] <= ctx
      /\ \A q \in {s} : Schedule(q)'
  <2> SUFFICES ASSUME NEW q, q = s
               PROVE  /\ q \in Slots /\ op.back \in PCs \ {"store"} /\ pc'[q] = op.back /\ op' = NoOp
                      /\ last'[q] \in Nat /\ written'[q] \in Nat /\ suppressed'[q] \in Int
                      /\ last'[q] <= ctx /\ written'[q] <= ctx
                      /\ -1 <= suppressed'[q] /\ suppressed'[q] <= ctx
                      /\ Schedule(q)'
    BY Zenon
  <2> QED BY <1>u, EndsSchedule DEF s
<1>2. /\ OpOK /\ SlotTypes /\ pc[s] = "store"
      /\ \A q \in Slots : SlotOK(q) /\ (q # s => pc[q] # "store")
  BY <1>1 DEF IInv, OpOK
<1>3. /\ \E v : pc' = [pc EXCEPT ![s] = v]
      /\ \E v : last' = [last EXCEPT ![s] = v]
      /\ \E v : suppressed' = [suppressed EXCEPT ![s] = v]
      /\ \E v : written' = [written EXCEPT ![s] = v]
  <2>1. suppressed' = [suppressed EXCEPT ![s] = -1] \/ suppressed' = suppressed
    BY DEF StoreEnds
  <2>2. \E v : suppressed' = [suppressed EXCEPT ![s] = v]
    <3>1. CASE suppressed' = suppressed
      <4>1. suppressed' = [suppressed EXCEPT ![s] = suppressed[s]]
        BY <1>2, <3>1 DEF SlotTypes
      <4> QED BY <4>1
    <3> QED BY <2>1, <3>1
  <2>3. /\ \E v : pc' = [pc EXCEPT ![s] = v]
        /\ \E v : last' = [last EXCEPT ![s] = v]
        /\ \E v : written' = [written EXCEPT ![s] = v]
    BY Zenon DEF StoreEnds
  <2> QED BY <2>2, <2>3
<1>4. ASSUME NEW q \in Slots, q # s
      PROVE  Same(q) /\ pc'[q] = pc[q]
  BY <1>3, <1>4, <1>u, <1>2 DEF Same, SlotTypes
<1> HIDE DEF s
<1>5. SlotTypes'
  <2>1. tokens' \in [Slots -> Texts] /\ valid' \in [Slots -> BOOLEAN]
        /\ asked' \in [Slots -> Prompts \cup {NoText}] /\ prompt' \in [Slots -> Texts]
        /\ cached' \in [Slots -> Nat] /\ cold' \in [Slots -> Nat] /\ loaded' \in [Slots -> Texts]
    BY <1>2, <1>u DEF SlotTypes
  <2>2. last' \in [Slots -> Nat] /\ written' \in [Slots -> Nat]
        /\ suppressed' \in [Slots -> Int] /\ pc' \in [Slots -> PCs]
    BY <1>1, <1>2, <1>3 DEF SlotTypes
  <2> QED BY <2>1, <2>2 DEF SlotTypes
<1>6. OpOK' /\ OpDisk'
  <2>1. ASSUME NEW q \in Slots
        PROVE  pc'[q] # "store"
    BY <1>1, <1>2, <1>4
  <2> QED BY <1>1, <2>1 DEF OpOK, OpDisk
<1>7. ProcessOK'
  <2>1. ASSUME NEW q \in Slots, pc'[q] # "idle"
        PROVE  phase \in {"up", "closing"}
    BY <1>1, <1>2, <1>4, <2>1 DEF IInv, ProcessOK
  <2>2. phase # "down"
    BY <1>1, <1>2 DEF IInv, ProcessOK
  <2> QED BY <1>u, <2>1, <2>2 DEF IInv, ProcessOK
<1>8. ASSUME NEW q \in Slots
      PROVE  SlotOK(q)'
  <2>1. CASE q # s
    <3>1. Place(q)' = Place(q)
      BY <1>2, <1>4, <2>1 DEF Place
    <3>2. ~ColdStoring(q)' /\ ~ColdStoring(q)
      BY <1>1, <2>1 DEF ColdStoring, s
    <3> QED BY <1>u, <1>2, <1>4, <2>1, <3>1, <3>2, SlotKept
  <2>2. CASE q = s
    <3>1. SlotOK(q)
      BY <1>2
    <3>2. Place(q) = op.back /\ Place(q)' = op.back
      BY <1>1, <1>2, <2>2 DEF Place
    <3>3. Schedule(q)'
      BY <1>1, <2>2
    <3>4. Course(q)'
      BY <1>u, <3>1, <3>2 DEF SlotOK, Course
    <3>5. InContext(q)'
      BY <1>u, <1>1, <2>2, <3>1 DEF SlotOK, InContext
    <3> QED BY <3>3, <3>4, <3>5 DEF SlotOK
  <2> QED BY <2>1, <2>2
<1> QED BY <1>5, <1>6, <1>7, <1>8

-----------------------------------------------------------------------------
(* The steps of a store.                                                   *)

\* A store is under way only in a running process, with its arguments.
LEMMA StoreRuns ==
    ASSUME IInv, op # NoOp
    PROVE  /\ op \in OpTypes /\ op.slot \in Slots /\ op.text \in Texts /\ Len(op.text) \in Nat
           /\ op.est \in Nat /\ map \in 0..MaxMap /\ map \in Nat /\ phase # "down"
           /\ Len(op.text) <= ctx /\ ctx \in Contexts
           /\ op.stage # "write" => \A t \in Texts : <<t, run>> \notin debris
<1>1. op \in OpTypes
  BY DEF IInv, OpOK
<1>2. op.slot \in Slots /\ op.text \in Texts /\ op.est \in 0..MaxMap
  BY <1>1 DEF OpTypes
<1>3. phase # "down"
  BY <1>2 DEF IInv, OpOK, ProcessOK
<1>4. map \in 0..MaxMap /\ ctx \in Contexts /\ MaxMap \in Nat
  BY ConstantTypes DEF IInv, ProcessOK
<1>5. Len(op.text) <= ctx
  BY DEF IInv, OpOK, OpReason
<1>6. op.stage # "write" => \A t \in Texts : <<t, run>> \notin debris
  BY <1>3 DEF IInv, DebrisOK
<1> QED BY <1>1, <1>2, <1>3, <1>4, <1>5, <1>6, LenNat

LEMMA DebrisKept ==
    ASSUME IInv, op # NoOp, op.stage # "write", UNCHANGED <<debris, run>>
    PROVE  DebrisOK'
BY StoreRuns DEF IInv, DebrisOK

\* Removing a checkpoint, or failing to, keeps the directory.
LEMMA FewerFiles ==
    ASSUME FilesOK, files' = files \/ \E t : files' = Without(files, t)
    PROVE  /\ FilesOK' /\ DOMAIN files' \subseteq DOMAIN files
           /\ Payload(DOMAIN files) \in Nat /\ Payload(DOMAIN files') \in Nat
           /\ Payload(DOMAIN files') <= Payload(DOMAIN files)
<1>1. DOMAIN files' \subseteq DOMAIN files /\ \A t \in DOMAIN files' : files'[t] = files[t]
  BY DEF Without
<1>2. IsFiniteSet(DOMAIN files) /\ DOMAIN files \in SUBSET Texts
  BY DEF FilesOK
<1>3. IsFiniteSet(DOMAIN files') /\ DOMAIN files' \in SUBSET Texts
  BY <1>1, <1>2, FS_Subset
<1>4. /\ Payload(DOMAIN files) \in Nat /\ Payload(DOMAIN files') \in Nat
      /\ Payload(DOMAIN files') <= Payload(DOMAIN files)
  BY <1>1, <1>2, <1>3, PayloadBounds
<1>5. "unlink" \in Faults \/ Payload(DOMAIN files') <= Budget
  BY <1>4, ConstantTypes DEF FilesOK
<1>6. FilesOK'
  BY <1>1, <1>3, <1>5 DEF FilesOK
<1> QED BY <1>1, <1>4, <1>6

\* The map of a checkpoint may change.
LEMMA MapRewritten ==
    ASSUME FilesOK, NEW t \in DOMAIN files, NEW m \in 0..MaxMap,
           files' = [files EXCEPT ![t].map = m]
    PROVE  FilesOK' /\ DOMAIN files' = DOMAIN files
<1>1. DOMAIN files' = DOMAIN files
  OBVIOUS
<1>2. ASSUME NEW u \in DOMAIN files
      PROVE  files'[u] \in FileTypes /\ files'[u].ctx = files[u].ctx
  <2>1. files[u] \in FileTypes
    BY DEF FilesOK
  <2>2. files'[u] = files[u] \/ files'[u] = [files[u] EXCEPT !.map = m]
    OBVIOUS
  <2> QED BY <2>1, <2>2 DEF FileTypes
<1>3. FilesOK'
  BY <1>1, <1>2 DEF FilesOK
<1> QED BY <1>1, <1>3

LEMMA RefusedKeeps == ASSUME IInv, op # NoOp, StoreRefused PROVE IInv'
<1>1. UNCHANGED <<files, debris, processVars, sessionVars, planVars>> /\ StoreEnds(FALSE)
      /\ op.stage # "write"
  BY DEF StoreRefused, Absent, diskVars
<1>2. ProcessOK' /\ OpDisk' /\ OpOK' /\ SlotTypes' /\ \A q \in Slots : SlotOK(q)'
  BY <1>1, EndsKeep
<1>3. DebrisOK'
  BY <1>1, DebrisKept DEF processVars
<1>4. FilesOK'
  BY <1>1 DEF IInv, FilesOK
<1> QED BY <1>2, <1>3, <1>4 DEF IInv

LEMMA ExistingKeeps == ASSUME IInv, op # NoOp, StoreExisting PROVE IInv'
<1>o. op \in OpTypes /\ op.text \in Texts /\ Len(op.text) \in Nat
  BY StoreRuns
<1>1. op.stage = "check" /\ op.text \in DOMAIN files /\ MinTokens <= Len(op.text)
      /\ UNCHANGED <<debris, processVars, sessionVars, planVars>>
  BY <1>o, ConstantTypes DEF StoreExisting, Storable, diskVars
<1>2. DebrisOK'
  BY <1>1, DebrisKept DEF processVars
<1>3. CASE files' = files /\ StoreEnds(TRUE)
  <2>1. ProcessOK' /\ OpDisk' /\ OpOK' /\ SlotTypes' /\ \A q \in Slots : SlotOK(q)'
    BY <1>1, <1>3, EndsKeep
  <2>2. FilesOK'
    BY <1>3 DEF IInv, FilesOK
  <2> QED BY <1>2, <2>1, <2>2 DEF IInv
<1>4. CASE /\ files' = [files EXCEPT ![op.text].map = 0]
           /\ op' = [op EXCEPT !.stage = "trailer"]
           /\ UNCHANGED <<last, pc, suppressed, written>>
  <2>1. op' \in OpTypes /\ op'.slot = op.slot /\ op'.text = op.text /\ op'.reason = op.reason
        /\ op'.back = op.back /\ op'.stage = "trailer"
    BY <1>o, <1>4 DEF OpTypes
  <2>2. UNCHANGED slotVars /\ UNCHANGED <<phase, run, ctx, map>>
    BY <1>1, <1>4 DEF slotVars, processVars, sessionVars, planVars
  <2>3. ProcessOK' /\ OpOK' /\ SlotTypes' /\ \A q \in Slots : SlotOK(q)'
    BY <2>1, <2>2, StageKeeps
  <2>4. FilesOK' /\ DOMAIN files' = DOMAIN files
    <3>1. 0 \in 0..MaxMap
      BY ConstantTypes
    <3>2. FilesOK
      BY DEF IInv
    <3> QED BY <1>1, <1>4, <3>1, <3>2, MapRewritten
  <2>5. OpDisk'
    BY <1>1, <2>1, <2>4 DEF OpDisk
  <2> QED BY <1>2, <2>3, <2>4, <2>5 DEF IInv
<1> QED BY <1>3, <1>4 DEF StoreExisting, diskVars

LEMMA TrailerKeeps == ASSUME IInv, op # NoOp, RewriteTrailer PROVE IInv'
<1>1. op.stage = "trailer" /\ op.text \in DOMAIN files /\ StoreEnds(TRUE)
      /\ UNCHANGED <<debris, processVars, sessionVars, planVars>>
  BY DEF RewriteTrailer, IInv, OpDisk
<1>2. PICK m \in {map} \cup (IF "write" \in Faults THEN 0 .. map ELSE {}) :
          files' = [files EXCEPT ![op.text].map = m]
  BY DEF RewriteTrailer
<1>3. m \in 0..MaxMap
  BY <1>2, StoreRuns, ConstantTypes
<1>4. FilesOK'
  BY <1>1, <1>2, <1>3, MapRewritten DEF IInv
<1>5. DebrisOK'
  BY <1>1, DebrisKept DEF processVars
<1>6. ProcessOK' /\ OpDisk' /\ OpOK' /\ SlotTypes' /\ \A q \in Slots : SlotOK(q)'
  BY <1>1, EndsKeep
<1> QED BY <1>4, <1>5, <1>6 DEF IInv

\* A store that only comes to its next stage.
LEMMA StageIs ==
    ASSUME IInv, op # NoOp, UNCHANGED <<processVars, sessionVars, planVars, last, pc, suppressed, written>>,
           NEW st \in {"check", "trailer", "stage", "evict", "write"}, NEW e \in 0..MaxMap,
           op' = [op EXCEPT !.stage = st, !.est = e] \/ op' = [op EXCEPT !.stage = st]
    PROVE  /\ op' \in OpTypes /\ op'.stage = st /\ op'.text = op.text /\ op'.slot = op.slot
           /\ ProcessOK' /\ OpOK' /\ SlotTypes' /\ \A q \in Slots : SlotOK(q)'
<1>1. op' \in OpTypes /\ op'.slot = op.slot /\ op'.text = op.text /\ op'.reason = op.reason
      /\ op'.back = op.back /\ op'.stage = st
  BY StoreRuns DEF OpTypes
<1>2. UNCHANGED slotVars /\ UNCHANGED <<phase, run, ctx, map>>
  BY DEF slotVars, processVars, sessionVars, planVars
<1>3. ProcessOK' /\ OpOK' /\ SlotTypes' /\ \A q \in Slots : SlotOK(q)'
  BY <1>1, <1>2, StageKeeps
<1> QED BY <1>1, <1>3

LEMMA IncompatibleKeeps == ASSUME IInv, op # NoOp, ReplaceIncompatible PROVE IInv'
<1>1. /\ op.stage = "check" /\ MinTokens <= Len(op.text) /\ files' \in Removed(op.text)
      /\ op' = [op EXCEPT !.stage = "stage"] /\ UNCHANGED debris
      /\ UNCHANGED <<processVars, sessionVars, planVars, last, pc, suppressed, written>>
  BY StoreRuns, ConstantTypes DEF ReplaceIncompatible, Storable
<1>2. 0 \in 0..MaxMap
  BY ConstantTypes
<1>3. /\ op' \in OpTypes /\ op'.stage = "stage" /\ op'.text = op.text
      /\ ProcessOK' /\ OpOK' /\ SlotTypes' /\ \A q \in Slots : SlotOK(q)'
  BY <1>1, <1>2, StageIs
<1>4. files' = files \/ \E t : files' = Without(files, t)
  BY <1>1 DEF Removed
<1>5. FilesOK'
  BY <1>4, FewerFiles DEF IInv
<1>6. DebrisOK'
  BY <1>1, DebrisKept DEF processVars
<1>7. OpDisk'
  BY <1>1, <1>3 DEF OpDisk
<1> QED BY <1>3, <1>5, <1>6, <1>7 DEF IInv

LEMMA StagingKeeps == ASSUME IInv, op # NoOp, Stage PROVE IInv'
<1>1. /\ op.stage # "write" /\ MinTokens <= Len(op.text) /\ Fits(op.text, map)
      /\ op' = [op EXCEPT !.stage = "evict", !.est = map] /\ UNCHANGED <<files, debris>>
      /\ UNCHANGED <<processVars, sessionVars, planVars, last, pc, suppressed, written>>
  BY StoreRuns, ConstantTypes DEF Stage, Absent, Storable, diskVars, IInv, OpDisk
<1>2. map \in 0..MaxMap
  BY StoreRuns
<1>3. /\ op' \in OpTypes /\ op'.stage = "evict" /\ op'.text = op.text
      /\ ProcessOK' /\ OpOK' /\ SlotTypes' /\ \A q \in Slots : SlotOK(q)'
  BY <1>1, <1>2, StageIs
<1>4. Len(op.text) <= Budget
  BY <1>1, StoreRuns, FitsCovers
<1>5. FilesOK'
  BY <1>1 DEF IInv, FilesOK
<1>6. DebrisOK'
  BY <1>1, DebrisKept DEF processVars
<1>7. OpDisk'
  BY <1>1, <1>3, <1>4 DEF OpDisk
<1> QED BY <1>3, <1>5, <1>6, <1>7 DEF IInv

LEMMA EvictKeeps == ASSUME IInv, op # NoOp, Evict PROVE IInv'
<1>1. /\ op.stage = "evict" /\ UNCHANGED <<op, debris>> /\ \E t : files' = Without(files, t)
      /\ UNCHANGED <<processVars, sessionVars, planVars, last, pc, suppressed, written>>
  BY DEF Evict
<1>2. FilesOK'
  BY <1>1, FewerFiles DEF IInv
<1>3. DebrisOK'
  BY <1>1, DebrisKept DEF processVars
<1>4. UNCHANGED slotVars /\ UNCHANGED <<phase, run, ctx, map>>
  BY <1>1 DEF slotVars, processVars, sessionVars, planVars
<1>5. ProcessOK' /\ OpOK' /\ SlotTypes' /\ \A q \in Slots : SlotOK(q)'
  BY <1>1, <1>4, StoreRuns, StageKeeps
<1>6. OpDisk'
  BY <1>1 DEF IInv, OpDisk
<1> QED BY <1>2, <1>3, <1>5, <1>6 DEF IInv

LEMMA NoTemporaryKeeps == ASSUME IInv, op # NoOp, NoTemporary PROVE IInv'
<1>1. op.stage = "evict" /\ StoreEnds(FALSE) /\ UNCHANGED <<files, debris>>
      /\ UNCHANGED <<processVars, sessionVars, planVars>>
  BY DEF NoTemporary, diskVars
<1>2. ProcessOK' /\ OpDisk' /\ OpOK' /\ SlotTypes' /\ \A q \in Slots : SlotOK(q)'
  BY <1>1, EndsKeep
<1>3. DebrisOK'
  BY <1>1, DebrisKept DEF processVars
<1>4. FilesOK'
  BY <1>1 DEF IInv, FilesOK
<1> QED BY <1>2, <1>3, <1>4 DEF IInv

\* The pass is over: there is room for the text.
LEMMA RoomMade ==
    ASSUME IInv, op # NoOp, op.stage = "evict", PassOver(FileBytes(op.text, op.est)),
           "unlink" \notin Faults
    PROVE  Payload(DOMAIN files) + Len(op.text) <= Budget
<1>1. /\ Len(op.text) \in Nat /\ op.est \in Nat /\ Len(op.text) <= Budget /\ Budget \in Nat
  BY StoreRuns, ConstantTypes DEF IInv, OpDisk
<1>2. FileBytes(op.text, op.est) = Len(op.text) + op.est
  BY DEF FileBytes
<1>3. /\ Total(files) \in Nat /\ Payload(DOMAIN files) <= Total(files)
      /\ Payload(DOMAIN files) \in Nat
  <2>1. /\ DOMAIN files \in SUBSET Texts /\ IsFiniteSet(DOMAIN files)
        /\ \A t \in DOMAIN files : files[t] \in FileTypes
    BY DEF IInv, FilesOK
  <2>2. \A t \in DOMAIN files : files[t].map \in Nat
    BY <2>1, ConstantTypes DEF FileTypes
  <2> QED BY <2>1, <2>2, TotalCovers, PayloadBounds
<1>4. CASE DOMAIN files = {}
  BY <1>1, <1>4, NoPayload
<1>5. CASE ~(Total(files) > Budget - FileBytes(op.text, op.est))
  BY <1>1, <1>2, <1>3, <1>5
<1> QED BY <1>4, <1>5 DEF PassOver, MustEvict

LEMMA TemporaryKeeps == ASSUME IInv, op # NoOp, CreateTemporary PROVE IInv'
<1>1. /\ op.stage = "evict" /\ PassOver(FileBytes(op.text, op.est))
      /\ debris' = debris \cup {<<op.text, run>>} /\ op' = [op EXCEPT !.stage = "write"]
      /\ UNCHANGED files
      /\ UNCHANGED <<processVars, sessionVars, planVars, last, pc, suppressed, written>>
  BY DEF CreateTemporary
<1>2. 0 \in 0..MaxMap
  BY ConstantTypes
<1>3. /\ op' \in OpTypes /\ op'.stage = "write" /\ op'.text = op.text
      /\ ProcessOK' /\ OpOK' /\ SlotTypes' /\ \A q \in Slots : SlotOK(q)'
  BY <1>1, <1>2, StageIs
<1>4. FilesOK'
  BY <1>1 DEF IInv, FilesOK
<1>5. OpDisk'
  <2>1. MinTokens <= Len(op.text) /\ Len(op.text) <= Budget
    BY <1>1 DEF IInv, OpDisk
  <2>2. "unlink" \in Faults \/ Payload(DOMAIN files) + Len(op.text) <= Budget
    BY <1>1, RoomMade
  <2> QED BY <1>1, <1>3, <2>1, <2>2 DEF OpDisk
<1>6. DebrisOK'
  <2>1. /\ op.text \in Texts /\ run \in 1..run /\ run' = run /\ phase' = phase
        /\ \A t \in Texts : <<t, run>> \notin debris
    BY <1>1, StoreRuns, ConstantTypes DEF processVars, IInv, ProcessOK
  <2>2. debris' \subseteq Texts \X (1..run')
    BY <1>1, <2>1 DEF IInv, DebrisOK
  <2>3. \A t \in Texts : <<t, run'>> \in debris' => op'.stage = "write" /\ op'.text = t
    BY <1>1, <1>3, <2>1
  <2>4. ASSUME NEW d \in debris', NEW e \in debris', d[2] = e[2]
        PROVE  d = e
    <3>1. \A x \in debris : x[2] # run
      <4> SUFFICES ASSUME NEW x \in debris, x[2] = run PROVE FALSE
        OBVIOUS
      <4>1. x = <<x[1], x[2]>> /\ x[1] \in Texts
        BY DEF IInv, DebrisOK
      <4> QED BY <2>1, <4>1
    <3>2. CASE d \in debris /\ e \in debris
      BY <2>4, <3>2 DEF IInv, DebrisOK
    <3>3. CASE d \in debris /\ e \notin debris
      <4>1. e = <<op.text, run>>
        BY <1>1, <3>3
      <4> QED BY <2>4, <3>1, <3>3, <4>1
    <3>4. CASE d \notin debris /\ e \in debris
      <4>1. d = <<op.text, run>>
        BY <1>1, <3>4
      <4> QED BY <2>4, <3>1, <3>4, <4>1
    <3>5. CASE d \notin debris /\ e \notin debris
      BY <1>1, <3>5
    <3> QED BY <3>2, <3>3, <3>4, <3>5
  <2> QED BY <2>2, <2>3, <2>4 DEF DebrisOK
<1> QED BY <1>3, <1>4, <1>5, <1>6 DEF IInv

\* The temporary file of this run goes, by either name.
LEMMA DebrisCleared ==
    ASSUME IInv, op # NoOp, op.stage = "write", UNCHANGED run,
           debris' = debris \ {<<op.text, run>>}
    PROVE  DebrisOK'
<1>1. \A t \in Texts : <<t, run>> \in debris => t = op.text
  BY StoreRuns DEF IInv, DebrisOK
<1>2. debris' \subseteq debris /\ \A t \in Texts : <<t, run'>> \notin debris'
  BY <1>1
<1> QED BY <1>2 DEF IInv, DebrisOK

LEMMA PublishKeeps == ASSUME IInv, op # NoOp, Publish PROVE IInv'
<1>1. /\ op.stage = "write" /\ files' = With(files, op.text, [map |-> map, ctx |-> ctx])
      /\ debris' = debris \ {<<op.text, run>>} /\ StoreEnds(TRUE)
      /\ UNCHANGED <<processVars, sessionVars, planVars>>
  BY DEF Publish
<1>2. ProcessOK' /\ OpDisk' /\ OpOK' /\ SlotTypes' /\ \A q \in Slots : SlotOK(q)'
  BY <1>1, EndsKeep
<1>3. DebrisOK'
  BY <1>1, DebrisCleared DEF processVars
<1>4. FilesOK'
  <2>1. DOMAIN files' = DOMAIN files \cup {op.text}
    BY <1>1 DEF With
  <2>2. \A t \in DOMAIN files' : files'[t] = IF t = op.text THEN [map |-> map, ctx |-> ctx] ELSE files[t]
    BY <1>1 DEF With
  <2>3. /\ IsFiniteSet(DOMAIN files) /\ DOMAIN files \in SUBSET Texts
        /\ \A t \in DOMAIN files :
              files[t] \in FileTypes /\ MinTokens <= Len(t) /\ Len(t) <= files[t].ctx
        /\ "unlink" \in Faults \/ Payload(DOMAIN files) <= Budget
    BY DEF IInv, FilesOK
  <2>4. /\ op.text \in Texts /\ MinTokens <= Len(op.text) /\ Len(op.text) <= ctx
        /\ [map |-> map, ctx |-> ctx] \in FileTypes
    BY <1>1, StoreRuns DEF IInv, OpDisk, FileTypes
  <2>5. IsFiniteSet(DOMAIN files') /\ DOMAIN files' \subseteq Texts
    BY <2>1, <2>3, <2>4, FS_AddElement
  <2>6. "unlink" \in Faults \/ Payload(DOMAIN files') <= Budget
    <3>1. "unlink" \in Faults \/ Payload(DOMAIN files) + Len(op.text) <= Budget
      BY <1>1 DEF IInv, OpDisk
    <3>2. Payload(DOMAIN files \cup {op.text}) <= Payload(DOMAIN files) + Len(op.text)
      BY <2>3, <2>4, PayloadBounds
    <3>3. Payload(DOMAIN files \cup {op.text}) \in Nat /\ Payload(DOMAIN files) \in Nat
      BY <2>1, <2>3, <2>5, PayloadBounds
    <3> QED BY <2>1, <3>1, <3>2, <3>3, StoreRuns, ConstantTypes
  <2>7. ASSUME NEW t \in DOMAIN files'
        PROVE  files'[t] \in FileTypes /\ MinTokens <= Len(t) /\ Len(t) <= files'[t].ctx
    <3>1. CASE t = op.text
      BY <2>2, <2>4, <3>1
    <3>2. CASE t # op.text
      BY <2>1, <2>2, <2>3, <3>2
    <3> QED BY <3>1, <3>2
  <2> QED BY <2>5, <2>6, <2>7 DEF FilesOK
<1> QED BY <1>2, <1>3, <1>4 DEF IInv

LEMMA WriteFailsKeeps == ASSUME IInv, op # NoOp, WriteFails PROVE IInv'
<1>1. /\ op.stage = "write" /\ debris' = debris \ {<<op.text, run>>} /\ StoreEnds(FALSE)
      /\ UNCHANGED <<files, processVars, sessionVars, planVars>>
  BY DEF WriteFails, AfterFailedWrite
<1>2. ProcessOK' /\ OpDisk' /\ OpOK' /\ SlotTypes' /\ \A q \in Slots : SlotOK(q)'
  BY <1>1, EndsKeep
<1>3. DebrisOK'
  BY <1>1, DebrisCleared DEF processVars
<1>4. FilesOK'
  BY <1>1 DEF IInv, FilesOK
<1> QED BY <1>2, <1>3, <1>4 DEF IInv

LEMMA StoreKeeps == ASSUME IInv, StoreStep PROVE IInv'
<1>1. op.stage \in {"check", "trailer", "stage", "evict", "write"}
  BY DEF StoreStep, StoreRefused, StoreExisting, RewriteTrailer, ReplaceIncompatible, Stage,
         Absent, Evict, NoTemporary, CreateTemporary, Publish, WriteFails
<1>2. op # NoOp
  BY <1>1, NoOpIsNone
<1> QED BY <1>2, RefusedKeeps, ExistingKeeps, TrailerKeeps, IncompatibleKeeps, StagingKeeps,
          EvictKeeps, NoTemporaryKeeps, TemporaryKeeps, PublishKeeps, WriteFailsKeeps
       DEF StoreStep

-----------------------------------------------------------------------------
(* The steps of a request.                                                 *)

\* Of the slots' variables, only the values of slot s change.
OnlySlot(s) ==
    /\ tokens' = [tokens EXCEPT ![s] = tokens'[s]] /\ valid' = [valid EXCEPT ![s] = valid'[s]]
    /\ last' = [last EXCEPT ![s] = last'[s]] /\ pc' = [pc EXCEPT ![s] = pc'[s]]
    /\ asked' = [asked EXCEPT ![s] = asked'[s]] /\ prompt' = [prompt EXCEPT ![s] = prompt'[s]]
    /\ cached' = [cached EXCEPT ![s] = cached'[s]] /\ loaded' = [loaded EXCEPT ![s] = loaded'[s]]
    /\ cold' = [cold EXCEPT ![s] = cold'[s]]
    /\ suppressed' = [suppressed EXCEPT ![s] = suppressed'[s]]
    /\ written' = [written EXCEPT ![s] = written'[s]]

\* The types of the values of slot s.
Typed(s) ==
    /\ tokens[s] \in Texts /\ valid[s] \in BOOLEAN /\ last[s] \in Nat /\ written[s] \in Nat
    /\ suppressed[s] \in Int /\ pc[s] \in PCs /\ asked[s] \in Prompts \cup {NoText}
    /\ prompt[s] \in Texts /\ cached[s] \in Nat /\ cold[s] \in Nat /\ loaded[s] \in Texts

LEMMA TypesKept ==
    ASSUME SlotTypes, NEW s \in Slots, OnlySlot(s), Typed(s)'
    PROVE  /\ SlotTypes'
           /\ \A q \in Slots : q # s => Same(q) /\ pc'[q] = pc[q]
<1>1. SlotTypes'
  BY DEF SlotTypes, OnlySlot, Typed
<1>2. ASSUME NEW q \in Slots, q # s
      PROVE  Same(q) /\ pc'[q] = pc[q]
  BY <1>2 DEF SlotTypes, OnlySlot, Same
<1> QED BY <1>1, <1>2

LEMMA TypesAre ==
    ASSUME SlotTypes, NEW s \in Slots
    PROVE  Typed(s) /\ Len(tokens[s]) \in Nat /\ Len(prompt[s]) \in Nat
BY LenNat DEF SlotTypes, Typed

\* The store that slot s begins, if it begins one.
Begins(s) ==
    \/ op' = NoOp /\ pc'[s] # "store"
    \/ op' \in OpTypes /\ op'.slot = s /\ op'.stage = "check" /\ pc'[s] = "store" /\ OpReason'

\* A step of slot s keeps what it does not touch; the files are looked at
\* separately.
LEMMA RequestKeeps ==
    ASSUME IInv, NEW s \in Slots, OnlySlot(s), Typed(s)', SlotOK(s)',
           UNCHANGED <<phase, run, ctx, map, debris>>, phase \in {"up", "closing"}, FilesOK',
           \/ op = NoOp /\ Begins(s)
           \/ op' = op /\ files' = files /\ pc[s] # "store" /\ pc'[s] # "store"
    PROVE  IInv'
<1>1. /\ SlotTypes' /\ SlotTypes /\ OpOK /\ OpDisk /\ DebrisOK /\ ProcessOK
      /\ \A q \in Slots : SlotOK(q)
      /\ \A q \in Slots : q # s => Same(q) /\ pc'[q] = pc[q]
  BY TypesKept DEF IInv
<1>2. ProcessOK'
  BY <1>1 DEF ProcessOK
<1>3. DebrisOK'
  <2>1. CASE op = NoOp
    BY <1>1, <2>1, NoOpIsNone DEF DebrisOK
  <2>2. CASE op' = op
    BY <1>1, <2>2 DEF DebrisOK
  <2> QED BY <2>1, <2>2
<1>4. OpDisk'
  <2>1. CASE op' = NoOp
    BY <2>1 DEF OpDisk
  <2>2. CASE op = NoOp /\ op' # NoOp
    BY <2>2 DEF OpDisk, Begins
  <2>3. CASE op' = op /\ files' = files
    BY <1>1, <2>3 DEF OpDisk
  <2> QED BY <2>1, <2>2, <2>3
<1>5. OpOK'
  <2>1. CASE op = NoOp
    <3>1. \A q \in Slots : pc[q] # "store"
      BY <1>1, <2>1 DEF OpOK
    <3>2. CASE op' = NoOp /\ pc'[s] # "store"
      BY <1>1, <3>1, <3>2 DEF OpOK
    <3>3. CASE op' # NoOp /\ op' \in OpTypes /\ op'.slot = s /\ pc'[s] = "store" /\ OpReason'
      BY <1>1, <3>1, <3>3 DEF OpOK
    <3>4. \A o \in OpTypes : o # NoOp
      BY NoOpIsNone
    <3> QED BY <2>1, <3>2, <3>3, <3>4 DEF Begins
  <2>2. CASE op' = op /\ pc[s] # "store" /\ pc'[s] # "store"
    <3>1. op # NoOp => op.slot \in Slots /\ op.slot # s
      BY <1>1, <2>2, PlaceIs
    <3>2. op # NoOp => OpReason'
      <4> SUFFICES ASSUME op # NoOp PROVE OpReason'
        OBVIOUS
      <4>1. Same(op.slot)
        BY <1>1, <3>1
      <4> QED BY <1>1, <2>2, <4>1 DEF OpOK, OpReason, Same
    <3> QED BY <1>1, <2>2, <3>2 DEF OpOK
  <2>3. (op = NoOp /\ Begins(s)) \/ (op' = op /\ pc[s] # "store" /\ pc'[s] # "store")
    OBVIOUS
  <2> QED BY <2>1, <2>2, <2>3
<1>6. ASSUME NEW q \in Slots
      PROVE  SlotOK(q)'
  <2>1. CASE q = s
    BY <2>1
  <2>2. CASE q # s
    <3>1. Same(q) /\ pc'[q] = pc[q] /\ SlotOK(q)
      BY <1>1, <2>2
    <3>2. Place(q)' = Place(q) /\ (ColdStoring(q)' <=> ColdStoring(q))
      <4>1. CASE op = NoOp
        <5>1. pc[q] # "store" /\ Place(q) = pc[q] /\ ~ColdStoring(q)
          BY <1>1, <4>1, PlaceIs
        <5>2. Place(q)' = Place(q)
          BY <3>1, <5>1 DEF Place
        <5>3. op' = NoOp \/ op'.slot = s
          BY <4>1 DEF Begins
        <5> QED BY <2>2, <5>1, <5>2, <5>3 DEF ColdStoring
      <4>2. CASE op' = op
        BY <3>1, <4>2 DEF Place, ColdStoring
      <4> QED BY <4>1, <4>2
    <3> QED BY <3>1, <3>2, SlotKept
  <2> QED BY <2>1, <2>2
<1> QED BY <1>1, <1>2, <1>3, <1>4, <1>5, <1>6 DEF IInv

\* What a slot whose worker can step knows.
LEMMA AtSlot ==
    ASSUME IInv, NEW s \in Slots, pc[s] # "store"
    PROVE  /\ Typed(s) /\ Len(tokens[s]) \in Nat /\ Len(prompt[s]) \in Nat
           /\ SlotTypes /\ FilesOK /\ SlotOK(s) /\ InContext(s) /\ Course(s) /\ Schedule(s)
           /\ ctx \in Nat /\ ctx \in Contexts /\ Place(s) = pc[s] /\ ~ColdStoring(s)
           /\ op # NoOp => op \in OpTypes /\ op.slot # s
           /\ pc[s] # "idle" => phase \in {"up", "closing"}
           /\ ~ColdPending(s) => suppressed[s] = -1
           /\ ~ColdPending(s) => "hangup" \in Faults \/ last[s] <= written[s]
<1>1. /\ SlotTypes /\ FilesOK /\ OpOK /\ SlotOK(s) /\ ProcessOK
  BY DEF IInv
<1>2. Typed(s) /\ Len(tokens[s]) \in Nat /\ Len(prompt[s]) \in Nat
  BY <1>1, TypesAre
<1>3. InContext(s) /\ Course(s) /\ Schedule(s)
  BY <1>1 DEF SlotOK
<1>4. ctx \in Nat /\ ctx \in Contexts /\ (pc[s] # "idle" => phase \in {"up", "closing"})
  BY <1>1, ConstantTypes DEF ProcessOK
<1>5. Place(s) = pc[s] /\ ~ColdStoring(s) /\ (op # NoOp => op \in OpTypes /\ op.slot # s)
  BY <1>1, PlaceIs DEF OpOK
<1>6. ASSUME ~ColdPending(s)
      PROVE  suppressed[s] = -1 /\ ("hangup" \in Faults \/ last[s] <= written[s])
  <2>1. ~(suppressed[s] >= 0)
    BY <1>3, <1>5, <1>6 DEF Schedule
  <2>2. suppressed[s] \in Int /\ -1 <= suppressed[s] /\ last[s] \in Nat /\ written[s] \in Nat
    BY <1>2, <1>3 DEF InContext, Typed
  <2>3. "hangup" \in Faults \/ ~(last[s] > written[s])
    BY <1>3, <2>1 DEF Schedule
  <2> QED BY <2>1, <2>2, <2>3
<1> QED BY <1>1, <1>2, <1>3, <1>4, <1>5, <1>6

\* The end of a request, whatever becomes of the session.
LEMMA RequestEnds ==
    ASSUME IInv, NEW s \in Slots, EndRequest(s), pc[s] \notin {"store", "idle"},
           UNCHANGED <<phase, run, ctx, map, debris, op>>,
           FilesOK', op = NoOp \/ files' = files,
           tokens' = [tokens EXCEPT ![s] = tokens'[s]], valid' = [valid EXCEPT ![s] = valid'[s]],
           last' = [last EXCEPT ![s] = last'[s]], written' = [written EXCEPT ![s] = written'[s]],
           tokens'[s] \in Texts, Len(tokens'[s]) <= ctx, valid'[s] \in BOOLEAN,
           last'[s] \in Nat, last'[s] <= ctx, written'[s] \in Nat, written'[s] <= ctx,
           "hangup" \in Faults \/ last'[s] <= written'[s]
    PROVE  IInv'
<1>1. SlotTypes /\ ctx \in Nat /\ phase \in {"up", "closing"} /\ (op # NoOp => op.slot # s)
  BY AtSlot
<1>2. /\ pc'[s] = "idle" /\ asked'[s] = NoText /\ prompt'[s] = NoText /\ loaded'[s] = NoText
      /\ cached'[s] = 0 /\ cold'[s] = 0 /\ suppressed'[s] = -1
  BY <1>1 DEF EndRequest, SlotTypes
<1>3. OnlySlot(s)
  BY <1>2 DEF EndRequest, OnlySlot
<1>4. Typed(s)'
  BY <1>2, NoTextType DEF Typed, PCs
<1>5. SlotOK(s)'
  <2>1. Place(s)' = "idle" /\ ~ColdStoring(s)'
    BY <1>1, <1>2 DEF Place, ColdStoring
  <2>2. ~ColdPending(s)'
    BY <1>2, <2>1 DEF ColdPending
  <2>3. InContext(s)'
    BY <1>1, <1>2, NoTextType DEF InContext
  <2>4. Course(s)'
    BY <2>1 DEF Course
  <2>5. Schedule(s)'
    BY <1>2, <2>2 DEF Schedule
  <2> QED BY <2>3, <2>4, <2>5 DEF SlotOK
<1>6. pc'[s] # "store" /\ pc[s] # "store"
  BY <1>2
<1>7. \/ op = NoOp /\ Begins(s)
      \/ op' = op /\ files' = files /\ pc[s] # "store" /\ pc'[s] # "store"
  BY <1>6 DEF Begins
<1> QED BY <1>1, <1>3, <1>4, <1>5, <1>7, RequestKeeps

LEMMA HangUpKeeps == ASSUME IInv, NEW s \in Slots, HangUp(s) PROVE IInv'
<1>1. /\ "hangup" \in Faults /\ pc[s] = "synced" /\ EndRequest(s)
      /\ UNCHANGED <<files, debris, phase, run, ctx, map, op, tokens, valid, last, written>>
  BY DEF HangUp, diskVars, processVars, sessionVars
<1>2. SlotTypes /\ Typed(s) /\ InContext(s) /\ FilesOK
  BY <1>1, AtSlot
<1>3. FilesOK'
  BY <1>1, <1>2 DEF FilesOK
<1> QED BY <1>1, <1>2, <1>3, RequestEnds DEF Typed, InContext, SlotTypes

LEMMA FinishKeeps == ASSUME IInv, NEW s \in Slots, Finish(s) PROVE IInv'
<1>1. /\ pc[s] \in {"gen", "eval", "ended", "rebuild"} /\ EndRequest(s)
      /\ UNCHANGED <<files, debris, phase, run, ctx, map, op, tokens, valid, last, written>>
  BY DEF Finish, diskVars, processVars, sessionVars
<1>2. SlotTypes /\ Typed(s) /\ InContext(s) /\ FilesOK /\ Place(s) = pc[s]
  BY <1>1, AtSlot
<1>3. "hangup" \in Faults \/ last[s] <= written[s]
  <2>1. ~ColdPending(s)
    BY <1>1, <1>2 DEF ColdPending
  <2> QED BY <1>1, <2>1, AtSlot
<1>4. FilesOK'
  BY <1>1, <1>2 DEF FilesOK
<1> QED BY <1>1, <1>2, <1>3, <1>4, RequestEnds DEF Typed, InContext, SlotTypes

\* An answer that ends with a session that is not what it was.
LEMMA AnswerEnding ==
    ASSUME IInv, NEW s \in Slots, EndRequest(s), pc[s] \in {"gen", "eval", "rebuild"},
           UNCHANGED <<files, debris, phase, run, ctx, map, op, last, written>>,
           valid' = [valid EXCEPT ![s] = FALSE],
           tokens' = [tokens EXCEPT ![s] = NoText] \/ tokens' = tokens
    PROVE  IInv'
<1>1. SlotTypes /\ Typed(s) /\ InContext(s) /\ FilesOK /\ Place(s) = pc[s] /\ ctx \in Nat
  BY AtSlot
<1>2. "hangup" \in Faults \/ last[s] <= written[s]
  <2>1. ~ColdPending(s)
    BY <1>1 DEF ColdPending
  <2> QED BY <2>1, AtSlot
<1>3. FilesOK'
  BY <1>1 DEF FilesOK
<1>4. /\ tokens' = [tokens EXCEPT ![s] = tokens'[s]]
      /\ tokens'[s] \in Texts /\ Len(tokens'[s]) <= ctx
  <2>1. NoText \in Texts /\ Len(NoText) <= ctx
    BY <1>1, NoTextType
  <2>2. tokens[s] \in Texts /\ Len(tokens[s]) <= ctx
    BY <1>1 DEF Typed, InContext
  <2> QED BY <1>1, <2>1, <2>2 DEF SlotTypes
<1>5. valid' = [valid EXCEPT ![s] = valid'[s]] /\ valid'[s] \in BOOLEAN
  BY <1>1 DEF SlotTypes
<1>6. /\ last' = [last EXCEPT ![s] = last'[s]] /\ written' = [written EXCEPT ![s] = written'[s]]
      /\ last'[s] \in Nat /\ last'[s] <= ctx /\ written'[s] \in Nat /\ written'[s] <= ctx
  BY <1>1 DEF SlotTypes, Typed, InContext
<1> QED BY <1>2, <1>3, <1>4, <1>5, <1>6, RequestEnds

LEMMA EvalFailsKeeps == ASSUME IInv, NEW s \in Slots, EvalFails(s) PROVE IInv'
<1>1. /\ pc[s] \in {"eval", "rebuild"} /\ EndRequest(s)
      /\ UNCHANGED <<files, debris, phase, run, ctx, map, op, last, written>>
      /\ valid' = [valid EXCEPT ![s] = FALSE]
      /\ tokens' = [tokens EXCEPT ![s] = NoText] \/ tokens' = tokens
  BY DEF EvalFails, Invalidate, diskVars, processVars
<1> QED BY <1>1, AnswerEnding

LEMMA StopSequenceKeeps == ASSUME IInv, NEW s \in Slots, StopSequence(s) PROVE IInv'
<1>1. /\ pc[s] = "gen" /\ EndRequest(s)
      /\ UNCHANGED <<files, debris, phase, run, ctx, map, op, last, written>>
      /\ valid' = [valid EXCEPT ![s] = FALSE] /\ tokens' = [tokens EXCEPT ![s] = NoText]
  BY DEF StopSequence, Invalidate, diskVars, processVars
<1> QED BY <1>1, AnswerEnding

LEMMA RewindWithoutKeeps == ASSUME IInv, NEW s \in Slots, RewindWithout(s) PROVE IInv'
<1>1. /\ pc[s] = "gen" /\ op = NoOp /\ pc' = [pc EXCEPT ![s] = "ended"]
      /\ UNCHANGED <<files, debris, phase, run, ctx, map, op, tokens, valid, last, asked, prompt,
                     cached, loaded, cold, suppressed, written>>
  BY DEF RewindWithout, diskVars, processVars, planVars
<1>2. /\ SlotTypes /\ Typed(s) /\ InContext(s) /\ Course(s) /\ Schedule(s) /\ FilesOK
      /\ Place(s) = "gen" /\ phase \in {"up", "closing"}
  BY <1>1, AtSlot
<1>3. pc'[s] = "ended"
  BY <1>1, <1>2 DEF SlotTypes
<1>4. OnlySlot(s)
  BY <1>1, <1>2, <1>3 DEF OnlySlot, SlotTypes
<1>5. Typed(s)'
  BY <1>1, <1>2, <1>3 DEF Typed, PCs
<1>6. SlotOK(s)'
  <2>1. Place(s)' = "ended" /\ ~ColdStoring(s)'
    BY <1>1, <1>3 DEF Place, ColdStoring
  <2>2. ~ColdPending(s)' /\ ~ColdPending(s)
    BY <1>2, <2>1 DEF ColdPending
  <2>3. InContext(s)'
    BY <1>1, <1>2 DEF InContext
  <2>4. Course(s)'
    BY <1>1, <1>2, <2>1 DEF Course
  <2>5. Schedule(s)'
    BY <1>1, <1>2, <2>1, <2>2 DEF Schedule, ColdStoring
  <2> QED BY <2>3, <2>4, <2>5 DEF SlotOK
<1>7. FilesOK' /\ Begins(s)
  BY <1>1, <1>2, <1>3 DEF FilesOK, Begins
<1> QED BY <1>1, <1>2, <1>4, <1>5, <1>6, <1>7, RequestKeeps

LEMMA CanonicalizeKeeps == ASSUME IInv, NEW s \in Slots, Canonicalize(s) PROVE IInv'
<1>1. /\ pc[s] \in {"gen", "ended"} /\ op = NoOp /\ pc' = [pc EXCEPT ![s] = "rebuild"]
      /\ UNCHANGED <<debris, phase, run, ctx, map, op, last, loaded, cold, suppressed, written>>
  BY DEF Canonicalize, processVars
<1>2. PICK p \in Prompts :
          /\ IsPrefix(prompt[s], p) /\ Len(p) < ctx
          /\ asked' = [asked EXCEPT ![s] = p] /\ prompt' = [prompt EXCEPT ![s] = p]
          /\ \/ /\ IsPrefix(tokens[s], p)
                /\ cached' = [cached EXCEPT ![s] = Len(p)]
                /\ UNCHANGED <<files, sessionVars>>
             \/ /\ \E t \in Found(p) :
                      Restore(s, t) /\ cached' = [cached EXCEPT ![s] = Len(t)]
                /\ UNCHANGED files
             \/ /\ files' \in {files} \cup UNION {Removed(t) : t \in Found(p)}
                /\ Invalidate(s) /\ cached' = [cached EXCEPT ![s] = 0]
  BY Zenon DEF Canonicalize
<1>3. /\ SlotTypes /\ Typed(s) /\ InContext(s) /\ Course(s) /\ Schedule(s) /\ FilesOK
      /\ Place(s) = pc[s] /\ ctx \in Nat /\ phase \in {"up", "closing"}
      /\ Len(prompt[s]) \in Nat
  BY <1>1, AtSlot
<1>4. p \in Texts /\ Len(p) \in Nat /\ Len(p) <= ctx /\ Len(prompt[s]) <= Len(p)
  <2>1. p \in Texts /\ Len(p) \in Nat
    BY ConstantTypes, LenNat
  <2>2. Len(prompt[s]) <= Len(p)
    BY <1>2, <1>3, <2>1, PrefixIs DEF Typed
  <2> QED BY <1>2, <1>3, <2>1, <2>2
<1>5. /\ pc'[s] = "rebuild" /\ asked'[s] = p /\ prompt'[s] = p
      /\ asked' = [asked EXCEPT ![s] = asked'[s]] /\ prompt' = [prompt EXCEPT ![s] = prompt'[s]]
      /\ pc' = [pc EXCEPT ![s] = pc'[s]]
  BY <1>1, <1>2, <1>3 DEF SlotTypes
<1>6. /\ tokens' = [tokens EXCEPT ![s] = tokens'[s]] /\ valid' = [valid EXCEPT ![s] = valid'[s]]
      /\ tokens'[s] \in Texts /\ Len(tokens'[s]) <= ctx /\ valid'[s] \in BOOLEAN
      /\ cached' = [cached EXCEPT ![s] = cached'[s]]
      /\ cached'[s] \in Nat /\ cached'[s] <= Len(p)
      /\ FilesOK'
  <2>1. CASE cached' = [cached EXCEPT ![s] = Len(p)] /\ UNCHANGED <<files, sessionVars>>
    <3>1. cached'[s] = Len(p) /\ UNCHANGED <<files, tokens, valid>>
      BY <1>3, <2>1 DEF SlotTypes, sessionVars
    <3>2. tokens[s] \in Texts /\ Len(tokens[s]) <= ctx /\ valid[s] \in BOOLEAN
      BY <1>3 DEF Typed, InContext
    <3>3. FilesOK'
      BY <1>3, <3>1 DEF FilesOK
    <3> QED BY <1>3, <1>4, <2>1, <3>1, <3>2, <3>3 DEF SlotTypes
  <2>2. CASE /\ \E t \in Found(p) : Restore(s, t) /\ cached' = [cached EXCEPT ![s] = Len(t)]
             /\ UNCHANGED files
    <3>1. PICK t \in Found(p) :
              /\ tokens' = [tokens EXCEPT ![s] = t] /\ valid' = [valid EXCEPT ![s] = TRUE]
              /\ cached' = [cached EXCEPT ![s] = Len(t)]
      BY <2>2 DEF Restore
    <3>2. t \in DOMAIN files /\ IsPrefix(t, p)
      BY DEF Found, Usable
    <3>3. t \in Texts /\ Len(t) \in Nat
      BY <1>3, <3>2, LenNat DEF FilesOK
    <3>4. Len(t) <= Len(p)
      BY <1>4, <3>2, <3>3, PrefixIs
    <3>5. tokens'[s] = t /\ valid'[s] = TRUE /\ cached'[s] = Len(t)
      BY <1>3, <3>1 DEF SlotTypes
    <3>6. FilesOK'
      BY <1>3, <2>2 DEF FilesOK
    <3>7. Len(t) <= ctx
      BY <1>3, <1>4, <3>3, <3>4
    <3>8. /\ tokens' = [tokens EXCEPT ![s] = tokens'[s]] /\ valid' = [valid EXCEPT ![s] = valid'[s]]
          /\ cached' = [cached EXCEPT ![s] = cached'[s]]
      BY <3>1, <3>5, Zenon
    <3> QED BY <3>3, <3>4, <3>5, <3>6, <3>7, <3>8
  <2>3. CASE /\ files' \in {files} \cup UNION {Removed(t) : t \in Found(p)}
             /\ Invalidate(s) /\ cached' = [cached EXCEPT ![s] = 0]
    <3>1. files' = files \/ \E t : files' = Without(files, t)
      BY <2>3 DEF Removed
    <3>2. FilesOK'
      BY <1>3, <3>1, FewerFiles
    <3>3. /\ tokens' = [tokens EXCEPT ![s] = NoText] /\ valid' = [valid EXCEPT ![s] = FALSE]
      BY <2>3 DEF Invalidate
    <3>4. tokens'[s] = NoText /\ valid'[s] = FALSE /\ cached'[s] = 0
      BY <1>3, <2>3, <3>3 DEF SlotTypes
    <3>5. valid'[s] \in BOOLEAN /\ cached'[s] \in Nat /\ cached'[s] <= Len(p)
      <4>1. 0 \in Nat /\ 0 <= Len(p)
        BY <1>4
      <4>2. valid'[s] \in BOOLEAN
        BY <3>4, Zenon
      <4> QED BY <3>4, <4>1, <4>2, Zenon
    <3>6. tokens'[s] \in Texts /\ Len(tokens'[s]) <= ctx
      BY <1>3, <3>4, NoTextType
    <3>7. /\ tokens' = [tokens EXCEPT ![s] = tokens'[s]] /\ valid' = [valid EXCEPT ![s] = valid'[s]]
          /\ cached' = [cached EXCEPT ![s] = cached'[s]]
      BY <2>3, <3>3, <3>4, Zenon
    <3> QED BY <3>2, <3>5, <3>6, <3>7
  <2> QED BY <1>2, <2>1, <2>2, <2>3
<1>7. OnlySlot(s)
  BY <1>1, <1>3, <1>5, <1>6 DEF OnlySlot, SlotTypes
<1>8. Typed(s)'
  BY <1>1, <1>3, <1>4, <1>5, <1>6 DEF Typed, PCs
<1>9. SlotOK(s)'
  <2>1. Place(s)' = "rebuild" /\ ~ColdStoring(s)'
    BY <1>1, <1>5 DEF Place, ColdStoring
  <2>2. ~ColdPending(s)' /\ ~ColdPending(s)
    BY <1>1, <1>3, <2>1 DEF ColdPending
  <2>3. InContext(s)'
    <3>1. cold[s] \in Nat /\ cold[s] <= Len(prompt[s])
      BY <1>3 DEF Typed, InContext
    <3> QED BY <1>1, <1>3, <1>4, <1>5, <1>6, <3>1 DEF InContext
  <2>4. Course(s)'
    BY <2>1 DEF Course
  <2>5. Schedule(s)'
    BY <1>1, <1>3, <2>1, <2>2, AtSlot DEF Schedule, ColdStoring
  <2> QED BY <2>3, <2>4, <2>5 DEF SlotOK
<1>10. Begins(s)
  BY <1>1, <1>5 DEF Begins
<1> QED BY <1>1, <1>3, <1>6, <1>7, <1>8, <1>9, <1>10, RequestKeeps

LEMMA DiscardKeeps == ASSUME IInv, NEW s \in Slots, Discard(s) PROVE IInv'
<1>1. /\ pc[s] = "discard" /\ op = NoOp /\ EndRequest(s) /\ files' \in Removed(loaded[s])
      /\ UNCHANGED <<debris, phase, run, ctx, map, op>>
      /\ tokens' = [tokens EXCEPT ![s] = NoText] /\ valid' = [valid EXCEPT ![s] = FALSE]
      /\ last' = [last EXCEPT ![s] = 0] /\ written' = [written EXCEPT ![s] = 0]
  BY DEF Discard, Invalidate, processVars
<1>2. SlotTypes /\ FilesOK /\ ctx \in Nat
  BY <1>1, AtSlot
<1>3. tokens'[s] = NoText /\ valid'[s] = FALSE /\ last'[s] = 0 /\ written'[s] = 0
  BY <1>1, <1>2 DEF SlotTypes
<1>4. FilesOK'
  <2>1. files' = files \/ \E t : files' = Without(files, t)
    BY <1>1 DEF Removed
  <2> QED BY <1>2, <2>1, FewerFiles
<1>5. /\ tokens' = [tokens EXCEPT ![s] = tokens'[s]] /\ valid' = [valid EXCEPT ![s] = valid'[s]]
      /\ last' = [last EXCEPT ![s] = last'[s]] /\ written' = [written EXCEPT ![s] = written'[s]]
  BY <1>1, <1>3
<1>6. /\ tokens'[s] \in Texts /\ Len(tokens'[s]) <= ctx /\ valid'[s] \in BOOLEAN
      /\ last'[s] \in Nat /\ last'[s] <= ctx /\ written'[s] \in Nat /\ written'[s] <= ctx
      /\ last'[s] <= written'[s]
  <2>1. tokens'[s] \in Texts /\ Len(tokens'[s]) = 0 /\ valid'[s] \in BOOLEAN
    BY <1>3, NoTextType
  <2>2. 0 <= ctx
    BY <1>2
  <2> QED BY <1>3, <2>1, <2>2
<1> QED BY <1>1, <1>4, <1>5, <1>6, RequestEnds

LEMMA GenerateKeeps == ASSUME IInv, NEW s \in Slots, Generate(s) PROVE IInv'
<1>1. /\ pc[s] \in {"eval", "ended"} /\ op = NoOp /\ Len(tokens[s]) < ctx
      /\ UNCHANGED <<files, debris, phase, run, ctx, map, op, valid, last, asked, prompt, cached,
                     loaded, cold, suppressed, written>>
      /\ pc' = [pc EXCEPT ![s] = "gen"]
  BY DEF Generate, diskVars, processVars, planVars
<1>2. PICK w \in Sampled : tokens' = [tokens EXCEPT ![s] = Append(tokens[s], w)]
  BY DEF Generate
<1>3. /\ SlotTypes /\ Typed(s) /\ InContext(s) /\ Course(s) /\ Schedule(s) /\ FilesOK
      /\ Place(s) = pc[s] /\ ctx \in Nat /\ phase \in {"up", "closing"}
      /\ Len(tokens[s]) \in Nat
  BY <1>1, AtSlot
<1>4. tokens'[s] = Append(tokens[s], w) /\ pc'[s] = "gen" /\ tokens[s] \in Texts /\ prompt[s] \in Texts
  BY <1>1, <1>2, <1>3 DEF SlotTypes
<1>5. /\ tokens'[s] \in Texts /\ Len(tokens'[s]) = Len(tokens[s]) + 1
      /\ IsPrefix(prompt[s], tokens[s]) => IsPrefix(prompt[s], tokens'[s])
  <2>1. w \in Words
    BY <1>2, ConstantTypes
  <2> QED BY <1>4, <2>1, PrefixOfAppend
<1>6. Len(tokens[s]) < ctx /\ valid[s] /\ IsPrefix(prompt[s], tokens[s])
  BY <1>1, <1>3 DEF Course
<1>7. OnlySlot(s) /\ Typed(s)'
  BY <1>1, <1>2, <1>3, <1>4, <1>5 DEF OnlySlot, SlotTypes, Typed, PCs
<1>8. SlotOK(s)'
  <2>1. Place(s)' = "gen" /\ ~ColdStoring(s)'
    BY <1>1, <1>4 DEF Place, ColdStoring
  <2>2. ~ColdPending(s)' /\ ~ColdPending(s)
    BY <1>1, <1>3, <2>1 DEF ColdPending
  <2>3. InContext(s)'
    BY <1>1, <1>3, <1>5, <1>6 DEF InContext
  <2>4. Course(s)'
    BY <1>1, <1>5, <1>6, <2>1 DEF Course
  <2>5. Schedule(s)'
    BY <1>1, <1>3, <2>1, <2>2 DEF Schedule, ColdStoring
  <2> QED BY <2>3, <2>4, <2>5 DEF SlotOK
<1>9. FilesOK'
  BY <1>1, <1>3 DEF FilesOK
<1>10. Begins(s)
  BY <1>1, <1>4 DEF Begins
<1> QED BY <1>1, <1>3, <1>7, <1>8, <1>9, <1>10, RequestKeeps

\* The goal of a sync is the prompt or the part of it before the cold checkpoint.
LEMMA GoalIs ==
    ASSUME IInv, NEW s \in Slots, Syncing(s) \/ pc[s] = "rebuild"
    PROVE  /\ Goal(s) \in Texts /\ Len(Goal(s)) \in Nat /\ Len(Goal(s)) <= Len(prompt[s])
           /\ Len(Goal(s)) <= ctx
           /\ pc[s] # "cold_sync" => Goal(s) = prompt[s]
           /\ pc[s] = "cold_sync" => Len(Goal(s)) = cold[s]
           /\ Kept(s) \in Texts /\ Len(Kept(s)) \in 0..Len(Goal(s)) /\ IsPrefix(Kept(s), Goal(s))
<1>1. pc[s] \in {"cold_sync", "sync", "rebuild"} /\ pc[s] # "store"
  BY DEF Syncing
<1>2. /\ Typed(s) /\ InContext(s) /\ Course(s) /\ Place(s) = pc[s] /\ ctx \in Nat
      /\ Len(prompt[s]) \in Nat
  BY <1>1, AtSlot
<1>3. pc[s] = "cold_sync" => cold[s] \in 0..Len(prompt[s])
  BY <1>2 DEF InContext, Typed
<1>4. /\ pc[s] # "cold_sync" => Goal(s) = prompt[s]
      /\ pc[s] = "cold_sync" => Goal(s) = Take(prompt[s], cold[s])
  BY DEF Goal
<1>5. prompt[s] \in Texts /\ Len(prompt[s]) <= ctx
  BY <1>2 DEF Typed, InContext
<1>6. Goal(s) \in Texts /\ Len(Goal(s)) <= Len(prompt[s]) /\ (pc[s] = "cold_sync" => Len(Goal(s)) = cold[s])
  BY <1>1, <1>2, <1>3, <1>4, <1>5, TakeType
<1>7. Len(Goal(s)) \in Nat
  BY <1>6, LenNat
<1>8. Kept(s) \in Texts /\ Len(Kept(s)) \in 0..Len(Goal(s)) /\ IsPrefix(Kept(s), Goal(s))
  <2>1. NoText \in Texts /\ Len(NoText) = 0 /\ IsPrefix(NoText, Goal(s))
    <3>1. NoText \in Texts /\ Len(NoText) = 0
      BY NoTextType
    <3>2. 0 \in 0..Len(Goal(s))
      BY <1>7
    <3>3. Take(Goal(s), 0) \in Texts /\ Len(Take(Goal(s), 0)) = 0
      BY <1>6, <3>2, TakeType
    <3>4. Take(Goal(s), 0) = NoText
      BY <3>1, <3>3, SeqEqual DEF Texts
    <3> QED BY <1>6, <1>7, <3>1, <3>4, PrefixIs
  <2>2. CASE HasPayload(s) /\ IsPrefix(tokens[s], Goal(s))
    <3>1. tokens[s] \in Texts /\ Kept(s) = tokens[s]
      BY <1>2, <2>2 DEF Typed, Kept
    <3>2. Len(tokens[s]) \in Nat /\ Len(tokens[s]) <= Len(Goal(s))
      BY <1>6, <2>2, <3>1, PrefixIs, LenNat
    <3> QED BY <1>7, <2>2, <3>1, <3>2
  <2>3. CASE ~(HasPayload(s) /\ IsPrefix(tokens[s], Goal(s)))
    <3>1. Kept(s) = NoText
      BY <2>3 DEF Kept
    <3> QED BY <1>7, <2>1, <3>1
  <2> QED BY <2>2, <2>3
<1> QED BY <1>2, <1>4, <1>5, <1>6, <1>7, <1>8

LEMMA ChunkKeeps == ASSUME IInv, NEW s \in Slots, PrefillChunk(s) PROVE IInv'
<1>1. /\ Syncing(s) \/ pc[s] = "rebuild"
      /\ pc[s] \in {"cold_sync", "sync", "rebuild"} /\ op = NoOp
      /\ UNCHANGED <<files, debris, phase, run, ctx, map, last, asked, prompt, cached, loaded,
                     cold, suppressed, written>>
      /\ valid' = [valid EXCEPT ![s] = TRUE]
  BY DEF PrefillChunk, Syncing, diskVars, processVars, planVars
<1>2. PICK n \in Len(Kept(s)) + 1 .. Len(Goal(s)) :
          /\ tokens' = [tokens EXCEPT ![s] = Take(Goal(s), n)]
          /\ \/ n > cached[s] /\ ContinuedDue(last[s], n)
                /\ BeginStore(s, Take(Goal(s), n), "continued", pc[s])
             \/ UNCHANGED <<op, pc>>
  BY Zenon DEF PrefillChunk
<1>3. /\ SlotTypes /\ Typed(s) /\ InContext(s) /\ Course(s) /\ Schedule(s) /\ FilesOK
      /\ Place(s) = pc[s] /\ ctx \in Nat /\ phase \in {"up", "closing"} /\ ~ColdStoring(s)
  BY <1>1, AtSlot
<1>4. /\ Goal(s) \in Texts /\ n \in 0..Len(Goal(s)) /\ n <= ctx /\ n \in Nat
  <2>1. Goal(s) \in Texts /\ Len(Goal(s)) \in Nat /\ Len(Goal(s)) <= ctx /\ Len(Kept(s)) \in Nat
    BY <1>1, GoalIs
  <2> QED BY <1>2, <1>3, <2>1
<1>5. /\ tokens'[s] = Take(Goal(s), n) /\ tokens'[s] \in Texts /\ Len(tokens'[s]) = n
      /\ valid'[s] = TRUE
  BY <1>1, <1>2, <1>3, <1>4, TakeType DEF SlotTypes
<1>6. /\ pc' = [pc EXCEPT ![s] = pc'[s]] /\ pc'[s] \in PCs /\ Place(s)' = pc[s] /\ ~ColdStoring(s)'
      /\ Begins(s)
  <2>1. CASE UNCHANGED <<op, pc>>
    BY <1>1, <1>3, <2>1 DEF SlotTypes, Place, ColdStoring, Begins
  <2>2. CASE /\ ContinuedDue(last[s], n) /\ BeginStore(s, Take(Goal(s), n), "continued", pc[s])
    <3>1. /\ op' = StoreOp(s, Take(Goal(s), n), "continued", pc[s])
          /\ pc' = [pc EXCEPT ![s] = "store"] /\ pc'[s] = "store"
      BY <1>3, <2>2 DEF BeginStore, SlotTypes
    <3>2. /\ op'.slot = s /\ op'.text = Take(Goal(s), n) /\ op'.reason = "continued"
          /\ op'.back = pc[s] /\ op'.stage = "check" /\ op'.est = 0
      BY <3>1 DEF StoreOp
    <3>3. op' \in OpTypes
      BY <1>1, <1>5, <3>1, ConstantTypes DEF StoreOp, OpTypes, Reasons, PCs
    <3>4. OpReason'
      BY <1>1, <1>4, <1>5, <2>2, <3>2 DEF OpReason
    <3> QED BY <3>1, <3>2, <3>3, <3>4 DEF Place, ColdStoring, Begins, PCs
  <2> QED BY <1>2, <2>1, <2>2
<1>7. OnlySlot(s)
  BY <1>1, <1>2, <1>3, <1>5, <1>6 DEF OnlySlot, SlotTypes
<1>8. Typed(s)'
  BY <1>1, <1>3, <1>5, <1>6 DEF Typed
<1>9. SlotOK(s)'
  <2>1. ColdPending(s)' <=> ColdPending(s)
    BY <1>1, <1>3, <1>6 DEF ColdPending
  <2>2. InContext(s)'
    BY <1>1, <1>3, <1>4, <1>5 DEF InContext
  <2>3. Course(s)'
    BY <1>1, <1>3, <1>6 DEF Course
  <2>4. Schedule(s)'
    BY <1>1, <1>3, <2>1 DEF Schedule
  <2> QED BY <2>2, <2>3, <2>4 DEF SlotOK
<1>10. FilesOK'
  BY <1>1, <1>3 DEF FilesOK
<1> QED BY <1>1, <1>3, <1>6, <1>7, <1>8, <1>9, <1>10, RequestKeeps

LEMMA SyncDoneKeeps == ASSUME IInv, NEW s \in Slots, SyncDone(s) PROVE IInv'
<1>1. /\ Syncing(s) /\ pc[s] \in {"cold_sync", "sync"} /\ op = NoOp
      /\ UNCHANGED <<files, debris, phase, run, ctx, map, op, tokens, valid, last, asked, prompt,
                     cached, loaded, cold, suppressed, written>>
      /\ valid[s] /\ tokens[s] = Goal(s)
      /\ pc' = [pc EXCEPT ![s] = IF pc[s] = "cold_sync" THEN "cold_store" ELSE "synced"]
  BY DEF SyncDone, HasPayload, Syncing, diskVars, processVars, sessionVars, planVars
<1>2. /\ SlotTypes /\ Typed(s) /\ InContext(s) /\ Course(s) /\ Schedule(s) /\ FilesOK
      /\ Place(s) = pc[s] /\ ctx \in Nat /\ phase \in {"up", "closing"} /\ ~ColdStoring(s)
  BY <1>1, AtSlot
<1>3. pc'[s] = IF pc[s] = "cold_sync" THEN "cold_store" ELSE "synced"
  BY <1>1, <1>2 DEF SlotTypes
<1>4. OnlySlot(s) /\ Typed(s)'
  <2>1. OnlySlot(s)
    BY <1>1, <1>2, <1>3 DEF OnlySlot, SlotTypes
  <2>2. Typed(s)'
    BY <1>1, <1>2, <1>3 DEF Typed, PCs
  <2> QED BY <2>1, <2>2
<1>5. SlotOK(s)'
  <2>1. Place(s)' = pc'[s] /\ ~ColdStoring(s)'
    BY <1>1, <1>3 DEF Place, ColdStoring
  <2>2. ColdPending(s)' <=> ColdPending(s)
    BY <1>1, <1>2, <1>3, <2>1 DEF ColdPending
  <2>3. InContext(s)'
    BY <1>1, <1>2 DEF InContext
  <2>4. pc[s] = "sync" => IsPrefix(prompt[s], tokens[s])
    BY <1>1, <1>2, GoalIs, PrefixItself DEF Typed
  <2>5. Course(s)'
    BY <1>1, <1>2, <1>3, <2>1, <2>4 DEF Course
  <2>6. Schedule(s)'
    BY <1>1, <1>2, <2>1, <2>2 DEF Schedule
  <2> QED BY <2>3, <2>5, <2>6 DEF SlotOK
<1>6. FilesOK' /\ Begins(s)
  BY <1>1, <1>2, <1>3 DEF FilesOK, Begins
<1> QED BY <1>1, <1>2, <1>4, <1>5, <1>6, RequestKeeps

\* Where the schedule stands after a failed prompt.
LEMMA RestoredIs ==
    ASSUME IInv, NEW s \in Slots, pc[s] # "store"
    PROVE  /\ Restored(s) \in Nat /\ Restored(s) <= ctx
           /\ "hangup" \in Faults \/ Restored(s) <= written[s]
<1>1. /\ Typed(s) /\ InContext(s) /\ Schedule(s) /\ ctx \in Nat
  BY AtSlot
<1>2. /\ last[s] \in Nat /\ suppressed[s] \in Int /\ written[s] \in Nat /\ last[s] <= ctx
      /\ suppressed[s] <= ctx
  BY <1>1 DEF Typed, InContext
<1>3. "hangup" \in Faults
      \/ /\ last[s] > written[s] => suppressed[s] >= 0 /\ last[s] = cold[s]
         /\ suppressed[s] <= written[s]
  BY <1>1 DEF Schedule
<1>4. Restored(s) = IF suppressed[s] >= 0 /\ last[s] = cold[s] THEN suppressed[s] ELSE last[s]
  BY DEF Restored
<1> QED BY <1>2, <1>3, <1>4

LEMMA SyncFailsKeeps == ASSUME IInv, NEW s \in Slots, SyncFails(s) PROVE IInv'
<1>1. /\ Syncing(s) /\ pc[s] \in {"cold_sync", "sync"} /\ op = NoOp
      /\ UNCHANGED <<files, debris, phase, run, ctx, map, op, written>>
      /\ last' = [last EXCEPT ![s] = Restored(s)]
  BY DEF SyncFails, Syncing, diskVars, processVars
<1>2. /\ SlotTypes /\ Typed(s) /\ InContext(s) /\ FilesOK
      /\ ctx \in Nat /\ phase \in {"up", "closing"}
  BY <1>1, AtSlot
<1>3. /\ tokens' = [tokens EXCEPT ![s] = tokens'[s]] /\ valid' = [valid EXCEPT ![s] = valid'[s]]
      /\ tokens'[s] \in Texts /\ Len(tokens'[s]) <= ctx /\ valid'[s] \in BOOLEAN
  <2>g. /\ Goal(s) \in Texts /\ Len(Goal(s)) \in Nat /\ Len(Goal(s)) <= ctx
        /\ Kept(s) \in Texts /\ Len(Kept(s)) \in 0..Len(Goal(s))
    BY <1>1, GoalIs
  <2>1. CASE UNCHANGED sessionVars
    BY <1>2, <2>1 DEF sessionVars, SlotTypes, InContext
  <2>2. CASE \E n \in Len(Kept(s)) .. Len(Goal(s)) :
                /\ tokens' = [tokens EXCEPT ![s] = Take(Goal(s), n)]
                /\ valid' = [valid EXCEPT ![s] = n > 0]
    <3>1. PICK n \in Len(Kept(s)) .. Len(Goal(s)) :
                /\ tokens' = [tokens EXCEPT ![s] = Take(Goal(s), n)]
                /\ valid' = [valid EXCEPT ![s] = n > 0]
      BY <2>2
    <3>2. n \in 0..Len(Goal(s)) /\ n <= ctx /\ (n > 0) \in BOOLEAN
      BY <1>2, <2>g
    <3>3. Take(Goal(s), n) \in Texts /\ Len(Take(Goal(s), n)) = n
      BY <2>g, <3>2, TakeType
    <3>4. tokens'[s] = Take(Goal(s), n) /\ tokens' = [tokens EXCEPT ![s] = tokens'[s]]
      BY <1>2, <3>1 DEF SlotTypes
    <3>5. valid'[s] \in BOOLEAN /\ valid' = [valid EXCEPT ![s] = valid'[s]]
      BY <1>2, <3>1, <3>2 DEF SlotTypes
    <3> QED BY <3>2, <3>3, <3>4, <3>5
  <2>3. CASE tokens' = [tokens EXCEPT ![s] = Kept(s)] /\ valid' = [valid EXCEPT ![s] = FALSE]
    <3>1. tokens'[s] = Kept(s) /\ valid'[s] = FALSE
      BY <1>2, <2>3 DEF SlotTypes
    <3>2. Len(Kept(s)) <= ctx
      BY <1>2, <2>g
    <3> QED BY <2>3, <2>g, <3>1, <3>2
  <2> QED BY <2>1, <2>2, <2>3 DEF SyncFails
<1>4. /\ last'[s] = Restored(s) /\ last'[s] \in Nat /\ last'[s] <= ctx
      /\ "hangup" \in Faults \/ last'[s] <= written[s]
  BY <1>1, <1>2, RestoredIs DEF SlotTypes
<1>5. FilesOK' /\ written'[s] \in Nat /\ written'[s] <= ctx
  BY <1>1, <1>2 DEF FilesOK, Typed, InContext
<1>6. CASE EndRequest(s)
  <2>1. /\ last' = [last EXCEPT ![s] = last'[s]] /\ written' = [written EXCEPT ![s] = written'[s]]
    BY <1>1, <1>2, <1>4 DEF SlotTypes
  <2>2. "hangup" \in Faults \/ last'[s] <= written'[s]
    BY <1>1, <1>4
  <2> QED BY <1>1, <1>3, <1>4, <1>5, <1>6, <2>1, <2>2, RequestEnds
<1>7. CASE /\ pc' = [pc EXCEPT ![s] = "discard"] /\ suppressed' = [suppressed EXCEPT ![s] = -1]
           /\ UNCHANGED planVars
  <2>1. pc'[s] = "discard" /\ suppressed'[s] = -1
    BY <1>2, <1>7 DEF SlotTypes
  <2>u. UNCHANGED <<asked, prompt, cached, loaded, cold>>
    BY <1>7 DEF planVars
  <2>2. OnlySlot(s)
    BY <1>1, <1>2, <1>3, <1>4, <1>7, <2>1, <2>u DEF OnlySlot, SlotTypes
  <2>3. Typed(s)'
    BY <1>1, <1>2, <1>3, <1>4, <2>1, <2>u DEF Typed, PCs
  <2>4. SlotOK(s)'
    <3>1. Place(s)' = "discard" /\ ~ColdStoring(s)'
      BY <1>1, <2>1 DEF Place, ColdStoring
    <3>2. ~ColdPending(s)'
      BY <3>1 DEF ColdPending
    <3>3. InContext(s)'
      BY <1>1, <1>2, <1>3, <1>4, <2>1, <2>u DEF InContext
    <3>4. Course(s)'
      BY <3>1 DEF Course
    <3>5. Schedule(s)'
      <4>1. /\ "hangup" \in Faults \/ last'[s] <= written'[s]
            /\ last'[s] \in Nat /\ written'[s] \in Nat
        BY <1>1, <1>4, <1>5
      <4> QED BY <2>1, <3>2, <4>1 DEF Schedule
    <3> QED BY <3>3, <3>4, <3>5 DEF SlotOK
  <2>5. Begins(s)
    BY <1>1, <2>1 DEF Begins
  <2> QED BY <1>1, <1>2, <1>5, <2>2, <2>3, <2>4, <2>5, RequestKeeps
<1> QED BY <1>6, <1>7 DEF SyncFails

\* A slot that does not change its session, but begins a store or goes on.
LEMMA StoreBegins ==
    ASSUME IInv, NEW s \in Slots, op = NoOp, pc[s] # "store", phase \in {"up", "closing"},
           UNCHANGED <<files, debris, phase, run, ctx, map, tokens, valid, last, asked, prompt,
                       cached, loaded, cold, suppressed, written>>,
           NEW t \in Texts, NEW why \in Reasons, NEW back \in PCs \ {"store"},
           \/ BeginStore(s, t, why, back)
           \/ pc' = [pc EXCEPT ![s] = back] /\ op' = op
    PROVE  /\ OnlySlot(s) /\ Typed(s)' /\ FilesOK' /\ InContext(s)' /\ Place(s)' = back
           /\ op' # NoOp => /\ BeginStore(s, t, why, back) /\ op'.slot = s /\ op'.text = t
                            /\ op'.reason = why /\ op'.back = back
                            /\ OpReason' => Begins(s)
           /\ op' = NoOp => Begins(s) /\ ~ColdStoring(s)'
<1>1. SlotTypes /\ Typed(s) /\ FilesOK /\ InContext(s)
  BY AtSlot
<1>2. FilesOK' /\ InContext(s)'
  BY <1>1 DEF FilesOK, InContext
<1>3. CASE pc' = [pc EXCEPT ![s] = back] /\ op' = op
  <2>1. pc'[s] = back /\ op' = NoOp
    BY <1>1, <1>3 DEF SlotTypes
  <2>2. OnlySlot(s)
    BY <1>1, <1>3, <2>1 DEF SlotTypes, OnlySlot
  <2>3. Typed(s)'
    BY <1>1, <2>1 DEF Typed
  <2>4. Place(s)' = back /\ ~ColdStoring(s)' /\ Begins(s)
    BY <2>1 DEF Place, ColdStoring, Begins
  <2> QED BY <1>2, <2>1, <2>2, <2>3, <2>4
<1>4. CASE BeginStore(s, t, why, back)
  <2>1. /\ op' = StoreOp(s, t, why, back) /\ pc' = [pc EXCEPT ![s] = "store"] /\ pc'[s] = "store"
    BY <1>1, <1>4 DEF BeginStore, SlotTypes
  <2>2. /\ op'.slot = s /\ op'.text = t /\ op'.reason = why /\ op'.back = back
        /\ op'.stage = "check" /\ op'.est = 0
    BY <2>1 DEF StoreOp
  <2>3. op' \in OpTypes /\ op' # NoOp
    <3>1. op' \in OpTypes
      BY <2>1, ConstantTypes DEF StoreOp, OpTypes
    <3> QED BY <3>1, NoOpIsNone
  <2>4. OnlySlot(s)
    BY <1>1, <2>1 DEF SlotTypes, OnlySlot
  <2>5. Typed(s)'
    BY <1>1, <2>1 DEF Typed, PCs
  <2>6. Place(s)' = back /\ (OpReason' => Begins(s))
    BY <2>1, <2>2, <2>3 DEF Place, Begins
  <2> QED BY <1>2, <1>4, <2>2, <2>3, <2>4, <2>5, <2>6
<1> QED BY <1>3, <1>4

LEMMA ColdStoreKeeps == ASSUME IInv, NEW s \in Slots, ColdStore(s) PROVE IInv'
<1>1. /\ pc[s] \in {"cold_store", "end_cold"} /\ op = NoOp
      /\ UNCHANGED <<files, debris, phase, run, ctx, map, tokens, valid, last, asked, prompt,
                     cached, loaded, cold, suppressed, written>>
  BY DEF ColdStore, diskVars, processVars, sessionVars, planVars
<1>2. /\ Typed(s) /\ InContext(s) /\ Course(s) /\ Schedule(s) /\ phase \in {"up", "closing"}
      /\ Place(s) = pc[s] /\ Len(prompt[s]) \in Nat /\ ~ColdStoring(s) /\ ctx \in Nat
  BY <1>1, AtSlot
<1> DEFINE back == IF pc[s] = "cold_store" THEN "sync" ELSE "gen"
           t == Take(prompt[s], cold[s])
<1>3. /\ t \in Texts /\ Len(t) = cold[s] /\ cold[s] <= ctx /\ back \in PCs \ {"store"}
      /\ "cold" \in Reasons /\ pc[s] # "store"
  <2>1. prompt[s] \in Texts /\ cold[s] \in 0..Len(prompt[s]) /\ cold[s] <= ctx
    BY <1>2 DEF Typed, InContext
  <2>2. back \in PCs \ {"store"} /\ "cold" \in Reasons
    BY DEF PCs, Reasons
  <2> QED BY <1>1, <2>1, <2>2, TakeType
<1>4. \/ BeginStore(s, t, "cold", back) /\ (pc[s] = "cold_store" \/ cold[s] = Len(prompt[s]))
      \/ /\ pc' = [pc EXCEPT ![s] = back] /\ op' = op
         /\ pc[s] = "end_cold" /\ cold[s] # Len(prompt[s])
  BY <1>1 DEF ColdStore
<1> HIDE DEF t, back
<1>5. /\ OnlySlot(s) /\ Typed(s)' /\ FilesOK' /\ InContext(s)' /\ Place(s)' = back
      /\ op' # NoOp => /\ BeginStore(s, t, "cold", back) /\ op'.slot = s /\ op'.text = t
                       /\ op'.reason = "cold" /\ op'.back = back
                       /\ OpReason' => Begins(s)
      /\ op' = NoOp => Begins(s) /\ ~ColdStoring(s)'
  BY <1>1, <1>2, <1>3, <1>4, StoreBegins
<1>6. Course(s)'
  <2>1. back = "gen" => pc[s] = "end_cold"
    BY <1>1 DEF back
  <2>2. back \in {"sync", "gen"}
    BY DEF back
  <2> QED BY <1>1, <1>2, <1>5, <2>1, <2>2 DEF Course
<1>7. ~ColdPending(s)'
  <2>1. back = "sync" => cold[s] < Len(prompt[s])
    BY <1>1, <1>2 DEF back, Course
  <2>2. back \in {"sync", "gen"} /\ cold[s] \in Nat
    BY <1>2 DEF back, Typed
  <2> QED BY <1>1, <1>2, <1>5, <2>1, <2>2 DEF ColdPending
<1>8. CASE op' # NoOp
  <2>1. OpReason'
    <3>1. op'.back = "gen" \/ (op'.back = "sync" /\ cold[s] < Len(prompt[s]))
      BY <1>1, <1>2, <1>5, <1>8 DEF back, Course
    <3> QED BY <1>1, <1>3, <1>5, <1>8, <3>1 DEF OpReason
  <2>2. ColdStoring(s)'
    BY <1>5, <1>8 DEF ColdStoring
  <2>3. Schedule(s)'
    BY <1>1, <1>2, <1>7, <2>2 DEF Schedule
  <2> QED BY <1>1, <1>2, <1>5, <1>6, <1>8, <2>1, <2>3, RequestKeeps DEF SlotOK
<1>9. CASE op' = NoOp
  <2>1. pc[s] = "end_cold" /\ cold[s] # Len(prompt[s])
    <3>1. \A o \in OpTypes : o # NoOp
      BY NoOpIsNone
    <3>2. ~BeginStore(s, t, "cold", back)
      <4> SUFFICES ASSUME BeginStore(s, t, "cold", back) PROVE FALSE
        OBVIOUS
      <4>1. op'.stage = "check"
        BY DEF BeginStore, StoreOp
      <4> QED BY <1>9, <4>1, NoOpIsNone
    <3> QED BY <1>4, <3>2
  <2>2. ~ColdPending(s)
    BY <1>2, <2>1 DEF ColdPending
  <2>3. Schedule(s)'
    BY <1>1, <1>2, <1>7, <2>2 DEF Schedule
  <2> QED BY <1>1, <1>2, <1>5, <1>6, <1>9, <2>3, RequestKeeps DEF SlotOK
<1> QED BY <1>8, <1>9

LEMMA ContinuedKeeps == ASSUME IInv, NEW s \in Slots, ContinuedStore(s) PROVE IInv'
<1> DEFINE back == IF pc[s] = "synced" THEN "end_cold" ELSE "eval"
<1>1. /\ pc[s] \in {"synced", "gen"} /\ op = NoOp
      /\ UNCHANGED <<files, debris, phase, run, ctx, map, tokens, valid, last, asked, prompt,
                     cached, loaded, cold, suppressed, written>>
      /\ pc[s] = "gen" => Len(tokens[s]) < ctx
      /\ \/ ContinuedDue(last[s], Len(tokens[s])) /\ BeginStore(s, tokens[s], "continued", back)
         \/ pc' = [pc EXCEPT ![s] = back] /\ op' = op
  BY DEF ContinuedStore, diskVars, processVars, sessionVars, planVars
<1>2. /\ Typed(s) /\ InContext(s) /\ Course(s) /\ Schedule(s) /\ phase \in {"up", "closing"}
      /\ Place(s) = pc[s] /\ ~ColdStoring(s) /\ ctx \in Nat /\ pc[s] # "store"
  BY <1>1, AtSlot
<1>3. /\ tokens[s] \in Texts /\ back \in PCs \ {"store"} /\ "continued" \in Reasons
  BY <1>2 DEF Typed, PCs, Reasons
<1>b. back = IF pc[s] = "synced" THEN "end_cold" ELSE "eval"
  OBVIOUS
<1> HIDE DEF back
<1>5. /\ OnlySlot(s) /\ Typed(s)' /\ FilesOK' /\ InContext(s)' /\ Place(s)' = back
      /\ op' # NoOp => /\ BeginStore(s, tokens[s], "continued", back)
                       /\ op'.slot = s /\ op'.text = tokens[s]
                       /\ op'.reason = "continued" /\ op'.back = back
                       /\ OpReason' => Begins(s)
      /\ op' = NoOp => Begins(s) /\ ~ColdStoring(s)'
  BY <1>1, <1>2, <1>3, StoreBegins
<1>6. Course(s)'
  BY <1>1, <1>2, <1>5, <1>b DEF Course
<1>7. ColdPending(s)' <=> ColdPending(s)
  BY <1>1, <1>2, <1>5, <1>b DEF ColdPending
<1>8. ~ColdStoring(s)'
  BY <1>5 DEF ColdStoring
<1>9. Schedule(s)'
  BY <1>1, <1>2, <1>7, <1>8 DEF Schedule
<1>10. Begins(s)
  <2>1. CASE op' # NoOp
    <3>1. ContinuedDue(last[s], Len(tokens[s]))
      <4>1. op' # op
        BY <1>1, <2>1
      <4> QED BY <1>1, <4>1
    <3>2. Len(tokens[s]) <= ctx
      BY <1>2 DEF InContext
    <3>3. OpReason'
      BY <1>1, <1>5, <1>b, <2>1, <3>1, <3>2 DEF OpReason
    <3> QED BY <1>5, <2>1, <3>3
  <2>2. CASE op' = NoOp
    BY <1>5, <2>2
  <2> QED BY <2>1, <2>2
<1> QED BY <1>1, <1>2, <1>5, <1>6, <1>9, <1>10, RequestKeeps DEF SlotOK

LEMMA PersistKeeps == ASSUME IInv, NEW s \in Slots, PersistSlot(s) PROVE IInv'
<1>1. /\ pc[s] = "idle" /\ op = NoOp /\ phase = "closing"
      /\ UNCHANGED <<files, debris, phase, run, ctx, map, tokens, valid, last, asked, prompt,
                     cached, loaded, cold, suppressed, written>>
      /\ \/ BeginStore(s, tokens[s], "shutdown", "closed")
         \/ pc' = [pc EXCEPT ![s] = "closed"] /\ op' = op
  BY DEF PersistSlot, diskVars, processVars, sessionVars, planVars
<1>2. /\ Typed(s) /\ InContext(s) /\ Course(s) /\ Schedule(s)
      /\ Place(s) = "idle" /\ ~ColdStoring(s) /\ pc[s] # "store"
  BY <1>1, AtSlot
<1>3. /\ tokens[s] \in Texts /\ "closed" \in PCs \ {"store"} /\ "shutdown" \in Reasons
  BY <1>2 DEF Typed, PCs, Reasons
<1>5. /\ OnlySlot(s) /\ Typed(s)' /\ FilesOK' /\ InContext(s)' /\ Place(s)' = "closed"
      /\ op' # NoOp => /\ BeginStore(s, tokens[s], "shutdown", "closed")
                       /\ op'.slot = s /\ op'.text = tokens[s]
                       /\ op'.reason = "shutdown" /\ op'.back = "closed"
                       /\ OpReason' => Begins(s)
      /\ op' = NoOp => Begins(s) /\ ~ColdStoring(s)'
  BY <1>1, <1>2, <1>3, StoreBegins
<1>6. Course(s)'
  BY <1>5 DEF Course
<1>7. ~ColdPending(s)' /\ ~ColdPending(s)
  BY <1>2, <1>5 DEF ColdPending
<1>8. ~ColdStoring(s)'
  BY <1>5 DEF ColdStoring
<1>9. Schedule(s)'
  BY <1>1, <1>2, <1>7, <1>8 DEF Schedule
<1>10. Begins(s)
  <2>1. CASE op' # NoOp
    <3>1. Len(tokens[s]) <= ctx
      BY <1>2 DEF InContext
    <3>2. OpReason'
      BY <1>1, <1>5, <2>1, <3>1 DEF OpReason
    <3> QED BY <1>5, <2>1, <3>2
  <2>2. CASE op' = NoOp
    BY <1>5, <2>2
  <2> QED BY <2>1, <2>2
<1> QED BY <1>1, <1>2, <1>5, <1>6, <1>9, <1>10, RequestKeeps DEF SlotOK

\* Planning the cold checkpoint of a prompt, whatever has become of the session.
LEMMA PlanKeeps ==
    ASSUME IInv, NEW s \in Slots, pc[s] = "load", op = NoOp, PlanCold(s), FilesOK',
           UNCHANGED <<debris, phase, run, ctx, map, op, asked, prompt, cached, loaded, written>>,
           tokens' = [tokens EXCEPT ![s] = tokens'[s]], valid' = [valid EXCEPT ![s] = valid'[s]],
           tokens'[s] \in Texts, Len(tokens'[s]) <= ctx, valid'[s] \in BOOLEAN
    PROVE  IInv'
<1>1. /\ SlotTypes /\ Typed(s) /\ InContext(s) /\ Course(s) /\ Schedule(s)
      /\ phase \in {"up", "closing"} /\ Place(s) = "load" /\ Len(prompt[s]) \in Nat /\ ctx \in Nat
  BY AtSlot
<1>2. cold[s] = 0 /\ prompt[s] = asked[s] /\ Len(prompt[s]) <= ctx
  BY <1>1 DEF Course, InContext
<1>3. ~ColdPending(s)
  BY <1>1, <1>2 DEF ColdPending
<1>4. suppressed[s] = -1 /\ ("hangup" \in Faults \/ last[s] <= written[s])
  BY <1>3, AtSlot
<1>5. CASE /\ pc' = [pc EXCEPT ![s] = "sync"] /\ UNCHANGED <<cold, suppressed, last>>
  <2>1. pc'[s] = "sync"
    BY <1>1, <1>5 DEF SlotTypes
  <2>2. OnlySlot(s)
    BY <1>1, <1>5, <2>1 DEF OnlySlot, SlotTypes
  <2>3. Typed(s)'
    BY <1>1, <1>5, <2>1 DEF Typed, PCs
  <2>4. Place(s)' = "sync" /\ ~ColdStoring(s)'
    BY <2>1 DEF Place, ColdStoring
  <2>5. ~ColdPending(s)'
    BY <1>2, <1>5, <2>4 DEF ColdPending
  <2>6. InContext(s)'
    BY <1>1, <1>5 DEF InContext
  <2>7. Course(s)'
    BY <2>4 DEF Course
  <2>8. Schedule(s)'
    BY <1>4, <1>5, <1>1, <2>5 DEF Schedule, Typed
  <2>9. Begins(s)
    BY <2>1 DEF Begins
  <2> QED BY <1>1, <2>2, <2>3, <2>6, <2>7, <2>8, <2>9, RequestKeeps DEF SlotOK
<1>6. CASE /\ Len(asked[s]) >= MinTokens
           /\ \E c \in ColdLens(asked[s]) :
                 LET due == Suppresses(s, c)
                 IN  /\ cold' = [cold EXCEPT ![s] = c]
                     /\ suppressed' = [suppressed EXCEPT ![s] = IF due THEN last[s] ELSE -1]
                     /\ last' = [last EXCEPT ![s] = IF due THEN c ELSE @]
                     /\ pc' = [pc EXCEPT ![s] = IF c < Len(asked[s]) THEN "cold_sync" ELSE "sync"]
  <2>1. PICK c \in ColdLens(asked[s]) :
                 LET due == Suppresses(s, c)
                 IN  /\ cold' = [cold EXCEPT ![s] = c]
                     /\ suppressed' = [suppressed EXCEPT ![s] = IF due THEN last[s] ELSE -1]
                     /\ last' = [last EXCEPT ![s] = IF due THEN c ELSE last[s]]
                     /\ pc' = [pc EXCEPT ![s] = IF c < Len(asked[s]) THEN "cold_sync" ELSE "sync"]
    BY <1>6
  <2>2. c \in Nat /\ 0 < c /\ c <= Len(prompt[s])
    <3>1. Len(asked[s]) \in Nat /\ MinTokens \in Nat \ {0}
      BY <1>1, <1>2, ConstantTypes
    <3>2. StoreLen(Len(asked[s])) \in 1..Len(asked[s])
      BY <1>6, <3>1, StoreLenType
    <3>3. c = StoreLen(Len(asked[s])) \/ c \in MinTokens .. Len(asked[s]) - 1
      BY DEF ColdLens
    <3>4. CASE c = StoreLen(Len(asked[s]))
      BY <1>2, <3>2, <3>4
    <3>5. CASE c \in MinTokens .. Len(asked[s]) - 1
      BY <1>2, <3>1, <3>5
    <3> QED BY <3>3, <3>4, <3>5
  <2>3. /\ cold'[s] = c
        /\ suppressed'[s] = IF ContinuedDue(last[s], c) THEN last[s] ELSE -1
        /\ last'[s] = IF ContinuedDue(last[s], c) THEN c ELSE last[s]
        /\ pc'[s] = IF c < Len(prompt[s]) THEN "cold_sync" ELSE "sync"
    BY <1>1, <1>2, <2>1 DEF SlotTypes, Suppresses
  <2>4. OnlySlot(s)
    BY <1>1, <2>1, <2>3 DEF OnlySlot, SlotTypes
  <2>5. /\ last[s] \in Nat /\ written[s] \in Nat /\ last[s] <= ctx /\ c <= ctx
        /\ last'[s] \in Nat /\ suppressed'[s] \in Int /\ last'[s] <= ctx
        /\ -1 <= suppressed'[s] /\ suppressed'[s] <= ctx
    <3>1. last[s] \in Nat /\ written[s] \in Nat /\ last[s] <= ctx /\ c <= ctx
      BY <1>1, <1>2, <2>2 DEF Typed, InContext
    <3> QED BY <1>1, <2>2, <2>3, <3>1
  <2>6. Typed(s)'
    BY <1>1, <2>2, <2>3, <2>5 DEF Typed, PCs
  <2>7. Place(s)' = pc'[s] /\ ~ColdStoring(s)'
    BY <2>3 DEF Place, ColdStoring
  <2>8. ColdPending(s)'
    BY <2>2, <2>3, <2>7, <1>1 DEF ColdPending
  <2>9. InContext(s)'
    BY <1>1, <2>2, <2>3, <2>5 DEF InContext
  <2>10. Course(s)'
    BY <2>2, <2>3, <2>7 DEF Course
  <2>11. Schedule(s)'
    <3>1. ~ContinuedDue(last'[s], cold'[s])
      <4>1. ~ContinuedDue(c, c)
        BY <2>2 DEF ContinuedDue
      <4> QED BY <2>3, <4>1
    <3>2. "hangup" \in Faults
          \/ /\ last'[s] > written[s] => suppressed'[s] >= 0 /\ last'[s] = cold'[s]
             /\ suppressed'[s] <= written[s]
      BY <1>4, <2>3, <2>5
    <3> QED BY <2>8, <3>1, <3>2 DEF Schedule
  <2>12. Begins(s)
    BY <2>3 DEF Begins
  <2> QED BY <1>1, <2>4, <2>6, <2>9, <2>10, <2>11, <2>12, RequestKeeps DEF SlotOK
<1> QED BY <1>5, <1>6 DEF PlanCold

LEMMA MissesKeeps == ASSUME IInv, NEW s \in Slots, LoadMisses(s) PROVE IInv'
<1>1. /\ pc[s] = "load" /\ op = NoOp /\ PlanCold(s)
      /\ UNCHANGED <<files, debris, phase, run, ctx, map, op, tokens, valid, asked, prompt,
                     cached, loaded, written>>
  BY DEF LoadMisses, diskVars, processVars, sessionVars
<1>2. SlotTypes /\ Typed(s) /\ InContext(s) /\ FilesOK
  BY <1>1, AtSlot
<1>3. /\ FilesOK' /\ tokens'[s] \in Texts /\ Len(tokens'[s]) <= ctx /\ valid'[s] \in BOOLEAN
      /\ tokens' = [tokens EXCEPT ![s] = tokens'[s]] /\ valid' = [valid EXCEPT ![s] = valid'[s]]
  BY <1>1, <1>2 DEF FilesOK, Typed, InContext, SlotTypes
<1> QED BY <1>1, <1>3, PlanKeeps

LEMMA LoadFailsKeeps == ASSUME IInv, NEW s \in Slots, LoadFails(s) PROVE IInv'
<1>1. /\ pc[s] = "load" /\ op = NoOp /\ PlanCold(s)
      /\ UNCHANGED <<debris, phase, run, ctx, map, op, asked, prompt, cached, loaded, written>>
  BY DEF LoadFails, processVars
<1>2. PICK t \in Found(asked[s]) :
          \/ UNCHANGED <<files, sessionVars>>
          \/ /\ files' \in {files} \cup Removed(t)
             /\ tokens' = [tokens EXCEPT ![s] = NoText]
             /\ valid' = [valid EXCEPT ![s] = FALSE]
  BY DEF LoadFails, Invalidate
<1>3. SlotTypes /\ Typed(s) /\ InContext(s) /\ FilesOK /\ ctx \in Nat
  BY <1>1, AtSlot
<1>4. FilesOK'
  <2>1. files' = files \/ \E u : files' = Without(files, u)
    BY <1>2 DEF Removed
  <2> QED BY <1>3, <2>1, FewerFiles
<1>5. /\ tokens'[s] \in Texts /\ Len(tokens'[s]) <= ctx /\ valid'[s] \in BOOLEAN
      /\ tokens' = [tokens EXCEPT ![s] = tokens'[s]] /\ valid' = [valid EXCEPT ![s] = valid'[s]]
  <2>1. CASE UNCHANGED <<files, sessionVars>>
    BY <1>3, <2>1 DEF sessionVars, Typed, InContext, SlotTypes
  <2>2. CASE tokens' = [tokens EXCEPT ![s] = NoText] /\ valid' = [valid EXCEPT ![s] = FALSE]
    <3>1. tokens'[s] = NoText /\ valid'[s] = FALSE
      BY <1>3, <2>2 DEF SlotTypes
    <3>2. 0 <= ctx
      BY <1>3
    <3> QED BY <2>2, <3>1, <3>2, NoTextType
  <2> QED BY <1>2, <2>1, <2>2
<1> QED BY <1>1, <1>4, <1>5, PlanKeeps

LEMMA HitsKeeps == ASSUME IInv, NEW s \in Slots, LoadHits(s) PROVE IInv'
<1>1. /\ pc[s] = "load" /\ op = NoOp /\ pc' = [pc EXCEPT ![s] = "sync"]
      /\ UNCHANGED <<files, debris, phase, run, ctx, map, op, last, asked, cold, suppressed, written>>
  BY DEF LoadHits, diskVars, processVars
<1>2. PICK t \in Found(asked[s]) :
          /\ tokens' = [tokens EXCEPT ![s] = t]
          /\ valid' = [valid EXCEPT ![s] = TRUE]
          /\ prompt' = [prompt EXCEPT ![s] = t \o Drop(asked[s], Len(t))]
          /\ cached' = [cached EXCEPT ![s] = Len(t)]
          /\ loaded' = [loaded EXCEPT ![s] = t]
  BY DEF LoadHits, Restore
<1>3. /\ SlotTypes /\ Typed(s) /\ InContext(s) /\ Course(s) /\ Schedule(s) /\ FilesOK
      /\ phase \in {"up", "closing"} /\ Place(s) = "load" /\ Len(prompt[s]) \in Nat /\ ctx \in Nat
  BY <1>1, AtSlot
<1>4. cold[s] = 0 /\ prompt[s] = asked[s] /\ asked[s] \in Texts /\ Len(prompt[s]) <= ctx
  BY <1>3 DEF Course, InContext, Typed
<1>5. t \in Texts /\ IsPrefix(t, asked[s])
  BY <1>3 DEF Found, Usable, FilesOK
<1>6. /\ Len(t) \in Nat /\ Len(t) <= Len(prompt[s]) /\ t \o Drop(asked[s], Len(t)) = prompt[s]
  BY <1>4, <1>5, PrefixIs, PrefixAndRest, LenNat
<1>7. /\ tokens'[s] = t /\ valid'[s] = TRUE /\ prompt'[s] = prompt[s] /\ cached'[s] = Len(t)
      /\ loaded'[s] = t /\ pc'[s] = "sync"
  BY <1>1, <1>2, <1>3, <1>6 DEF SlotTypes
<1>8. OnlySlot(s)
  BY <1>1, <1>2, <1>3, <1>7 DEF OnlySlot, SlotTypes
<1>9. Typed(s)'
  BY <1>1, <1>3, <1>5, <1>6, <1>7 DEF Typed, PCs
<1>10. SlotOK(s)'
  <2>1. Place(s)' = "sync" /\ ~ColdStoring(s)'
    BY <1>1, <1>7 DEF Place, ColdStoring
  <2>2. ~ColdPending(s)' /\ ~ColdPending(s)
    BY <1>1, <1>3, <1>4, <2>1 DEF ColdPending
  <2>3. InContext(s)'
    BY <1>1, <1>3, <1>4, <1>6, <1>7 DEF InContext
  <2>4. Course(s)'
    BY <2>1 DEF Course
  <2>5. suppressed[s] = -1 /\ ("hangup" \in Faults \/ last[s] <= written[s])
    BY <1>1, <2>2, AtSlot
  <2>6. Schedule(s)'
    BY <1>1, <1>3, <2>2, <2>5 DEF Schedule, Typed
  <2> QED BY <2>3, <2>4, <2>6 DEF SlotOK
<1>11. FilesOK' /\ Begins(s)
  BY <1>1, <1>3, <1>7 DEF FilesOK, Begins
<1> QED BY <1>1, <1>3, <1>8, <1>9, <1>10, <1>11, RequestKeeps

LEMMA BeginKeeps == ASSUME IInv, NEW s \in Slots, NEW p \in Prompts, Begin(s, p) PROVE IInv'
<1> DEFINE hit == valid[s] /\ tokens[s] # NoText /\ IsPrefix(tokens[s], p)
<1>1. /\ pc[s] = "idle" /\ op = NoOp /\ phase = "up" /\ Len(p) < ctx
      /\ UNCHANGED <<files, debris, phase, run, ctx, map, tokens, valid>>
      /\ asked' = [asked EXCEPT ![s] = p] /\ prompt' = [prompt EXCEPT ![s] = p]
      /\ loaded' = [loaded EXCEPT ![s] = NoText] /\ cold' = [cold EXCEPT ![s] = 0]
      /\ suppressed' = [suppressed EXCEPT ![s] = -1]
  BY DEF Begin, Up, diskVars, processVars, sessionVars
<1>2. /\ cached' = [cached EXCEPT ![s] = IF hit THEN Len(tokens[s]) ELSE 0]
      /\ last' = IF hit THEN last ELSE [last EXCEPT ![s] = 0]
      /\ written' = IF hit THEN written ELSE [written EXCEPT ![s] = 0]
      /\ \/ ~hit /\ BeginStore(s, tokens[s], "evict", "load")
         \/ pc' = [pc EXCEPT ![s] = IF hit THEN "sync" ELSE "load"] /\ op' = op
  BY DEF Begin
<1>3. /\ SlotTypes /\ Typed(s) /\ InContext(s) /\ FilesOK /\ Place(s) = "idle" /\ ctx \in Nat
      /\ Len(tokens[s]) \in Nat /\ tokens[s] \in Texts /\ Len(tokens[s]) <= ctx
  <2>1. /\ SlotTypes /\ Typed(s) /\ InContext(s) /\ FilesOK /\ Place(s) = "idle" /\ ctx \in Nat
        /\ Len(tokens[s]) \in Nat
    BY <1>1, AtSlot
  <2> QED BY <2>1 DEF Typed, InContext
<1>4. p \in Texts /\ Len(p) \in Nat /\ Len(p) <= ctx
  BY <1>1, <1>3, ConstantTypes, LenNat
<1>5. hit => Len(tokens[s]) <= Len(p)
  BY <1>3, <1>4, PrefixIs
<1> HIDE DEF hit
<1>6. "hangup" \in Faults \/ last[s] <= written[s]
  <2>1. ~ColdPending(s)
    BY <1>3 DEF ColdPending
  <2> QED BY <1>1, <2>1, AtSlot
<1>7. /\ asked'[s] = p /\ prompt'[s] = p /\ loaded'[s] = NoText /\ cold'[s] = 0
      /\ suppressed'[s] = -1
      /\ cached'[s] \in Nat /\ cached'[s] <= Len(p) /\ cached' = [cached EXCEPT ![s] = cached'[s]]
      /\ last'[s] \in Nat /\ last'[s] <= ctx /\ last' = [last EXCEPT ![s] = last'[s]]
      /\ written'[s] \in Nat /\ written'[s] <= ctx /\ written' = [written EXCEPT ![s] = written'[s]]
      /\ "hangup" \in Faults \/ last'[s] <= written'[s]
  <2>1. /\ asked'[s] = p /\ prompt'[s] = p /\ loaded'[s] = NoText /\ cold'[s] = 0
        /\ suppressed'[s] = -1
    BY <1>1, <1>3 DEF SlotTypes
  <2>2. last[s] \in Nat /\ last[s] <= ctx /\ written[s] \in Nat /\ written[s] <= ctx
    BY <1>3 DEF Typed, InContext
  <2>3. CASE hit
    <3>1. /\ cached' = [cached EXCEPT ![s] = Len(tokens[s])] /\ last' = last /\ written' = written
      BY <1>2, <2>3
    <3>2. cached'[s] = Len(tokens[s]) /\ cached' = [cached EXCEPT ![s] = cached'[s]]
      BY <1>3, <3>1 DEF SlotTypes
    <3>3. last' = [last EXCEPT ![s] = last'[s]] /\ written' = [written EXCEPT ![s] = written'[s]]
      BY <1>3, <3>1 DEF SlotTypes
    <3> QED BY <1>3, <1>5, <1>6, <2>1, <2>2, <2>3, <3>1, <3>2, <3>3
  <2>4. CASE ~hit
    <3>1. /\ cached' = [cached EXCEPT ![s] = 0] /\ last' = [last EXCEPT ![s] = 0]
          /\ written' = [written EXCEPT ![s] = 0]
      BY <1>2, <2>4
    <3>2. cached'[s] = 0 /\ last'[s] = 0 /\ written'[s] = 0
      BY <1>3, <3>1 DEF SlotTypes
    <3>3. 0 <= ctx /\ 0 <= Len(p)
      BY <1>3, <1>4
    <3>4. /\ cached' = [cached EXCEPT ![s] = cached'[s]] /\ last' = [last EXCEPT ![s] = last'[s]]
          /\ written' = [written EXCEPT ![s] = written'[s]]
      BY <3>1, <3>2
    <3> QED BY <2>1, <3>2, <3>3, <3>4
  <2> QED BY <2>3, <2>4
<1>8. /\ pc' = [pc EXCEPT ![s] = pc'[s]] /\ pc'[s] \in PCs /\ Place(s)' \in {"sync", "load"}
      /\ Begins(s) /\ ~ColdStoring(s)'
  <2>1. CASE pc' = [pc EXCEPT ![s] = IF hit THEN "sync" ELSE "load"] /\ op' = op
    <3>1. pc'[s] \in {"sync", "load"} /\ pc' = [pc EXCEPT ![s] = pc'[s]]
      BY <1>3, <2>1 DEF SlotTypes
    <3> QED BY <1>1, <2>1, <3>1 DEF Place, ColdStoring, Begins, PCs
  <2>2. CASE BeginStore(s, tokens[s], "evict", "load")
    <3>1. /\ op' = StoreOp(s, tokens[s], "evict", "load")
          /\ pc' = [pc EXCEPT ![s] = "store"] /\ pc'[s] = "store"
      BY <1>3, <2>2 DEF BeginStore, SlotTypes
    <3>2. /\ op'.slot = s /\ op'.text = tokens[s] /\ op'.reason = "evict"
          /\ op'.back = "load" /\ op'.stage = "check"
      BY <3>1 DEF StoreOp
    <3>3. op' \in OpTypes
      BY <1>3, <3>1, ConstantTypes DEF StoreOp, OpTypes, Reasons, PCs
    <3>4. OpReason'
      BY <1>1, <1>3, <3>2 DEF OpReason
    <3> QED BY <3>1, <3>2, <3>3, <3>4 DEF Place, ColdStoring, Begins, PCs
  <2> QED BY <1>2, <2>1, <2>2
<1>9. OnlySlot(s)
  BY <1>1, <1>3, <1>7, <1>8 DEF OnlySlot, SlotTypes
<1>10. Typed(s)'
  BY <1>1, <1>3, <1>4, <1>7, <1>8, NoTextType DEF Typed
<1>11. SlotOK(s)'
  <2>1. ~ColdPending(s)'
    BY <1>7, <1>8 DEF ColdPending
  <2>2. InContext(s)'
    BY <1>1, <1>3, <1>4, <1>7 DEF InContext
  <2>3. Course(s)'
    BY <1>7, <1>8 DEF Course
  <2>4. Schedule(s)'
    BY <1>7, <2>1 DEF Schedule
  <2> QED BY <2>2, <2>3, <2>4 DEF SlotOK
<1>12. FilesOK'
  BY <1>1, <1>3 DEF FilesOK
<1> QED BY <1>1, <1>8, <1>9, <1>10, <1>11, <1>12, RequestKeeps

-----------------------------------------------------------------------------
(* The steps of the process.                                               *)

\* A step of the process that changes no slot, and no checkpoint but by
\* removing one.
LEMMA ProcessKeeps ==
    ASSUME IInv, UNCHANGED slotVars, UNCHANGED <<debris, run, ctx, op>>,
           files' = files \/ (op = NoOp /\ \E t : files' = Without(files, t)),
           map' \in 0..MaxMap, phase # "down", phase' \in {"opening", "up", "closing"},
           phase' \in {"up", "closing"} \/ \A s \in Slots : pc[s] = "idle"
    PROVE  IInv'
<1>1. ProcessOK'
  BY DEF IInv, ProcessOK, slotVars
<1>2. FilesOK'
  BY FewerFiles DEF IInv
<1>3. DebrisOK'
  BY DEF IInv, DebrisOK
<1>4. OpDisk'
  BY DEF IInv, OpDisk
<1>5. OpOK'
  BY DEF IInv, OpOK, OpReason, slotVars
<1>6. SlotTypes'
  BY DEF IInv, SlotTypes, slotVars
<1>7. ASSUME NEW s \in Slots
      PROVE  SlotOK(s)'
  <2>1. Place(s)' = Place(s) /\ (ColdStoring(s)' <=> ColdStoring(s))
    BY DEF Place, ColdStoring, slotVars
  <2> QED BY <2>1, AllSame, SlotKept DEF IInv
<1> QED BY <1>1, <1>2, <1>3, <1>4, <1>5, <1>6, <1>7 DEF IInv

LEMMA MapKeeps == ASSUME IInv, ToolMapChanges PROVE IInv'
<1>1. /\ UNCHANGED <<files, debris, phase, run, ctx, op>> /\ UNCHANGED slotVars
      /\ phase = "up" /\ map' \in 0..MaxMap
  BY DEF ToolMapChanges, Up, diskVars, sessionVars, planVars, slotVars
<1> QED BY <1>1, ProcessKeeps

LEMMA OpenKeeps == ASSUME IInv, Open PROVE IInv'
<1>1. /\ UNCHANGED <<debris, run, ctx, map, op>> /\ UNCHANGED slotVars
      /\ phase = "opening" /\ phase' \in {"opening", "up"}
      /\ files' = files \/ \E t : files' = Without(files, t)
  BY DEF Open, sessionVars, planVars, slotVars
<1>2. map' \in 0..MaxMap /\ \A s \in Slots : pc[s] = "idle"
  BY <1>1 DEF IInv, ProcessOK
<1>3. op = NoOp
  <2> SUFFICES ASSUME op # NoOp PROVE FALSE
    OBVIOUS
  <2> QED BY <1>2, StoreRuns DEF IInv, OpOK
<1> QED BY <1>1, <1>2, <1>3, ProcessKeeps

LEMMA ShutdownKeeps == ASSUME IInv, Shutdown PROVE IInv'
<1>1. /\ UNCHANGED <<files, debris, run, ctx, map, op>> /\ UNCHANGED slotVars
      /\ phase = "up" /\ phase' = "closing"
  BY DEF Shutdown, Up, diskVars, sessionVars, planVars, slotVars
<1>2. map' \in 0..MaxMap
  BY <1>1 DEF IInv, ProcessOK
<1> QED BY <1>1, <1>2, ProcessKeeps

\* A slot that has served nothing is in order in any context.
LEMMA BlankOK ==
    ASSUME NEW s \in Slots, ctx' \in Nat, Blank(s)', asked'[s] = NoText,
           pc'[s] = "idle", cached'[s] = 0, cold'[s] = 0, op' = NoOp
    PROVE  SlotOK(s)'
<1>1. Place(s)' = "idle" /\ ~ColdStoring(s)'
  BY DEF Place, ColdStoring
<1>2. ~ColdPending(s)'
  BY <1>1 DEF ColdPending
<1>3. InContext(s)'
  BY NoTextType DEF InContext, Blank
<1>4. Course(s)'
  BY <1>1 DEF Course
<1>5. Schedule(s)'
  BY <1>2 DEF Schedule, Blank
<1> QED BY <1>3, <1>4, <1>5 DEF SlotOK

LEMMA EndKeeps == ASSUME IInv, End PROVE IInv'
<1>1. /\ phase' = "down" /\ op' = NoOp /\ map' = 0 /\ UNCHANGED <<files, debris, run, ctx>>
      /\ tokens' = [s \in Slots |-> NoText] /\ valid' = [s \in Slots |-> FALSE]
      /\ last' = [s \in Slots |-> 0] /\ pc' = [s \in Slots |-> "idle"]
      /\ asked' = [s \in Slots |-> NoText] /\ prompt' = [s \in Slots |-> NoText]
      /\ cached' = [s \in Slots |-> 0] /\ loaded' = [s \in Slots |-> NoText]
      /\ cold' = [s \in Slots |-> 0] /\ suppressed' = [s \in Slots |-> -1]
      /\ written' = [s \in Slots |-> 0]
  BY DEF End, diskVars
<1>2. SlotTypes'
  BY <1>1, NoTextType DEF SlotTypes, PCs
<1>3. ProcessOK'
  BY <1>1, ConstantTypes DEF IInv, ProcessOK, Blank
<1>4. FilesOK' /\ DebrisOK'
  BY <1>1 DEF IInv, FilesOK, DebrisOK
<1>5. OpDisk' /\ OpOK'
  BY <1>1 DEF OpDisk, OpOK
<1>6. ASSUME NEW s \in Slots
      PROVE  SlotOK(s)'
  <2>1. ctx' \in Nat
    BY <1>1, ConstantTypes DEF IInv, ProcessOK
  <2>2. /\ Blank(s)' /\ asked'[s] = NoText /\ pc'[s] = "idle" /\ cached'[s] = 0
        /\ cold'[s] = 0 /\ op' = NoOp
    BY <1>1 DEF Blank
  <2> QED BY <2>1, <2>2, BlankOK
<1> QED BY <1>2, <1>3, <1>4, <1>5, <1>6 DEF IInv

LEMMA StartKeeps == ASSUME IInv, Start PROVE IInv'
<1>1. /\ phase = "down" /\ run < MaxRuns /\ phase' = "opening" /\ run' = run + 1 /\ ctx' \in Contexts
      /\ UNCHANGED <<files, debris, map, op>> /\ UNCHANGED slotVars
  BY DEF Start, diskVars, sessionVars, planVars, slotVars
<1>2. /\ \A s \in Slots : pc[s] = "idle" /\ Blank(s)
      /\ run \in Nat \ {0} /\ run' \in 1..MaxRuns /\ ctx' \in Nat
  BY <1>1, ConstantTypes DEF IInv, ProcessOK
<1>3. op = NoOp
  <2> SUFFICES ASSUME op # NoOp PROVE FALSE
    OBVIOUS
  <2> QED BY <1>1, StoreRuns
<1>4. SlotTypes'
  BY <1>1 DEF IInv, SlotTypes, slotVars
<1>5. ProcessOK'
  BY <1>1, <1>2 DEF IInv, ProcessOK, slotVars
<1>6. FilesOK'
  BY <1>1 DEF IInv, FilesOK
<1>7. DebrisOK'
  <2>1. debris \subseteq Texts \X (1..run) /\ \A d, e \in debris : d[2] = e[2] => d = e
    BY DEF IInv, DebrisOK
  <2>2. 1..run \subseteq 1..run' /\ run' \notin 1..run
    BY <1>1, <1>2
  <2> QED BY <1>1, <2>1, <2>2 DEF DebrisOK
<1>8. OpDisk' /\ OpOK'
  BY <1>1, <1>2, <1>3 DEF OpDisk, OpOK, slotVars
<1>9. ASSUME NEW s \in Slots
      PROVE  SlotOK(s)'
  <2>1. SlotOK(s) /\ Typed(s) /\ Place(s) = "idle" /\ Blank(s) /\ ctx \in Nat
    BY <1>2, AtSlot
  <2>2. /\ Len(prompt[s]) = 0 /\ cached[s] = 0 /\ cold[s] = 0 /\ asked[s] = NoText
    <3>1. Len(prompt[s]) = 0 /\ asked[s] = NoText
      BY <2>1, NoTextType DEF SlotOK, InContext, Blank
    <3>2. cached[s] \in Nat /\ cold[s] \in Nat /\ cached[s] <= 0 /\ cold[s] <= 0
      BY <2>1, <3>1 DEF SlotOK, InContext, Typed
    <3> QED BY <3>1, <3>2
  <2>3. /\ Blank(s)' /\ asked'[s] = NoText /\ pc'[s] = "idle" /\ cached'[s] = 0
        /\ cold'[s] = 0 /\ op' = NoOp
    BY <1>1, <1>2, <1>3, <2>1, <2>2 DEF Blank, slotVars
  <2> QED BY <1>2, <2>3, BlankOK
<1> QED BY <1>4, <1>5, <1>6, <1>7, <1>8, <1>9 DEF IInv

-----------------------------------------------------------------------------
(* The invariant and what follows from it.                                 *)

LEMMA Stutters == ASSUME IInv, UNCHANGED vars PROVE IInv'
<1>1. UNCHANGED <<files, debris, phase, run, ctx, map, op>> /\ UNCHANGED slotVars
  BY DEF vars, slotVars
<1>2. ProcessOK' /\ FilesOK' /\ DebrisOK' /\ OpDisk'
  BY <1>1 DEF IInv, ProcessOK, FilesOK, DebrisOK, OpDisk, Blank, slotVars
<1>3. OpOK' /\ SlotTypes'
  BY <1>1 DEF IInv, OpOK, OpReason, SlotTypes, slotVars
<1>4. ASSUME NEW s \in Slots
      PROVE  SlotOK(s)'
  <2>1. Place(s)' = Place(s) /\ (ColdStoring(s)' <=> ColdStoring(s))
    BY <1>1 DEF Place, ColdStoring, slotVars
  <2> QED BY <1>1, <2>1, AllSame, SlotKept DEF IInv
<1> QED BY <1>2, <1>3, <1>4 DEF IInv

LEMMA NextIInv == IInv /\ [Next]_vars => IInv'
<1> SUFFICES ASSUME IInv, [Next]_vars PROVE IInv'
  OBVIOUS
<1>1. CASE StoreStep
  BY <1>1, StoreKeeps
<1>2. ASSUME NEW s \in Slots, RequestStep(s)
      PROVE  IInv'
  BY <1>2, MissesKeeps, HitsKeeps, LoadFailsKeeps, ChunkKeeps, SyncDoneKeeps, SyncFailsKeeps,
     DiscardKeeps, ColdStoreKeeps, ContinuedKeeps, HangUpKeeps, GenerateKeeps, EvalFailsKeeps,
     StopSequenceKeeps, RewindWithoutKeeps, CanonicalizeKeeps, FinishKeeps
  DEF RequestStep
<1>3. ASSUME NEW s \in Slots, PersistSlot(s)
      PROVE  IInv'
  BY <1>3, PersistKeeps
<1>4. ASSUME NEW s \in Slots, NEW p \in Prompts, Begin(s, p)
      PROVE  IInv'
  BY <1>4, BeginKeeps
<1>5. CASE ToolMapChanges \/ Open \/ Shutdown \/ End \/ Start
  BY <1>5, MapKeeps, OpenKeeps, ShutdownKeeps, EndKeeps, StartKeeps
<1>6. CASE Rest \/ UNCHANGED vars
  BY <1>6, Stutters DEF Rest
<1> QED BY <1>1, <1>2, <1>3, <1>4, <1>5, <1>6 DEF Next

\* The inductive invariant holds throughout.
THEOREM Invariance == Spec => []IInv
<1>1. IInv /\ [Next]_vars => IInv'
  BY NextIInv
<1> QED BY InitIInv, <1>1, PTL DEF Spec

\* That the model of a slot is rewound is true or false; nothing above depends on it.
RewoundTyped == rewound \in [Slots -> BOOLEAN]

LEMMA NextRewound == RewoundTyped /\ [Next]_vars => RewoundTyped'
<1> SUFFICES ASSUME RewoundTyped, [Next]_vars PROVE RewoundTyped'
  OBVIOUS
<1>1. CASE UNCHANGED rewound
  BY <1>1 DEF RewoundTyped
<1>2. ASSUME NEW s \in Slots, NEW b \in BOOLEAN, rewound' = [rewound EXCEPT ![s] = b]
      PROVE  RewoundTyped'
  BY <1>2 DEF RewoundTyped
<1>3. CASE StoreStep
  <2>1. UNCHANGED rewound
    BY <1>3 DEF StoreStep, StoreRefused, StoreExisting, RewriteTrailer, ReplaceIncompatible,
                Stage, Evict, NoTemporary, CreateTemporary, Publish, WriteFails, sessionVars
  <2> QED BY <1>1, <2>1
<1>4. ASSUME NEW s \in Slots, RequestStep(s)
      PROVE  RewoundTyped'
  <2>1. CASE LoadMisses(s) \/ SyncDone(s) \/ ColdStore(s) \/ ContinuedStore(s) \/ HangUp(s)
             \/ Finish(s)
    BY <1>1, <2>1 DEF LoadMisses, SyncDone, ColdStore, ContinuedStore, HangUp, Finish, sessionVars
  <2>2. CASE LoadHits(s) \/ LoadFails(s) \/ Discard(s) \/ EvalFails(s) \/ StopSequence(s)
             \/ Canonicalize(s)
    <3>1. UNCHANGED rewound \/ rewound' = [rewound EXCEPT ![s] = FALSE]
      BY <2>2 DEF LoadHits, LoadFails, Discard, EvalFails, StopSequence, Canonicalize, Restore,
                  Invalidate, sessionVars
    <3> QED BY <1>1, <1>2, <3>1
  <2>3. CASE PrefillChunk(s) \/ Generate(s) \/ RewindWithout(s)
    <3>1. \E b \in BOOLEAN : rewound' = [rewound EXCEPT ![s] = b]
      BY <2>3 DEF PrefillChunk, Generate, RewindWithout
    <3> QED BY <1>2, <3>1
  <2>4. CASE SyncFails(s)
    <3>1. \/ UNCHANGED rewound
          \/ \E n \in Len(Kept(s)) .. Len(Goal(s)) :
                rewound' = [rewound EXCEPT ![s] = rewound[s] /\ n = Len(Kept(s))]
      BY <2>4 DEF SyncFails, sessionVars
    <3>2. UNCHANGED rewound \/ \E b \in BOOLEAN : rewound' = [rewound EXCEPT ![s] = b]
      BY <3>1 DEF RewoundTyped
    <3> QED BY <1>1, <1>2, <3>2
  <2> QED BY <1>4, <2>1, <2>2, <2>3, <2>4 DEF RequestStep
<1>5. ASSUME NEW s \in Slots, PersistSlot(s) \/ \E p \in Prompts : Begin(s, p)
      PROVE  RewoundTyped'
  BY <1>1, <1>5 DEF PersistSlot, Begin, sessionVars
<1>6. CASE ToolMapChanges \/ Open \/ Shutdown \/ Start \/ Rest \/ UNCHANGED vars
  BY <1>1, <1>6 DEF ToolMapChanges, Open, Shutdown, Start, Rest, vars, sessionVars
<1>7. CASE End
  BY <1>7 DEF End, RewoundTyped
<1> QED BY <1>3, <1>4, <1>5, <1>6, <1>7 DEF Next

LEMMA RewoundIsTyped == Spec => []RewoundTyped
<1>1. Init => RewoundTyped
  BY DEF Init, RewoundTyped
<1> QED BY NextRewound, <1>1, PTL DEF Spec

\* Every variable keeps its type, through crashes, restarts in another context
\* and failures: no text is longer than the context it was made in, and a slot
\* is storing exactly when it holds the lock.
THEOREM TypeCorrect == Spec => []TypeOK
<1>1. IInv /\ RewoundTyped => TypeOK
  <2> SUFFICES ASSUME IInv, RewoundTyped PROVE TypeOK
    OBVIOUS
  <2>p. ProcessOK /\ FilesOK /\ DebrisOK /\ OpOK /\ SlotTypes /\ ctx \in Nat
    BY ConstantTypes DEF IInv, ProcessOK
  <2>1. \A t \in DOMAIN files :
          /\ t \in Texts /\ files[t] \in [map : 0 .. MaxMap, ctx : Contexts]
          /\ Len(t) \in MinTokens .. files[t].ctx
    <3> SUFFICES ASSUME NEW t \in DOMAIN files
                 PROVE  /\ t \in Texts /\ files[t] \in [map : 0 .. MaxMap, ctx : Contexts]
                        /\ Len(t) \in MinTokens .. files[t].ctx
      OBVIOUS
    <3>1. /\ t \in Texts /\ files[t] \in FileTypes /\ MinTokens <= Len(t) /\ Len(t) <= files[t].ctx
      BY <2>p DEF FilesOK
    <3>2. Len(t) \in Nat /\ files[t].ctx \in Nat
      BY <3>1, LenNat, ConstantTypes DEF FileTypes
    <3> QED BY <3>1, <3>2, ConstantTypes DEF FileTypes
  <2>2. \A d \in debris : d[1] \in Texts /\ d[2] \in 1 .. run
    BY <2>p DEF DebrisOK
  <2>3. op # NoOp =>
          /\ op.slot \in Slots /\ op.text \in Texts /\ op.reason \in Reasons
          /\ op.back \in PCs /\ op.est \in 0 .. MaxMap
          /\ op.stage \in {"check", "trailer", "stage", "evict", "write"}
    BY <2>p DEF OpOK, OpTypes
  <2>4. ASSUME NEW s \in Slots
        PROVE  /\ tokens[s] \in Texts /\ Len(tokens[s]) <= ctx
               /\ {valid[s], rewound[s]} \subseteq BOOLEAN /\ last[s] \in 0 .. ctx
               /\ asked[s] \in Prompts \cup {NoText} /\ prompt[s] \in Texts
               /\ cached[s] \in 0 .. Len(prompt[s]) /\ cold[s] \in 0 .. Len(prompt[s])
               /\ suppressed[s] \in -1 .. ctx /\ written[s] \in 0 .. ctx
    <3>1. Typed(s) /\ InContext(s) /\ Len(prompt[s]) \in Nat
      BY <2>p, TypesAre DEF IInv, SlotOK
    <3>2. /\ tokens[s] \in Texts /\ Len(tokens[s]) <= ctx
          /\ {valid[s], rewound[s]} \subseteq BOOLEAN
          /\ asked[s] \in Prompts \cup {NoText} /\ prompt[s] \in Texts
      BY <3>1 DEF Typed, InContext, RewoundTyped
    <3>3. last[s] \in 0 .. ctx /\ written[s] \in 0 .. ctx /\ suppressed[s] \in -1 .. ctx
      BY <2>p, <3>1 DEF Typed, InContext
    <3>4. cached[s] \in 0 .. Len(prompt[s]) /\ cold[s] \in 0 .. Len(prompt[s])
      BY <3>1 DEF Typed, InContext
    <3> QED BY <3>2, <3>3, <3>4
  <2>5. /\ pc \in [Slots -> PCs] /\ \A s \in Slots : pc[s] = "store" <=> (op # NoOp /\ op.slot = s)
    BY <2>p DEF SlotTypes, OpOK
  <2>6. /\ phase \in {"opening", "up", "closing", "down"}
        /\ run \in 1 .. MaxRuns /\ ctx \in Contexts /\ map \in 0 .. MaxMap
    BY <2>p DEF ProcessOK
  <2> QED BY <2>1, <2>2, <2>3, <2>4, <2>5, <2>6 DEF TypeOK
<1> QED BY Invariance, RewoundIsTyped, <1>1, PTL

\* A request is answered from its own prompt by a valid session: whatever was
\* restored, persisted, evicted, interrupted or discarded before.
THEOREM PromptAnswered == Spec => []AnswersThePrompt
<1>1. IInv => AnswersThePrompt
  BY DEF IInv, SlotOK, InContext, Course, AnswersThePrompt
<1> QED BY Invariance, <1>1, PTL

\* Where no client hangs up during the last chunk of its prompt, the schedule of
\* continued checkpoints claims no frontier that no store has covered, but for a
\* cold store that is pending.
THEOREM ScheduleIsHonest == "hangup" \notin Faults => (Spec => []ScheduleHonest)
<1> SUFFICES ASSUME "hangup" \notin Faults PROVE Spec => []ScheduleHonest
  OBVIOUS
<1>1. IInv => ScheduleHonest
  <2> SUFFICES ASSUME IInv, NEW s \in Slots, last[s] > written[s]
               PROVE  suppressed[s] >= 0 /\ last[s] = cold[s] /\ Place(s) # "idle"
    BY DEF ScheduleHonest
  <2>1. Schedule(s) /\ OpOK
    BY DEF IInv, SlotOK
  <2>2. suppressed[s] >= 0 /\ last[s] = cold[s]
    BY <2>1 DEF Schedule
  <2>3. CASE ColdPending(s)
    BY <2>2, <2>3 DEF ColdPending
  <2>4. CASE ColdStoring(s)
    BY <2>1, <2>2, <2>4 DEF ColdStoring, OpOK, OpReason, Place
  <2> QED BY <2>1, <2>2, <2>3, <2>4 DEF Schedule
<1> QED BY Invariance, <1>1, PTL

\* The prefix for which a cold checkpoint is pending is never written as a
\* continued one.
THEOREM NoDuplicate == Spec => []NoDuplicateFrontier
<1>1. IInv => NoDuplicateFrontier
  <2> SUFFICES ASSUME IInv, op # NoOp, op.reason = "continued", ColdPending(op.slot),
                      Len(op.text) = cold[op.slot]
               PROVE  FALSE
    BY DEF NoDuplicateFrontier
  <2>1. op.slot \in Slots
    BY StoreRuns
  <2>2. ContinuedDue(last[op.slot], cold[op.slot])
    BY DEF IInv, OpOK, OpReason
  <2> QED BY <2>1, <2>2 DEF IInv, SlotOK, Schedule
<1> QED BY Invariance, <1>1, PTL

\* Where every file can be removed, the payloads on disk stay within the budget.
THEOREM WithinBudget == "unlink" \notin Faults => (Spec => []PayloadsWithinBudget)
<1> SUFFICES ASSUME "unlink" \notin Faults PROVE Spec => []PayloadsWithinBudget
  OBVIOUS
<1>1. IInv => PayloadsWithinBudget
  <2> SUFFICES ASSUME IInv PROVE PayloadsWithinBudget
    OBVIOUS
  <2>1. /\ DOMAIN files \in SUBSET Texts /\ IsFiniteSet(DOMAIN files)
        /\ Payload(DOMAIN files) <= Budget
    BY DEF IInv, FilesOK
  <2>2. SumFunction([t \in DOMAIN files |-> Len(t)]) = Payload(DOMAIN files)
    BY <2>1, PayloadIs
  <2> QED BY <2>1, <2>2 DEF PayloadsWithinBudget
<1> QED BY Invariance, <1>1, PTL

\* A failed store cleans up after itself, and a crash leaves one file at most.
THEOREM OneLeftover == Spec => []OneLeftoverPerRun
<1>1. IInv => OneLeftoverPerRun
  BY DEF IInv, DebrisOK, OneLeftoverPerRun
<1> QED BY Invariance, <1>1, PTL

-----------------------------------------------------------------------------
(* With one slot, a conversation is stored before it is replaced.          *)

\* One slot, files that can be written, and a budget that the longest
\* conversation with the largest tool map fits.
Roomy == /\ \E s : Slots = {s}
         /\ "write" \notin Faults
         /\ \A c \in Contexts : Required(c + MaxMap) <= Budget

\* A checkpoint of the session that this server can use.
Saved(s) == tokens[s] \in DOMAIN files /\ files[tokens[s]].ctx <= ctx

\* The goal of the sync the slot is in, or will go back to.
Aim(s) == IF Place(s) = "cold_sync" THEN Take(prompt[s], cold[s]) ELSE prompt[s]

\* A session is saved before a checkpoint may replace it, and afterwards until
\* the prompt has replaced it; from there on it only grows towards its goal.
Keeping(s) == Alive(s) =>
    /\ pc[s] \in {"load", "closed"} => Saved(s)
    /\ pc[s] \in {"cold_sync", "sync", "rebuild"} => IsPrefix(tokens[s], Aim(s)) \/ Saved(s)
    /\ pc[s] = "store" /\ op.back \in {"cold_sync", "sync", "rebuild"} =>
          IsPrefix(tokens[s], Aim(s))
    /\ Place(s) = "cold_store" => IsPrefix(tokens[s], prompt[s])

\* What persists a session stores the session, and a trailer belongs to a
\* checkpoint this server can use.
Persists == op # NoOp =>
    /\ op.reason \in {"evict", "shutdown"} =>
          op.text = tokens[op.slot] /\ Len(op.text) >= MinTokens
    /\ op.stage = "trailer" => files[op.text].ctx <= ctx

KInv == Persists /\ \A s \in Slots : Keeping(s)

LEMMA RequiredGrows ==
    ASSUME NEW b \in Nat, NEW c \in Nat, b <= c
    PROVE  Required(b) <= Required(c)
<1> DEFINE bd == b \div 100
           cd == c \div 100
           bm == b % 100
           cm == c % 100
<1>1. /\ bd \in Nat /\ cd \in Nat /\ bm \in 0..99 /\ cm \in 0..99
      /\ b = 100 * bd + bm /\ c = 100 * cd + cm
  OBVIOUS
<1>2. /\ Required(b) = b + bd + (IF bm # 0 THEN 1 ELSE 0)
      /\ Required(c) = c + cd + (IF cm # 0 THEN 1 ELSE 0)
  BY DEF Required
<1> HIDE DEF bd, cd, bm, cm
<1>3. bd <= cd
  BY <1>1
<1>4. bd = cd => bm <= cm
  BY <1>1
<1>5. CASE bd = cd
  BY <1>1, <1>2, <1>4, <1>5
<1>6. CASE bd # cd
  BY <1>1, <1>2, <1>3, <1>6
<1> QED BY <1>5, <1>6

\* A text of the context fits.
LEMMA AlwaysFits ==
    ASSUME Roomy, IInv, op # NoOp
    PROVE  Fits(op.text, map)
<1>1. /\ Len(op.text) \in Nat /\ Len(op.text) <= ctx /\ ctx \in Contexts /\ map \in 0..MaxMap
      /\ ctx \in Nat /\ MaxMap \in Nat /\ Budget \in Nat
  BY StoreRuns, ConstantTypes
<1>2. /\ FileBytes(op.text, map) \in Nat /\ FileBytes(op.text, map) <= ctx + MaxMap
      /\ ctx + MaxMap \in Nat
  BY <1>1 DEF FileBytes
<1>3. Required(FileBytes(op.text, map)) <= Required(ctx + MaxMap)
  BY <1>2, RequiredGrows
<1>4. Required(ctx + MaxMap) <= Budget
  BY <1>1 DEF Roomy
<1>5. Required(FileBytes(op.text, map)) \in Nat /\ Required(ctx + MaxMap) \in Nat
  BY <1>2, RequiredCovers
<1> QED BY <1>1, <1>3, <1>4, <1>5 DEF Fits

\* The slot there is, and the store it makes.
LEMMA TheSlot ==
    ASSUME Roomy, IInv
    PROVE  /\ \A s, q \in Slots : s = q
           /\ op # NoOp => /\ op.slot \in Slots /\ pc[op.slot] = "store" /\ op.back # "store"
                           /\ op.back \in {"load", "closed"} => op.reason \in {"evict", "shutdown"}
                           /\ op.reason \in {"evict", "shutdown"} => op.back \in {"load", "closed"}
           /\ \A s \in Slots : pc[s] = "store" <=> op # NoOp
<1>1. \A s, q \in Slots : s = q
  BY DEF Roomy
<1>2. op # NoOp => /\ op.slot \in Slots /\ pc[op.slot] = "store" /\ op \in OpTypes
                   /\ op.back \in PCs \ {"store"} /\ op.reason \in Reasons /\ OpReason
  <2>1. op # NoOp => op \in OpTypes /\ OpReason
    BY DEF IInv, OpOK
  <2> QED BY <2>1 DEF IInv, OpOK, OpTypes
<1>3. op # NoOp => /\ op.back \in {"load", "closed"} => op.reason \in {"evict", "shutdown"}
                   /\ op.reason \in {"evict", "shutdown"} => op.back \in {"load", "closed"}
  BY <1>2 DEF OpReason, Reasons
<1>4. \A s \in Slots : pc[s] = "store" <=> op # NoOp
  BY <1>1, <1>2 DEF IInv, OpOK
<1> QED BY <1>1, <1>2, <1>3, <1>4

\* Where no session is at stake.
LEMMA NothingAtStake ==
    ASSUME NEW s \in Slots,
           pc'[s] \notin {"load", "closed", "cold_sync", "sync", "rebuild", "store", "cold_store"}
    PROVE  Keeping(s)'
<1>1. Place(s)' = pc'[s]
  BY DEF Place
<1> QED BY <1>1 DEF Keeping

LEMMA EmptyAtStake ==
    ASSUME NEW s \in Slots, tokens'[s] = NoText
    PROVE  Keeping(s)'
BY NoTextType, ConstantTypes DEF Keeping, Alive

\* A store that ends has saved the session, if that is what it was for.
LEMMA EndsSaved ==
    ASSUME Roomy, IInv, KInv, op # NoOp, NEW ok \in BOOLEAN, StoreEnds(ok),
           UNCHANGED <<processVars, sessionVars, planVars>>,
           op.reason \in {"evict", "shutdown"} /\ Alive(op.slot) => (tokens[op.slot] \in DOMAIN files' /\ files'[tokens[op.slot]].ctx <= ctx)
    PROVE  KInv'
<1>u. UNCHANGED <<ctx, tokens, valid, rewound, prompt, cold>>
  BY DEF processVars, sessionVars, planVars
<1>1. op' = NoOp
  BY DEF StoreEnds
<1>2. Persists'
  BY <1>1 DEF Persists
<1>3. ASSUME NEW s \in Slots
      PROVE  Keeping(s)'
  <2>1. /\ s = op.slot /\ pc[s] = "store" /\ op.back # "store" /\ SlotTypes
        /\ op.back \in {"load", "closed"} => op.reason \in {"evict", "shutdown"}
    BY TheSlot DEF IInv
  <2>2. pc'[s] = op.back
    BY <2>1 DEF StoreEnds, SlotTypes
  <2>3. Place(s)' = op.back /\ Place(s) = op.back
    BY <2>1, <2>2 DEF Place
  <2>4. Aim(s)' = Aim(s)
    BY <1>u, <2>3 DEF Aim
  <2>5. Keeping(s)
    BY DEF KInv
  <2>6. ASSUME Alive(s)
        PROVE  /\ op.back \in {"load", "closed"} => Saved(s)'
               /\ op.back \in {"cold_sync", "sync", "rebuild"} => IsPrefix(tokens[s], Aim(s))
               /\ op.back = "cold_store" => IsPrefix(tokens[s], prompt[s])
    <3>1. op.back \in {"load", "closed"} => Saved(s)'
      BY <1>u, <2>1, <2>6 DEF Saved
    <3>2. op.back \in {"cold_sync", "sync", "rebuild"} => IsPrefix(tokens[s], Aim(s))
      BY <2>1, <2>5, <2>6 DEF Keeping
    <3>3. op.back = "cold_store" => IsPrefix(tokens[s], prompt[s])
      BY <2>3, <2>5, <2>6 DEF Keeping
    <3> QED BY <3>1, <3>2, <3>3
  <2>7. Alive(s)' <=> Alive(s)
    BY <1>u DEF Alive, HasPayload
  <2> QED BY <1>u, <2>1, <2>2, <2>3, <2>4, <2>6, <2>7 DEF Keeping
<1> QED BY <1>2, <1>3 DEF KInv

\* A store that goes on puts nothing at stake.
LEMMA StageSaved ==
    ASSUME Roomy, IInv, KInv, op # NoOp, UNCHANGED slotVars, UNCHANGED <<ctx>>,
           op'.slot = op.slot, op'.text = op.text, op'.reason = op.reason, op'.back = op.back,
           op'.stage = "trailer" => files'[op.text].ctx <= ctx
    PROVE  KInv'
<1>1. Persists'
  BY DEF KInv, Persists, slotVars
<1>2. ASSUME NEW s \in Slots
      PROVE  Keeping(s)'
  <2>1. pc[s] = "store" /\ Keeping(s)
    BY TheSlot DEF KInv
  <2>2. Place(s)' = Place(s) /\ Aim(s)' = Aim(s) /\ pc'[s] = "store"
    BY <2>1 DEF Place, Aim, slotVars
  <2>3. Alive(s)' <=> Alive(s)
    BY DEF Alive, HasPayload, slotVars
  <2> QED BY <2>1, <2>2, <2>3 DEF Keeping, slotVars
<1> QED BY <1>1, <1>2 DEF KInv

LEMMA StoreSaves == ASSUME Roomy, IInv, KInv, StoreStep PROVE KInv'
<1>1. op.stage \in {"check", "trailer", "stage", "evict", "write"}
  BY DEF StoreStep, StoreRefused, StoreExisting, RewriteTrailer, ReplaceIncompatible, Stage,
         Absent, Evict, NoTemporary, CreateTemporary, Publish, WriteFails
<1>2. op # NoOp
  BY <1>1, NoOpIsNone
<1>3. /\ Fits(op.text, map) /\ "write" \notin Faults /\ Persists /\ op \in OpTypes
      /\ op.reason \in {"evict", "shutdown"} => op.text = tokens[op.slot] /\ Len(op.text) >= MinTokens
  BY <1>2, AlwaysFits DEF Roomy, KInv, Persists, IInv, OpOK
<1>4. ASSUME StoreRefused PROVE KInv'
  <2>1. StoreEnds(FALSE) /\ UNCHANGED <<processVars, sessionVars, planVars>>
    BY <1>4 DEF StoreRefused
  <2>2. op.reason \in {"evict", "shutdown"} => ~Alive(op.slot)
    BY <1>3, <1>4 DEF StoreRefused, Storable, Alive
  <2> QED BY <1>2, <2>1, <2>2, EndsSaved
<1>5. ASSUME StoreExisting PROVE KInv'
  <2>1. /\ op.text \in DOMAIN files /\ files[op.text].ctx <= ctx
        /\ UNCHANGED <<processVars, sessionVars, planVars>>
    BY <1>5 DEF StoreExisting, Compatible
  <2>2. CASE files' = files /\ StoreEnds(TRUE)
    BY <1>2, <1>3, <2>1, <2>2, EndsSaved
  <2>3. CASE /\ files' = [files EXCEPT ![op.text].map = 0]
             /\ op' = [op EXCEPT !.stage = "trailer"]
             /\ UNCHANGED <<last, pc, suppressed, written>>
    <3>1. UNCHANGED slotVars /\ UNCHANGED ctx
      BY <2>1, <2>3 DEF slotVars, processVars, sessionVars, planVars
    <3>2. op'.slot = op.slot /\ op'.text = op.text /\ op'.reason = op.reason /\ op'.back = op.back
      BY <1>3, <2>3 DEF OpTypes
    <3>3. files'[op.text].ctx <= ctx
      <4>1. files[op.text] \in FileTypes
        BY <2>1 DEF IInv, FilesOK
      <4>2. files'[op.text] = [files[op.text] EXCEPT !.map = 0]
        BY <2>1, <2>3
      <4> QED BY <2>1, <4>1, <4>2 DEF FileTypes
    <3> QED BY <1>2, <3>1, <3>2, <3>3, StageSaved
  <2> QED BY <1>5, <2>2, <2>3 DEF StoreExisting, diskVars
<1>6. ASSUME RewriteTrailer PROVE KInv'
  <2>1. op.stage = "trailer" /\ op.text \in DOMAIN files /\ StoreEnds(TRUE)
        /\ UNCHANGED <<processVars, sessionVars, planVars>>
    BY <1>2, <1>6 DEF RewriteTrailer, IInv, OpDisk
  <2>2. PICK m : files' = [files EXCEPT ![op.text].map = m]
    BY <1>6 DEF RewriteTrailer
  <2>3. op.text \in DOMAIN files' /\ files'[op.text].ctx <= ctx
    <3>1. files[op.text] \in FileTypes /\ files[op.text].ctx <= ctx
      BY <1>2, <1>3, <2>1 DEF IInv, FilesOK, Persists
    <3>2. files'[op.text] = [files[op.text] EXCEPT !.map = m] /\ DOMAIN files' = DOMAIN files
      BY <2>1, <2>2
    <3> QED BY <2>1, <3>1, <3>2 DEF FileTypes
  <2> QED BY <1>2, <1>3, <2>1, <2>3, EndsSaved
<1>7. ASSUME ReplaceIncompatible \/ Stage \/ Evict \/ CreateTemporary PROVE KInv'
  <2>1. /\ UNCHANGED <<processVars, sessionVars, planVars, last, pc, suppressed, written>>
        /\ \/ op' = [op EXCEPT !.stage = "stage"] \/ op' = [op EXCEPT !.stage = "write"]
           \/ op' = [op EXCEPT !.stage = "evict", !.est = map] \/ (op' = op /\ op.stage = "evict")
    BY <1>7 DEF ReplaceIncompatible, Stage, Evict, CreateTemporary
  <2>2. UNCHANGED slotVars /\ UNCHANGED ctx
    BY <2>1 DEF slotVars, processVars, sessionVars, planVars
  <2>3. /\ op'.slot = op.slot /\ op'.text = op.text /\ op'.reason = op.reason /\ op'.back = op.back
        /\ op'.stage # "trailer"
    BY <1>3, <2>1 DEF OpTypes
  <2> QED BY <1>2, <2>2, <2>3, StageSaved
<1>8. ASSUME Publish PROVE KInv'
  <2>1. /\ StoreEnds(TRUE) /\ UNCHANGED <<processVars, sessionVars, planVars>>
        /\ files' = With(files, op.text, [map |-> map, ctx |-> ctx])
    BY <1>8 DEF Publish
  <2>2. op.text \in DOMAIN files' /\ files'[op.text] = [map |-> map, ctx |-> ctx]
    BY <2>1 DEF With
  <2>3. files'[op.text].ctx <= ctx
    BY <2>2, ConstantTypes DEF IInv, ProcessOK
  <2> QED BY <1>2, <1>3, <2>1, <2>2, <2>3, EndsSaved
<1>9. ~NoTemporary /\ ~WriteFails
  BY <1>3 DEF NoTemporary, WriteFails
<1> QED BY <1>4, <1>5, <1>6, <1>7, <1>8, <1>9 DEF StoreStep

\* What a request step has to show for the one slot.
LEMMA RequestSaves ==
    ASSUME Roomy, NEW s \in Slots, Keeping(s)',
           op' = NoOp \/ (op'.stage = "check" /\
              (op'.reason \in {"evict", "shutdown"} =>
                  op'.text = tokens'[op'.slot] /\ Len(op'.text) >= MinTokens))
    PROVE  KInv'
<1>1. \A q \in Slots : q = s
  BY DEF Roomy
<1>2. \A q \in Slots : Keeping(q)'
  BY <1>1
<1>3. Persists'
  BY DEF Persists
<1> QED BY <1>2, <1>3 DEF KInv

LEMMA LoadSaves ==
    ASSUME Roomy, IInv, KInv, NEW s \in Slots, LoadMisses(s) \/ LoadHits(s) \/ LoadFails(s)
    PROVE  KInv'
<1>1. pc[s] = "load" /\ op = NoOp /\ op' = op /\ ctx' = ctx /\ pc[s] # "store"
  BY DEF LoadMisses, LoadHits, LoadFails, processVars
<1>2. /\ SlotTypes /\ Typed(s) /\ FilesOK /\ InContext(s) /\ Keeping(s)
      /\ Len(prompt[s]) \in Nat /\ Len(tokens[s]) \in Nat
  BY <1>1, AtSlot DEF KInv
<1>3. CASE PlanCold(s) /\ UNCHANGED <<files, tokens, valid, rewound>>
  <2>1. Alive(s)' => Saved(s)'
    BY <1>1, <1>2, <1>3 DEF Keeping, Saved, Alive, HasPayload
  <2>2. pc'[s] \in {"cold_sync", "sync"}
    BY <1>2, <1>3 DEF PlanCold, SlotTypes
  <2>3. Place(s)' = pc'[s]
    BY <2>2 DEF Place
  <2>4. Keeping(s)'
    BY <1>3, <2>1, <2>2, <2>3 DEF Keeping
  <2> QED BY <1>1, <2>4, RequestSaves
<1>4. CASE tokens' = [tokens EXCEPT ![s] = NoText]
  <2>1. tokens'[s] = NoText
    BY <1>2, <1>4 DEF SlotTypes
  <2> QED BY <1>1, <2>1, EmptyAtStake, RequestSaves
<1>5. CASE LoadHits(s)
  <2>1. PICK t \in Found(asked[s]) :
            /\ tokens' = [tokens EXCEPT ![s] = t]
            /\ prompt' = [prompt EXCEPT ![s] = t \o Drop(asked[s], Len(t))]
            /\ pc' = [pc EXCEPT ![s] = "sync"]
    BY <1>5 DEF LoadHits, Restore
  <2>2. t \in Texts /\ IsPrefix(t, asked[s]) /\ asked[s] \in Texts /\ prompt[s] = asked[s]
    BY <1>2 DEF Found, Usable, FilesOK, InContext, Typed
  <2>3. t \o Drop(asked[s], Len(t)) = asked[s]
    BY <2>2, PrefixAndRest
  <2>4. tokens'[s] = t /\ prompt'[s] = asked[s] /\ pc'[s] = "sync"
    BY <1>2, <2>1, <2>3 DEF SlotTypes
  <2>5. Place(s)' = "sync" /\ Aim(s)' = asked[s]
    BY <2>4 DEF Place, Aim
  <2>6. Keeping(s)'
    BY <2>2, <2>4, <2>5 DEF Keeping
  <2> QED BY <1>1, <2>6, RequestSaves
<1>6. LoadMisses(s) => PlanCold(s) /\ UNCHANGED <<files, tokens, valid, rewound>>
  BY DEF LoadMisses, diskVars, sessionVars
<1>7. LoadFails(s) => (PlanCold(s) /\ UNCHANGED <<files, tokens, valid, rewound>>)
                      \/ tokens' = [tokens EXCEPT ![s] = NoText]
  BY DEF LoadFails, Invalidate, sessionVars
<1> QED BY <1>3, <1>4, <1>5, <1>6, <1>7

LEMMA SyncSaves ==
    ASSUME Roomy, IInv, KInv, NEW s \in Slots, PrefillChunk(s) \/ SyncDone(s)
    PROVE  KInv'
<1>1. /\ Syncing(s) \/ pc[s] = "rebuild"
      /\ pc[s] \in {"cold_sync", "sync", "rebuild"} /\ op = NoOp /\ pc[s] # "store"
      /\ UNCHANGED <<ctx, prompt, cold>>
  BY DEF PrefillChunk, SyncDone, Syncing, processVars, planVars
<1>2. /\ SlotTypes /\ Typed(s) /\ InContext(s) /\ Len(prompt[s]) \in Nat /\ Place(s) = pc[s]
  BY <1>1, AtSlot
<1>3. /\ Goal(s) \in Texts /\ Len(Goal(s)) \in Nat /\ Len(Kept(s)) \in Nat
      /\ pc[s] # "cold_sync" => Goal(s) = prompt[s]
  BY <1>1, GoalIs
<1>4. CASE PrefillChunk(s)
  <2>1. PICK n \in Len(Kept(s)) + 1 .. Len(Goal(s)) :
            /\ tokens' = [tokens EXCEPT ![s] = Take(Goal(s), n)]
            /\ \/ BeginStore(s, Take(Goal(s), n), "continued", pc[s])
               \/ UNCHANGED <<op, pc>>
    BY <1>4, Zenon DEF PrefillChunk
  <2>2. n \in 0..Len(Goal(s))
    BY <1>3
  <2>3. tokens'[s] = Take(Goal(s), n) /\ IsPrefix(tokens'[s], Goal(s))
    BY <1>2, <1>3, <2>1, <2>2, TakeIsPrefix DEF SlotTypes
  <2>4. /\ Place(s)' = pc[s] /\ pc'[s] \notin {"load", "closed", "cold_store"}
        /\ op' = NoOp \/ (op'.stage = "check" /\ op'.reason = "continued")
    BY <1>1, <1>2, <2>1 DEF BeginStore, StoreOp, SlotTypes, Place
  <2>5. Aim(s)' = Goal(s)
    BY <1>1, <2>4 DEF Aim, Goal
  <2>6. Keeping(s)'
    BY <1>1, <2>3, <2>4, <2>5 DEF Keeping
  <2> QED BY <2>4, <2>6, RequestSaves
<1>5. CASE SyncDone(s)
  <2>1. /\ tokens[s] = Goal(s) /\ UNCHANGED <<op, tokens, valid>>
        /\ pc' = [pc EXCEPT ![s] = IF pc[s] = "cold_sync" THEN "cold_store" ELSE "synced"]
    BY <1>5 DEF SyncDone, sessionVars
  <2>2. pc'[s] \in {"cold_store", "synced"} /\ (pc'[s] = "cold_store" => pc[s] = "cold_sync")
    BY <1>2, <2>1 DEF SlotTypes
  <2>3. pc[s] = "cold_sync" => IsPrefix(tokens[s], prompt[s])
    <3> SUFFICES ASSUME pc[s] = "cold_sync" PROVE IsPrefix(tokens[s], prompt[s])
      OBVIOUS
    <3>1. prompt[s] \in Texts /\ cold[s] \in 0..Len(prompt[s])
      BY <1>2 DEF Typed, InContext
    <3> QED BY <2>1, <3>1, TakeIsPrefix DEF Goal
  <2>4. Place(s)' = pc'[s]
    BY <2>2 DEF Place
  <2>5. Keeping(s)'
    BY <1>1, <2>1, <2>2, <2>3, <2>4 DEF Keeping
  <2> QED BY <1>1, <2>1, <2>5, RequestSaves
<1> QED BY <1>4, <1>5

LEMMA TurnSaves ==
    ASSUME Roomy, IInv, KInv, NEW s \in Slots,
           \/ SyncFails(s) \/ Discard(s) \/ ContinuedStore(s) \/ HangUp(s) \/ Generate(s)
           \/ EvalFails(s) \/ StopSequence(s) \/ RewindWithout(s) \/ Finish(s)
    PROVE  KInv'
<1>1. pc[s] # "store" /\ SlotTypes /\ op = NoOp
  <2>1. pc[s] # "store"
    BY DEF SyncFails, Syncing, Discard, ContinuedStore, HangUp, Generate, EvalFails, StopSequence,
           RewindWithout, Finish
  <2> QED BY <2>1, TheSlot DEF IInv
<1>2. CASE EndRequest(s) /\ op' = op
  <2>1. pc'[s] = "idle"
    BY <1>1, <1>2 DEF EndRequest, SlotTypes
  <2> QED BY <1>1, <1>2, <2>1, NothingAtStake, RequestSaves
<1>3. CASE pc' = [pc EXCEPT ![s] = "discard"] /\ op' = op
  <2>1. pc'[s] = "discard"
    BY <1>1, <1>3 DEF SlotTypes
  <2> QED BY <1>1, <1>3, <2>1, NothingAtStake, RequestSaves
<1>4. CASE ContinuedStore(s)
  <2> DEFINE back == IF pc[s] = "synced" THEN "end_cold" ELSE "eval"
  <2>1. \/ BeginStore(s, tokens[s], "continued", back)
        \/ pc' = [pc EXCEPT ![s] = back] /\ op' = op
    BY <1>4 DEF ContinuedStore
  <2>2. back \in {"end_cold", "eval"}
    OBVIOUS
  <2> HIDE DEF back
  <2>3. /\ Place(s)' \in {"end_cold", "eval"} /\ pc'[s] \in {"end_cold", "eval", "store"}
        /\ pc'[s] = "store" => op'.back \in {"end_cold", "eval"}
        /\ op' = NoOp \/ (op'.stage = "check" /\ op'.reason = "continued")
    BY <1>1, <2>1, <2>2 DEF BeginStore, StoreOp, SlotTypes, Place
  <2>4. Keeping(s)'
    BY <2>3 DEF Keeping
  <2> QED BY <2>3, <2>4, RequestSaves
<1>5. CASE Generate(s) \/ RewindWithout(s)
  <2>1. pc'[s] \in {"gen", "ended"} /\ op' = op
    BY <1>1, <1>5 DEF Generate, RewindWithout, SlotTypes
  <2> QED BY <1>1, <2>1, NothingAtStake, RequestSaves
<1> QED BY <1>2, <1>3, <1>4, <1>5 DEF SyncFails, Discard, HangUp, EvalFails, StopSequence, Finish

LEMMA RebuildSaves == ASSUME Roomy, IInv, KInv, NEW s \in Slots, Canonicalize(s) PROVE KInv'
<1>1. /\ pc[s] \in {"gen", "ended"} /\ pc[s] # "store" /\ op = NoOp /\ op' = op
      /\ pc' = [pc EXCEPT ![s] = "rebuild"]
  BY DEF Canonicalize
<1>2. SlotTypes /\ FilesOK
  BY DEF IInv
<1>3. PICK p \in Prompts :
          /\ prompt' = [prompt EXCEPT ![s] = p]
          /\ \/ IsPrefix(tokens[s], p) /\ UNCHANGED <<files, sessionVars>>
             \/ \E t \in Found(p) : Restore(s, t) /\ cached' = [cached EXCEPT ![s] = Len(t)]
             \/ Invalidate(s)
  BY Zenon DEF Canonicalize
<1>4. pc'[s] = "rebuild" /\ prompt'[s] = p
  BY <1>1, <1>2, <1>3 DEF SlotTypes
<1>5. Place(s)' = "rebuild" /\ Aim(s)' = p
  BY <1>4 DEF Place, Aim
<1>6. IsPrefix(tokens'[s], p) \/ tokens'[s] = NoText
  <2>1. CASE IsPrefix(tokens[s], p) /\ UNCHANGED <<files, sessionVars>>
    BY <2>1 DEF sessionVars
  <2>2. CASE \E t \in Found(p) : Restore(s, t) /\ cached' = [cached EXCEPT ![s] = Len(t)]
    <3>1. PICK t \in Found(p) : tokens' = [tokens EXCEPT ![s] = t]
      BY <2>2 DEF Restore
    <3> QED BY <1>2, <3>1 DEF Found, Usable, SlotTypes
  <2>3. CASE Invalidate(s)
    BY <1>2, <2>3 DEF Invalidate, SlotTypes
  <2> QED BY <1>3, <2>1, <2>2, <2>3
<1>7. CASE IsPrefix(tokens'[s], p)
  <2>1. Keeping(s)'
    BY <1>4, <1>5, <1>7 DEF Keeping
  <2> QED BY <1>1, <2>1, RequestSaves
<1>8. CASE tokens'[s] = NoText
  BY <1>1, <1>8, EmptyAtStake, RequestSaves
<1> QED BY <1>6, <1>7, <1>8

LEMMA ColdSaves == ASSUME Roomy, IInv, KInv, NEW s \in Slots, ColdStore(s) PROVE KInv'
<1> DEFINE back == IF pc[s] = "cold_store" THEN "sync" ELSE "gen"
<1>1. /\ pc[s] \in {"cold_store", "end_cold"} /\ op = NoOp
      /\ UNCHANGED <<ctx, tokens, valid, rewound, prompt, cold>>
      /\ \/ BeginStore(s, Take(prompt[s], cold[s]), "cold", back)
         \/ pc' = [pc EXCEPT ![s] = back] /\ op' = op /\ pc[s] = "end_cold"
  BY DEF ColdStore, processVars, sessionVars, planVars
<1>2. SlotTypes /\ Place(s) = pc[s] /\ Keeping(s)
  BY <1>1, AtSlot DEF KInv
<1>3. back \in {"sync", "gen"} /\ (back = "sync" => pc[s] = "cold_store")
      /\ (pc[s] = "end_cold" => back = "gen")
  BY <1>1
<1> HIDE DEF back
<1>4. /\ Place(s)' = back /\ pc'[s] \in {"store", "gen"}
      /\ pc'[s] = "store" => op'.back = back
      /\ op' = NoOp \/ (op'.stage = "check" /\ op'.reason = "cold")
  BY <1>1, <1>2, <1>3 DEF BeginStore, StoreOp, SlotTypes, Place
<1>5. back = "sync" => Aim(s)' = prompt[s]
  BY <1>1, <1>4 DEF Aim
<1>6. Alive(s)' <=> Alive(s)
  BY <1>1 DEF Alive, HasPayload
<1>7. Keeping(s)'
  BY <1>1, <1>2, <1>3, <1>4, <1>5, <1>6 DEF Keeping
<1> QED BY <1>4, <1>7, RequestSaves

LEMMA BeginSaves ==
    ASSUME Roomy, IInv, KInv, NEW s \in Slots, NEW p \in Prompts, Begin(s, p)
    PROVE  KInv'
<1> DEFINE hit == valid[s] /\ tokens[s] # NoText /\ IsPrefix(tokens[s], p)
<1>1. /\ pc[s] = "idle" /\ op = NoOp /\ UNCHANGED <<ctx, tokens, valid>>
      /\ prompt' = [prompt EXCEPT ![s] = p]
  BY DEF Begin, processVars, sessionVars
<1>2. SlotTypes
  BY DEF IInv
<1>3. \/ Len(tokens[s]) >= MinTokens /\ BeginStore(s, tokens[s], "evict", "load")
      \/ hit /\ pc' = [pc EXCEPT ![s] = "sync"] /\ op' = op
      \/ ~(Len(tokens[s]) >= MinTokens) /\ op' = op
  BY DEF Begin
<1>4. CASE Len(tokens[s]) >= MinTokens /\ BeginStore(s, tokens[s], "evict", "load")
  <2>1. /\ op' = StoreOp(s, tokens[s], "evict", "load") /\ pc'[s] = "store"
    BY <1>2, <1>4 DEF BeginStore, SlotTypes
  <2>2. op'.stage = "check" /\ op'.back = "load" /\ op'.text = tokens'[op'.slot]
    BY <1>1, <2>1 DEF StoreOp
  <2>3. Len(op'.text) >= MinTokens
    BY <1>4, <2>1 DEF StoreOp
  <2>4. Keeping(s)'
    BY <2>1, <2>2 DEF Keeping, Place
  <2> QED BY <2>2, <2>3, <2>4, RequestSaves
<1>5. CASE hit /\ pc' = [pc EXCEPT ![s] = "sync"] /\ op' = op
  <2>1. pc'[s] = "sync" /\ prompt'[s] = p /\ IsPrefix(tokens[s], p)
    BY <1>1, <1>2, <1>5 DEF SlotTypes
  <2>2. Place(s)' = "sync" /\ Aim(s)' = p
    BY <2>1 DEF Place, Aim
  <2>3. Keeping(s)'
    BY <1>1, <2>1, <2>2 DEF Keeping
  <2> QED BY <1>1, <1>5, <2>3, RequestSaves
<1>6. CASE ~(Len(tokens[s]) >= MinTokens) /\ op' = op
  <2>1. Keeping(s)'
    BY <1>1, <1>6 DEF Keeping, Alive
  <2> QED BY <1>1, <1>6, <2>1, RequestSaves
<1> QED BY <1>3, <1>4, <1>5, <1>6

LEMMA PersistSaves == ASSUME Roomy, IInv, KInv, NEW s \in Slots, PersistSlot(s) PROVE KInv'
<1>1. /\ pc[s] = "idle" /\ op = NoOp /\ UNCHANGED <<ctx, tokens, valid>>
      /\ \/ Len(tokens[s]) >= MinTokens /\ BeginStore(s, tokens[s], "shutdown", "closed")
         \/ ~(Len(tokens[s]) >= MinTokens) /\ op' = op
  BY DEF PersistSlot, processVars, sessionVars
<1>2. SlotTypes
  BY DEF IInv
<1>3. CASE Len(tokens[s]) >= MinTokens /\ BeginStore(s, tokens[s], "shutdown", "closed")
  <2>1. /\ op' = StoreOp(s, tokens[s], "shutdown", "closed") /\ pc'[s] = "store"
    BY <1>2, <1>3 DEF BeginStore, SlotTypes
  <2>2. op'.stage = "check" /\ op'.back = "closed" /\ op'.text = tokens'[op'.slot]
    BY <1>1, <2>1 DEF StoreOp
  <2>3. Len(op'.text) >= MinTokens
    BY <1>3, <2>1 DEF StoreOp
  <2>4. Keeping(s)'
    BY <2>1, <2>2 DEF Keeping, Place
  <2> QED BY <2>2, <2>3, <2>4, RequestSaves
<1>4. CASE ~(Len(tokens[s]) >= MinTokens) /\ op' = op
  <2>1. Keeping(s)'
    BY <1>1, <1>4 DEF Keeping, Alive
  <2> QED BY <1>1, <1>4, <2>1, RequestSaves
<1> QED BY <1>1, <1>3, <1>4

\* The steps of the process: no slot changes, or none has a session.
LEMMA ProcessSaves ==
    ASSUME Roomy, IInv, KInv,
           ToolMapChanges \/ Open \/ Shutdown \/ End \/ Start \/ UNCHANGED vars
    PROVE  KInv'
<1>1. CASE UNCHANGED <<files, ctx, op>> /\ UNCHANGED slotVars
  <2>1. Persists'
    BY <1>1 DEF KInv, Persists, slotVars
  <2>2. ASSUME NEW s \in Slots
        PROVE  Keeping(s)'
    <3>1. /\ Place(s)' = Place(s) /\ Aim(s)' = Aim(s) /\ (Saved(s)' <=> Saved(s)) /\ Keeping(s)
          /\ Alive(s)' <=> Alive(s)
      BY <1>1 DEF Place, Aim, Saved, Alive, HasPayload, slotVars, KInv
    <3> QED BY <1>1, <3>1 DEF Keeping, slotVars
  <2> QED BY <2>1, <2>2 DEF KInv
<1>2. CASE Open \/ Start
  <2>1. UNCHANGED slotVars /\ op' = op /\ phase \in {"opening", "down"}
    BY <1>2 DEF Open, Start, sessionVars, planVars, slotVars
  <2>2. \A s \in Slots : pc[s] = "idle"
    BY <2>1 DEF IInv, ProcessOK
  <2>3. \A s \in Slots : pc'[s] = "idle"
    BY <2>1, <2>2 DEF slotVars
  <2>4. op' = NoOp
    BY <2>1, <2>2, TheSlot
  <2>5. Persists'
    BY <2>4 DEF Persists
  <2>6. \A s \in Slots : Keeping(s)'
    BY <2>3, NothingAtStake
  <2> QED BY <2>5, <2>6 DEF KInv
<1>3. CASE End
  <2>1. op' = NoOp /\ tokens' = [s \in Slots |-> NoText]
    BY <1>3 DEF End
  <2>2. Persists'
    BY <2>1 DEF Persists
  <2>3. \A s \in Slots : Keeping(s)'
    BY <2>1, EmptyAtStake
  <2> QED BY <2>2, <2>3 DEF KInv
<1>4. ToolMapChanges \/ Shutdown => UNCHANGED <<files, ctx, op>> /\ UNCHANGED slotVars
  BY DEF ToolMapChanges, Shutdown, diskVars, sessionVars, planVars, slotVars
<1>5. UNCHANGED vars => UNCHANGED <<files, ctx, op>> /\ UNCHANGED slotVars
  BY DEF vars, slotVars
<1> QED BY <1>1, <1>2, <1>3, <1>4, <1>5

LEMMA NextSaves == Roomy /\ IInv /\ KInv /\ [Next]_vars => KInv'
<1> SUFFICES ASSUME Roomy, IInv, KInv, [Next]_vars PROVE KInv'
  OBVIOUS
<1>1. CASE StoreStep
  BY <1>1, StoreSaves
<1>2. ASSUME NEW s \in Slots, RequestStep(s)
      PROVE  KInv'
  BY <1>2, LoadSaves, SyncSaves, TurnSaves, ColdSaves, RebuildSaves DEF RequestStep
<1>3. ASSUME NEW s \in Slots, PersistSlot(s)
      PROVE  KInv'
  BY <1>3, PersistSaves
<1>4. ASSUME NEW s \in Slots, NEW p \in Prompts, Begin(s, p)
      PROVE  KInv'
  BY <1>4, BeginSaves
<1>5. CASE ToolMapChanges \/ Open \/ Shutdown \/ End \/ Start \/ Rest \/ UNCHANGED vars
  BY <1>5, ProcessSaves DEF Rest
<1> QED BY <1>1, <1>2, <1>3, <1>4, <1>5 DEF Next

LEMMA InitSaves == Init => KInv
<1> SUFFICES ASSUME Init PROVE KInv
  OBVIOUS
<1>1. Persists
  BY DEF Init, Persists
<1>2. ASSUME NEW s \in Slots
      PROVE  Keeping(s)
  BY DEF Init, Keeping, Alive, HasPayload
<1> QED BY <1>1, <1>2 DEF KInv

\* A step takes a session out of memory only where it is saved.
LEMMA StepSaved ==
    ASSUME Roomy, IInv, KInv, RewoundTyped, [Next]_vars, NEW s \in Slots,
           Alive(s), ~Continues(s),
           phase = "up" \/ (phase = "closing" /\ \A q \in Slots : pc[q] = "closed"),
           phase' = "down" => phase = "closing",
           pc[s] # "discard", ~PromptFails(s), ~AnswerEnds(s)
    PROVE  Saved(s)
<1>1. /\ SlotTypes /\ tokens[s] \in Texts /\ Keeping(s) /\ \A q \in Slots : q = s
      /\ valid[s] = TRUE /\ rewound[s] = FALSE /\ HasPayload(s) /\ Len(tokens[s]) >= MinTokens
  <2>1. SlotTypes /\ Keeping(s) /\ \A q \in Slots : q = s
    BY TheSlot DEF IInv, KInv
  <2>2. /\ tokens[s] \in Texts /\ valid[s] \in BOOLEAN /\ rewound[s] \in BOOLEAN
    BY <2>1 DEF SlotTypes, RewoundTyped
  <2> QED BY <2>1, <2>2 DEF Alive, HasPayload
<1>2. ~UNCHANGED sessionVars
  <2> SUFFICES ASSUME UNCHANGED sessionVars PROVE FALSE
    OBVIOUS
  <2>1. HasPayload(s)' /\ tokens'[s] = tokens[s]
    BY <1>1 DEF HasPayload, sessionVars
  <2> QED BY <1>1, <2>1, PrefixItself DEF Continues
<1>3. CASE pc[s] \in {"load", "closed"}
  BY <1>1, <1>3 DEF Keeping
<1>4. ASSUME Syncing(s) \/ pc[s] = "rebuild", NEW n \in Len(Kept(s)) .. Len(Goal(s)),
             tokens'[s] = Take(Goal(s), n), n > 0 => HasPayload(s)'
      PROVE  Saved(s)
  <2>1. Goal(s) \in Texts /\ Len(Goal(s)) \in Nat /\ Len(Kept(s)) \in Nat
    BY <1>4, GoalIs
  <2>2. pc[s] \in {"cold_sync", "sync", "rebuild"} /\ Aim(s) = Goal(s)
    BY <1>4 DEF Syncing, Aim, Goal, Place
  <2>3. CASE IsPrefix(tokens[s], Goal(s))
    <3>1. Kept(s) = tokens[s]
      BY <1>1, <2>3 DEF Kept
    <3>2. n \in 0..Len(Goal(s)) /\ Len(tokens[s]) <= n /\ n > 0
      BY <1>1, <2>1, <3>1, ConstantTypes
    <3>3. IsPrefix(tokens[s], Take(Goal(s), n))
      BY <1>1, <2>1, <2>3, <3>2, PrefixOfTake
    <3> QED BY <1>4, <3>2, <3>3 DEF Continues
  <2>4. CASE ~IsPrefix(tokens[s], Goal(s))
    BY <1>1, <2>2, <2>4 DEF Keeping
  <2> QED BY <2>3, <2>4
<1>5. CASE LoadMisses(s) \/ LoadHits(s) \/ LoadFails(s)
  BY <1>3, <1>5 DEF LoadMisses, LoadHits, LoadFails
<1>6. CASE PrefillChunk(s)
  <2>1. PICK n \in Len(Kept(s)) + 1 .. Len(Goal(s)) : tokens' = [tokens EXCEPT ![s] = Take(Goal(s), n)]
    BY <1>6, Zenon DEF PrefillChunk
  <2>2. /\ Syncing(s) \/ pc[s] = "rebuild"
        /\ valid' = [valid EXCEPT ![s] = TRUE] /\ rewound' = [rewound EXCEPT ![s] = FALSE]
    BY <1>6 DEF PrefillChunk
  <2>3. n \in Len(Kept(s)) .. Len(Goal(s))
    BY <2>2, GoalIs
  <2>4. tokens'[s] = Take(Goal(s), n) /\ HasPayload(s)'
    BY <1>1, <2>1, <2>2 DEF SlotTypes, RewoundTyped, HasPayload
  <2> QED BY <1>4, <2>2, <2>3, <2>4
<1>7. CASE SyncFails(s)
  <2>1. Syncing(s) /\ pc[s] \in {"cold_sync", "sync"} /\ Aim(s) = Goal(s)
    BY <1>7 DEF SyncFails, Syncing, Aim, Goal, Place
  <2>2. CASE tokens' = [tokens EXCEPT ![s] = Kept(s)] /\ valid' = [valid EXCEPT ![s] = FALSE]
    <3>1. tokens'[s] = Kept(s) /\ ~valid'[s]
      BY <1>1, <2>2 DEF SlotTypes
    <3>2. tokens'[s] # tokens[s]
      BY <2>1, <3>1 DEF PromptFails
    <3>3. ~IsPrefix(tokens[s], Goal(s))
      BY <1>1, <3>1, <3>2 DEF Kept
    <3> QED BY <1>1, <2>1, <3>3 DEF Keeping
  <2>3. CASE \E n \in Len(Kept(s)) .. Len(Goal(s)) :
                /\ tokens' = [tokens EXCEPT ![s] = Take(Goal(s), n)]
                /\ valid' = [valid EXCEPT ![s] = n > 0]
                /\ rewound' = [rewound EXCEPT ![s] = rewound[s] /\ n = Len(Kept(s))]
    <3>1. PICK n \in Len(Kept(s)) .. Len(Goal(s)) :
                /\ tokens' = [tokens EXCEPT ![s] = Take(Goal(s), n)]
                /\ valid' = [valid EXCEPT ![s] = n > 0]
                /\ rewound' = [rewound EXCEPT ![s] = rewound[s] /\ n = Len(Kept(s))]
      BY <2>3
    <3>2. tokens'[s] = Take(Goal(s), n) /\ valid'[s] = (n > 0) /\ ~rewound'[s]
      BY <1>1, <3>1 DEF SlotTypes, RewoundTyped
    <3>3. n > 0 => HasPayload(s)'
      BY <3>2 DEF HasPayload
    <3> QED BY <1>4, <2>1, <3>2, <3>3
  <2> QED BY <1>2, <1>7, <2>2, <2>3 DEF SyncFails
<1>8. CASE Generate(s)
  <2>1. PICK w \in Sampled : tokens' = [tokens EXCEPT ![s] = Append(tokens[s], w)]
    BY <1>8 DEF Generate
  <2>2. w \in Words /\ tokens'[s] = Append(tokens[s], w)
    BY <1>1, <2>1, ConstantTypes DEF SlotTypes
  <2>3. HasPayload(s)'
    BY <1>1, <1>8 DEF Generate, HasPayload, RewoundTyped
  <2> QED BY <1>1, <2>2, <2>3, PrefixOfAppend DEF Continues
<1>9. CASE EvalFails(s) \/ StopSequence(s) \/ RewindWithout(s) \/ Canonicalize(s)
  <2>1. pc[s] \in {"gen", "eval", "ended", "rebuild"}
    BY <1>9 DEF EvalFails, StopSequence, RewindWithout, Canonicalize
  <2>2. pc'[s] \in {"idle", "ended", "rebuild"}
    BY <1>1, <1>9 DEF EvalFails, StopSequence, RewindWithout, Canonicalize, EndRequest, SlotTypes
  <2> QED BY <2>1, <2>2 DEF AnswerEnds
<1>10. CASE End
  <2>1. pc[s] = "closed"
    BY <1>10 DEF End
  <2> QED BY <1>3, <2>1
<1>11. ~Discard(s)
  BY DEF Discard
<1>12. SyncDone(s) \/ ColdStore(s) \/ ContinuedStore(s) \/ HangUp(s) \/ Finish(s) \/ PersistSlot(s)
       \/ StoreStep => UNCHANGED sessionVars
  BY DEF SyncDone, ColdStore, ContinuedStore, HangUp, Finish, PersistSlot, StoreStep, StoreRefused,
         StoreExisting, RewriteTrailer, ReplaceIncompatible, Stage, Evict, NoTemporary,
         CreateTemporary, Publish, WriteFails
<1>13. (\E p \in Prompts : Begin(s, p)) => UNCHANGED sessionVars
  BY DEF Begin
<1>14. ToolMapChanges \/ Open \/ Shutdown \/ Start \/ Rest \/ UNCHANGED vars => UNCHANGED sessionVars
  BY DEF ToolMapChanges, Open, Shutdown, Start, Rest, sessionVars, vars
<1>15. RequestStep(s) => Saved(s)
  BY <1>2, <1>5, <1>6, <1>7, <1>8, <1>9, <1>11, <1>12 DEF RequestStep
<1> QED BY <1>1, <1>2, <1>10, <1>12, <1>13, <1>14, <1>15 DEF Next

\* A server with one slot, where the longest conversation fits the budget and
\* writes succeed: what a step takes out of memory has a checkpoint this server
\* can use, whatever loads, unlinks, prompts and clients do, but for the five
\* cases that ConversationKept names, in which the code stores nothing.
THEOREM ConversationIsKept == Roomy => (Spec => ConversationKept)
<1> SUFFICES ASSUME Roomy PROVE Spec => ConversationKept
  OBVIOUS
<1>1. IInv /\ KInv /\ [Next]_vars => KInv'
  BY NextSaves
<1>2. Spec => []KInv
  BY InitSaves, Invariance, <1>1, PTL DEF Spec
<1>3. IInv /\ KInv /\ RewoundTyped /\ [Next]_vars =>
        [\A s \in Slots :
          /\ Alive(s) /\ ~Continues(s)
          /\ phase = "up" \/ (phase = "closing" /\ \A q \in Slots : pc[q] = "closed")
          /\ phase' = "down" => phase = "closing"
          /\ pc[s] # "discard" /\ ~PromptFails(s) /\ ~AnswerEnds(s)
          => tokens[s] \in DOMAIN files /\ files[tokens[s]].ctx <= ctx]_vars
  BY StepSaved DEF Saved
<1> QED BY Invariance, RewoundIsTyped, <1>2, <1>3, PTL DEF Spec, ConversationKept
=============================================================================
