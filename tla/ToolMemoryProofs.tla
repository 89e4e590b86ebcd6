-------------------------- MODULE ToolMemoryProofs --------------------------
(***************************************************************************)
(* For every set of clients, every limit of the memory, every size of the  *)
(* texts and every set of checkpoints: blocks are shared and freed as they *)
(* are used, and the byte counter is their true size; and, as long as no   *)
(* map is rewritten while a thread reads it, what is forgotten is what was *)
(* used least recently, and maps and replays are honest.                   *)
(*                                                                         *)
(* What makes it inductive: wherever a text is next to an id, in the       *)
(* memory, in what has still to be put, in a map on disk, in one that is   *)
(* written or unlinked, in the hands of a reader, it is the text of that   *)
(* id (Right); a map that is written has room for what is still to come,   *)
(* and what is to come stays in the memory, for its writer has the lock; a *)
(* thread between the id and the text of a record stands at that record    *)
(* (ReaderOK), which is what an overlap breaks; and the list of the memory *)
(* is in order, the ids that are ahead of an id in it being those used     *)
(* after it.                                                               *)
(***************************************************************************)
EXTENDS ToolMemory, SumProofs, SequenceTheorems

-----------------------------------------------------------------------------
(* The memory by itself: what one put and one removal do to it.            *)

Users(m, b) == {id \in DOMAIN m.entry : m.entry[id] = b}

\* MemoryTypeOK and SharingExact, of any memory.
Shape(m) ==
    /\ DOMAIN m = {"entry", "newer", "refs", "entries", "bytes"}
    /\ DOMAIN m.entry \subseteq Ids
    /\ m.entry \in [DOMAIN m.entry -> Blocks]
    /\ m.newer \in [DOMAIN m.entry -> SUBSET DOMAIN m.entry]
    /\ m.refs \in [DOMAIN m.refs -> Nat \ {0}]
    /\ m.entries \in Nat /\ m.bytes \in Nat

Shared(m) ==
    /\ m.entries = Cardinality(DOMAIN m.entry)
    /\ DOMAIN m.refs = {m.entry[id] : id \in DOMAIN m.entry}
    /\ \A b \in DOMAIN m.refs : m.refs[b] = Cardinality(Users(m, b))

Sound(m) == Shape(m) /\ Shared(m)

\* There are finitely many ids, so the entries can be counted.
LEMMA IdsFinite ==
    ASSUME NEW S \in SUBSET Ids
    PROVE  IsFiniteSet(S) /\ Cardinality(S) \in Nat
<1>1. IsFiniteSet(Ids)
  BY FS_Interval, ToolMemoryAssumption DEF Ids
<1> QED BY <1>1, FS_Subset, FS_CardinalityType

\* The entries with a text are counted one more or one less.
LEMMA UsersFinite ==
    ASSUME NEW m, Shape(m), NEW b
    PROVE  /\ IsFiniteSet(Users(m, b)) /\ Cardinality(Users(m, b)) \in Nat
           /\ Cardinality(Users(m, b)) = 0 <=> Users(m, b) = {}
<1>1. Users(m, b) \in SUBSET Ids
  BY DEF Users, Shape
<1> QED BY <1>1, IdsFinite, FS_EmptySet

LEMMA LessType ==
    ASSUME NEW n \in Nat, NEW k \in Nat
    PROVE  Less(n, k) \in Nat
BY DEF Less

\* A removal takes out one entry, and its block with the last of them.
LEMMA RemoveSound ==
    ASSUME NEW m, Sound(m), NEW id \in DOMAIN m.entry
    PROVE  /\ Sound(Remove(m, id))
           /\ DOMAIN Remove(m, id).entry = DOMAIN m.entry \ {id}
           /\ \A i \in DOMAIN m.entry \ {id} : Remove(m, id).entry[i] = m.entry[i]
<1> DEFINE b == m.entry[id]
           last == m.refs[b] <= 1
           n == Remove(m, id)
<1>b. b \in DOMAIN m.refs /\ b \in Blocks /\ m.refs[b] \in Nat \ {0} /\ id \in Users(m, b)
  BY DEF Sound, Shape, Shared, Users
<1>n. /\ DOMAIN n = {"entry", "newer", "refs", "entries", "bytes"}
      /\ n.entry = Without(m.entry, id)
      /\ n.newer = [i \in DOMAIN m.newer \ {id} |-> m.newer[i] \ {id}]
      /\ n.refs = IF last THEN Without(m.refs, b) ELSE [m.refs EXCEPT ![b] = @ - 1]
      /\ n.entries = Less(m.entries, 1)
      /\ n.bytes = Less(Less(m.bytes, EntryBytes), IF last THEN BlockBytes[b] ELSE 0)
  BY DEF Remove
<1>e. /\ DOMAIN n.entry = DOMAIN m.entry \ {id}
      /\ \A i \in DOMAIN m.entry \ {id} : n.entry[i] = m.entry[i]
  BY <1>n DEF Without
<1>r. /\ DOMAIN n.refs = IF last THEN DOMAIN m.refs \ {b} ELSE DOMAIN m.refs
      /\ \A c \in DOMAIN n.refs : n.refs[c] = IF c = b THEN m.refs[c] - 1 ELSE m.refs[c]
  BY <1>n, <1>b DEF Without
<1>u. /\ \A c : c # b => Users(n, c) = Users(m, c)
      /\ Users(n, b) = Users(m, b) \ {id}
  BY <1>e DEF Users
<1>k. Cardinality(Users(n, b)) = m.refs[b] - 1
  <2>1. IsFiniteSet(Users(m, b)) /\ m.refs[b] = Cardinality(Users(m, b))
    BY <1>b, UsersFinite DEF Sound, Shared
  <2>2. id \in Users(m, b)
    BY <1>b
  <2>3. Cardinality(Users(m, b) \ {id}) = Cardinality(Users(m, b)) - 1
    <3> HIDE DEF b
    <3> QED BY <2>1, <2>2, FS_RemoveElement
  <2> QED BY <2>1, <2>3, <1>u
<1>1. Shape(n)
  <2>1. n.entry \in [DOMAIN n.entry -> Blocks] /\ DOMAIN n.entry \subseteq Ids
    BY <1>e, <1>n DEF Sound, Shape, Without
  <2>2. n.newer \in [DOMAIN n.entry -> SUBSET DOMAIN n.entry]
    BY <1>e, <1>n DEF Sound, Shape
  <2>3. n.refs \in [DOMAIN n.refs -> Nat \ {0}]
    <3>1. \A c \in DOMAIN n.refs : n.refs[c] \in Nat \ {0}
      BY <1>r, <1>b DEF Sound, Shape
    <3>2. n.refs = [c \in DOMAIN n.refs |-> n.refs[c]]
      BY <1>n DEF Without, Sound, Shape
    <3> QED BY <3>1, <3>2
  <2>4. n.entries \in Nat /\ n.bytes \in Nat
    <3>1. EntryBytes \in Nat /\ BlockBytes[b] \in Nat
      BY <1>b, ToolMemoryAssumption
    <3>2. Less(m.bytes, EntryBytes) \in Nat
      BY <3>1, LessType DEF Sound, Shape
    <3>3. (IF last THEN BlockBytes[b] ELSE 0) \in Nat
      BY <3>1
    <3>5. n.bytes \in Nat
      <4> HIDE DEF last, b, n
      <4> QED BY <1>n, <3>2, <3>3, LessType
    <3>4. n.entries \in Nat
      BY <1>n, LessType DEF Sound, Shape
    <3> QED BY <3>4, <3>5
  <2> QED BY <2>1, <2>2, <2>3, <2>4, <1>n DEF Shape
<1>2. Shared(n)
  <2>1. n.entries = Cardinality(DOMAIN n.entry)
    <3>1. IsFiniteSet(DOMAIN m.entry) /\ Cardinality(DOMAIN m.entry) \in Nat
      BY IdsFinite DEF Sound, Shape
    <3>2. Cardinality(DOMAIN m.entry \ {id}) = Cardinality(DOMAIN m.entry) - 1
      BY <3>1, FS_RemoveElement
    <3>3. Cardinality(DOMAIN m.entry) >= 1
      <4>1. Cardinality(DOMAIN m.entry) # 0
        BY <3>1, FS_EmptySet
      <4> QED BY <4>1, <3>1
    <3> QED BY <1>e, <1>n, <3>1, <3>2, <3>3 DEF Sound, Shared, Less
  <2>2. last <=> Users(n, b) = {}
    <3>1. Cardinality(Users(n, b)) = 0 <=> Users(n, b) = {}
      BY <1>1, UsersFinite
    <3> QED BY <3>1, <1>k, <1>b
  <2>3. \A c : c \in {n.entry[i] : i \in DOMAIN n.entry} <=> Users(n, c) # {}
    BY DEF Users
  <2>4. \A c : c \in DOMAIN m.refs <=> Users(m, c) # {}
    BY DEF Users, Sound, Shared
  <2>5. \A c : c \in DOMAIN n.refs <=> Users(n, c) # {}
    BY <2>2, <2>4, <1>r, <1>u, <1>b
  <2>6. DOMAIN n.refs = {n.entry[i] : i \in DOMAIN n.entry}
    BY <2>3, <2>5
  <2>7. ASSUME NEW c \in DOMAIN n.refs
        PROVE  n.refs[c] = Cardinality(Users(n, c))
    <3>1. CASE c = b
      BY <3>1, <1>r, <1>k, <2>7
    <3>2. CASE c # b
      BY <3>2, <1>r, <1>u, <2>7 DEF Sound, Shared
    <3> QED BY <3>1, <3>2
  <2> QED BY <2>1, <2>6, <2>7 DEF Shared
<1> QED BY <1>1, <1>2, <1>e DEF Sound

\* An insertion adds one entry, and its block if it is the first of them.
LEMMA InsertSound ==
    ASSUME NEW m, Sound(m), NEW id \in Ids \ DOMAIN m.entry, NEW b \in Blocks
    PROVE  /\ Sound(Insert(m, id, b))
           /\ DOMAIN Insert(m, id, b).entry = DOMAIN m.entry \cup {id}
           /\ Insert(m, id, b).entry[id] = b
           /\ \A i \in DOMAIN m.entry : Insert(m, id, b).entry[i] = m.entry[i]
<1> DEFINE n == Insert(m, id, b)
           shared == b \in DOMAIN m.refs
<1>n. /\ DOMAIN n = {"entry", "newer", "refs", "entries", "bytes"}
      /\ n.entry = With(m.entry, id, b)
      /\ n.newer = Moved(m.newer, id)
      /\ n.refs = With(m.refs, b, IF shared THEN m.refs[b] + 1 ELSE 1)
      /\ n.entries = m.entries + 1
      /\ n.bytes = m.bytes + (IF shared THEN 0 ELSE BlockBytes[b]) + EntryBytes
  BY DEF Insert
<1>e. /\ DOMAIN n.entry = DOMAIN m.entry \cup {id}
      /\ n.entry[id] = b
      /\ \A i \in DOMAIN m.entry : n.entry[i] = m.entry[i]
  BY <1>n DEF With
<1>r. /\ DOMAIN n.refs = DOMAIN m.refs \cup {b}
      /\ n.refs[b] = IF shared THEN m.refs[b] + 1 ELSE 1
      /\ \A c \in DOMAIN m.refs : c # b => n.refs[c] = m.refs[c]
  BY <1>n DEF With
<1>u. /\ \A c : c # b => Users(n, c) = Users(m, c)
      /\ Users(n, b) = Users(m, b) \cup {id} /\ id \notin Users(m, b)
  BY <1>e DEF Users
<1>d. \A c : c \in DOMAIN m.refs <=> Users(m, c) # {}
  BY DEF Users, Sound, Shared
<1>k. Cardinality(Users(n, b)) = n.refs[b]
  <2>1. /\ IsFiniteSet(Users(m, b)) /\ Cardinality(Users(m, b)) \in Nat
        /\ Cardinality(Users(m, b)) = 0 <=> Users(m, b) = {}
    BY UsersFinite DEF Sound
  <2>2. Cardinality(Users(n, b)) = Cardinality(Users(m, b)) + 1
    BY <2>1, <1>u, FS_AddElement
  <2>3. shared => m.refs[b] = Cardinality(Users(m, b))
    BY DEF Sound, Shared
  <2> QED BY <2>1, <2>2, <2>3, <1>r, <1>d
<1>1. Shape(n)
  <2>1. n.entry \in [DOMAIN n.entry -> Blocks] /\ DOMAIN n.entry \subseteq Ids
    BY <1>e, <1>n DEF Sound, Shape, With
  <2>2. n.newer \in [DOMAIN n.entry -> SUBSET DOMAIN n.entry]
    BY <1>e, <1>n DEF Sound, Shape, Moved
  <2>3. n.refs \in [DOMAIN n.refs -> Nat \ {0}]
    <3>1. \A c \in DOMAIN n.refs : n.refs[c] \in Nat \ {0}
      BY <1>r DEF Sound, Shape
    <3>2. n.refs = [c \in DOMAIN n.refs |-> n.refs[c]]
      BY <1>n DEF With
    <3> QED BY <3>1, <3>2
  <2>4. n.entries \in Nat /\ n.bytes \in Nat
    <3>1. EntryBytes \in Nat /\ BlockBytes[b] \in Nat
      BY ToolMemoryAssumption
    <3> QED BY <1>n, <3>1 DEF Sound, Shape
  <2> QED BY <2>1, <2>2, <2>3, <2>4, <1>n DEF Shape
<1>2. Shared(n)
  <2>1. n.entries = Cardinality(DOMAIN n.entry)
    <3>1. IsFiniteSet(DOMAIN m.entry)
      BY IdsFinite DEF Sound, Shape
    <3> QED BY <3>1, <1>e, <1>n, FS_AddElement DEF Sound, Shared
  <2>2. DOMAIN n.refs = {n.entry[i] : i \in DOMAIN n.entry}
    BY <1>e, <1>r DEF Sound, Shared
  <2>3. ASSUME NEW c \in DOMAIN n.refs
        PROVE  n.refs[c] = Cardinality(Users(n, c))
    <3>1. CASE c = b
      BY <3>1, <1>k
    <3>2. CASE c # b
      BY <3>2, <1>r, <1>u, <2>3 DEF Sound, Shared
    <3> QED BY <3>1, <3>2
  <2> QED BY <2>1, <2>2, <2>3 DEF Shared
<1> QED BY <1>1, <1>2, <1>e DEF Sound

\* A put leaves the id with its text and every other entry as it was.
LEMMA PutSound ==
    ASSUME NEW m, Sound(m), NEW id \in Ids, NEW b \in Blocks
    PROVE  /\ Sound(Put(m, id, b))
           /\ DOMAIN Put(m, id, b).entry = DOMAIN m.entry \cup {id}
           /\ Put(m, id, b).entry[id] = b
           /\ \A i \in DOMAIN m.entry \ {id} : Put(m, id, b).entry[i] = m.entry[i]
<1>1. CASE id \notin DOMAIN m.entry
  BY <1>1, InsertSound DEF Put
<1>2. CASE id \in DOMAIN m.entry /\ m.entry[id] = b
  <2> DEFINE n == [m EXCEPT !.newer = Moved(@, id)]
  <2>1. Put(m, id, b) = n
    BY <1>2 DEF Put
  <2>2. /\ DOMAIN n = {"entry", "newer", "refs", "entries", "bytes"}
        /\ n.entry = m.entry /\ n.refs = m.refs /\ n.entries = m.entries
        /\ n.bytes = m.bytes /\ n.newer = Moved(m.newer, id)
    BY DEF Sound, Shape
  <2>3. n.newer \in [DOMAIN n.entry -> SUBSET DOMAIN n.entry]
    BY <1>2, <2>2 DEF Sound, Shape, Moved
  <2>4. Shape(n)
    BY <2>2, <2>3 DEF Sound, Shape
  <2>5. Shared(n)
    BY <2>2 DEF Sound, Shared, Users
  <2> QED BY <1>2, <2>1, <2>2, <2>4, <2>5 DEF Sound
<1>3. CASE id \in DOMAIN m.entry /\ m.entry[id] # b
  <2>1. Put(m, id, b) = Insert(Remove(m, id), id, b)
    BY <1>3 DEF Put
  <2>2. /\ Sound(Remove(m, id))
        /\ DOMAIN Remove(m, id).entry = DOMAIN m.entry \ {id}
        /\ \A i \in DOMAIN m.entry \ {id} : Remove(m, id).entry[i] = m.entry[i]
    BY <1>3, RemoveSound
  <2> QED BY <1>3, <2>1, <2>2, InsertSound
<1> QED BY <1>1, <1>2, <1>3

-----------------------------------------------------------------------------
(* The inductive invariant.                                                *)

\* The id was given to a call, with just this text if no map is rewritten
\* while it is read.
Right(id, b) == id \in DOMAIN truth /\ (Overlap \/ b = truth[id])

MapOK(t, m) ==
    /\ m \in Maps
    /\ Len(m.recs) <= m.count
    /\ \A k \in 1..Len(m.recs) :
         m.recs[k].block \in Found[t] /\ Right(m.recs[k].id, m.recs[k].block)

MemOK == Sound(mem) /\ \A id \in DOMAIN mem.entry : Right(id, mem.entry[id])

TruthOK == truth \in [1..Cardinality(DOMAIN truth) -> Blocks] /\ DOMAIN truth \subseteq Ids

PutsOK == puts \in Seq(Records) /\ \A k \in 1..Len(puts) : Right(puts[k].id, puts[k].block)

FilesOK ==
    /\ DOMAIN files \subseteq Texts /\ files = [t \in DOMAIN files |-> files[t]]
    /\ \A t \in DOMAIN files : MapOK(t, files[t])

StoreTypes == [stage : {"idle", "write", "records", "close"}, text : Texts \cup {None},
               fresh : BOOLEAN, todo : SUBSET Ids, map : Maps]

\* The store under way: where its map is, and what it has still to write,
\* which cannot leave the memory as long as the map is written.
StoreOK ==
    /\ store \in StoreTypes
    /\ store.stage # "idle" =>
         /\ store.text \in Texts /\ MapOK(store.text, store.map)
         /\ store.text \in DOMAIN files <=> ~store.fresh
         /\ ~store.fresh => files[store.text] = store.map
    /\ store.stage = "write" => store.map.recs = <<>>
    /\ store.stage # "records" => store.todo = {}
    /\ store.stage = "records" =>
         /\ puts = <<>> /\ ~Over(mem)
         /\ store.map.count = Len(store.map.recs) + Cardinality(store.todo)
         /\ \A id \in store.todo :
              id \in DOMAIN mem.entry /\ mem.entry[id] \in Found[store.text]

Replays == UNION {[S -> Blocks \cup {None}] : S \in SUBSET Nat}

ReaderTypes ==
    [stage : {"idle", "scan", "id", "text", "put", "attached"}, calls : Seq(CallOf),
     left : SUBSET Texts, text : Texts \cup {None}, own : Maps \cup {None},
     at : Nat \ {0}, count : Nat, id : Ids \cup {0}, block : Blocks \cup {None},
     replay : Replays]

\* A thread reads a map that is there, its own if the file is gone, and
\* nobody rewrites it under its hands.
ReaderOK(r) ==
    /\ reader[r].own # None => Reading(r) /\ MapOK(reader[r].text, reader[r].own)
    /\ Reading(r) /\ reader[r].own = None =>
         /\ reader[r].text \in DOMAIN files
         /\ Overlap \/ store.stage = "idle" \/ store.fresh \/ reader[r].text # store.text
    /\ reader[r].stage = "text" =>
         /\ reader[r].id \in DOMAIN truth
         /\ Overlap \/ (/\ reader[r].at <= Len(Content(r).recs)
                        /\ reader[r].id = Content(r).recs[reader[r].at].id)
    /\ reader[r].stage = "put" =>
         reader[r].block \in Blocks /\ Right(reader[r].id, reader[r].block)
    /\ \A k \in 1..Len(reader[r].calls) : reader[r].calls[k].id \in DOMAIN truth
    /\ reader[r].stage = "attached" =>
         \A k \in 1..Len(reader[r].calls) :
           LET call == reader[r].calls[k] IN
           Overlap \/ reader[r].replay[call.msg] \in {truth[call.id], None}

ReadersOK == reader \in [Readers -> ReaderTypes] /\ \A r \in Readers : ReaderOK(r)

IInv == MemOK /\ TruthOK /\ PutsOK /\ FilesOK /\ StoreOK /\ ReadersOK

\* What has been made stays as it was made.
Grown == \A id \in DOMAIN truth : id \in DOMAIN truth' /\ truth'[id] = truth[id]

LEMMA RightKept ==
    ASSUME Grown, NEW id, NEW b, Right(id, b)
    PROVE  Right(id, b)'
BY DEF Grown, Right

LEMMA MapKept ==
    ASSUME Grown, NEW t, NEW m, MapOK(t, m)
    PROVE  MapOK(t, m)'
BY RightKept DEF MapOK

\* A reader that does nothing is not disturbed, if its map is left alone.
LEMMA ReaderKept ==
    ASSUME NEW r \in Readers, ReaderOK(r), reader'[r] = reader[r], Grown,
           Reading(r) /\ reader[r].own = None =>
             /\ reader[r].text \in DOMAIN files'
             /\ Overlap \/ store'.stage = "idle" \/ store'.fresh \/ reader[r].text # store'.text
             /\ Overlap \/ files'[reader[r].text] = files[reader[r].text]
    PROVE  ReaderOK(r)'
<1>1. Reading(r)' <=> Reading(r)
  BY DEF Reading
<1>2. (reader[r].own # None => Reading(r) /\ MapOK(reader[r].text, reader[r].own))'
  BY <1>1, MapKept DEF ReaderOK
<1>3. (Reading(r) /\ reader[r].own = None =>
         /\ reader[r].text \in DOMAIN files
         /\ Overlap \/ store.stage = "idle" \/ store.fresh \/ reader[r].text # store.text)'
  BY <1>1
<1>4. (reader[r].stage = "text" =>
         /\ reader[r].id \in DOMAIN truth
         /\ Overlap \/ (/\ reader[r].at <= Len(Content(r).recs)
                        /\ reader[r].id = Content(r).recs[reader[r].at].id))'
  <2>1. reader[r].stage = "text" => Overlap \/ Content(r)' = Content(r)
    BY DEF Content, Reading
  <2> QED BY <2>1 DEF ReaderOK, Grown
<1>5. (reader[r].stage = "put" =>
         reader[r].block \in Blocks /\ Right(reader[r].id, reader[r].block))'
  BY RightKept DEF ReaderOK
<1>6. (\A k \in 1..Len(reader[r].calls) : reader[r].calls[k].id \in DOMAIN truth)'
  BY DEF ReaderOK, Grown
<1>7. (reader[r].stage = "attached" =>
         \A k \in 1..Len(reader[r].calls) :
           LET call == reader[r].calls[k] IN
           Overlap \/ reader[r].replay[call.msg] \in {truth[call.id], None})'
  BY DEF ReaderOK, Grown
<1> QED BY <1>2, <1>3, <1>4, <1>5, <1>6, <1>7 DEF ReaderOK

\* Nor are the other threads, if neither the maps nor their writer move.
LEMMA OthersKept ==
    ASSUME ReadersOK, Grown, UNCHANGED <<files, store>>,
           NEW r \in Readers, reader'[r] = reader[r]
    PROVE  ReaderOK(r)'
BY ReaderKept DEF ReadersOK, ReaderOK

LEMMA MemOKKept ==
    ASSUME MemOK, Grown, mem' = mem
    PROVE  MemOK'
BY RightKept DEF MemOK

LEMMA PutsOKKept ==
    ASSUME PutsOK, Grown, puts' = puts
    PROVE  PutsOK'
BY RightKept DEF PutsOK

LEMMA FilesOKKept ==
    ASSUME FilesOK, Grown, files' = files
    PROVE  FilesOK'
BY MapKept DEF FilesOK

\* A store that writes no map yet, or no more, does not look at the memory.
LEMMA StoreOKKept ==
    ASSUME StoreOK, Grown, UNCHANGED <<store, files>>, store.stage # "records"
    PROVE  StoreOK'
BY MapKept DEF StoreOK

LEMMA TruthSame ==
    ASSUME truth' = truth
    PROVE  Grown
BY DEF Grown

-----------------------------------------------------------------------------
(* The initial state, and the memory's own steps.                          *)

LEMMA NothingType ==
    /\ NoMap \in Maps /\ NoStore \in StoreTypes /\ NoReader \in ReaderTypes
<1>1. \A S : <<>> \in Seq(S)
  BY EmptySeq
<1>2. NoMap \in Maps
  BY <1>1 DEF NoMap, Maps
<1>3. NoStore \in StoreTypes
  BY <1>2 DEF NoStore, StoreTypes
<1>4. <<>> \in Replays
  <2>1. <<>> \in [{} -> Blocks \cup {None}]
    OBVIOUS
  <2> QED BY <2>1 DEF Replays
<1>5. NoReader \in ReaderTypes
  BY <1>1, <1>4 DEF NoReader, ReaderTypes
<1> QED BY <1>2, <1>3, <1>5

LEMMA EmptySound == Sound(Empty)
<1>1. Shape(Empty)
  BY DEF Empty, Shape
<1>2. Shared(Empty)
  BY FS_EmptySet DEF Empty, Shared, Users
<1> QED BY <1>1, <1>2 DEF Sound

LEMMA InitIInv == Init => IInv
<1> SUFFICES ASSUME Init PROVE IInv
  OBVIOUS
<1>1. MemOK
  BY EmptySound DEF Init, MemOK, Empty
<1>2. TruthOK
  <2>1. DOMAIN truth = {} /\ 1..Cardinality(DOMAIN truth) = {}
    BY FS_EmptySet DEF Init
  <2> QED BY <2>1 DEF Init, TruthOK
<1>3. PutsOK
  BY EmptySeq DEF Init, PutsOK
<1>4. FilesOK
  BY DEF Init, FilesOK
<1>5. StoreOK
  BY NothingType DEF Init, StoreOK, NoStore
<1>6. ReadersOK
  BY NothingType DEF Init, ReadersOK, ReaderOK, Reading, NoReader
<1> QED BY <1>1, <1>2, <1>3, <1>4, <1>5, <1>6 DEF IInv

\* Whoever puts has the lock.
LEMMA KeepOK ==
    ASSUME IInv, Grown, NEW id \in Ids, NEW b \in Blocks, Right(id, b)', Keep(id, b)
    PROVE  MemOK'
<1>1. Sound(mem) /\ mem' = Put(mem, id, b)
  BY DEF IInv, MemOK, Keep
<1>2. /\ Sound(mem')
      /\ DOMAIN mem'.entry = DOMAIN mem.entry \cup {id}
      /\ mem'.entry[id] = b
      /\ \A i \in DOMAIN mem.entry \ {id} : mem'.entry[i] = mem.entry[i]
  BY <1>1, PutSound
<1>3. ASSUME NEW i \in DOMAIN mem'.entry
      PROVE  Right(i, mem.entry[i])'
  <2>1. CASE i = id
    BY <2>1, <1>2
  <2>2. CASE i # id
    BY <2>2, <1>2, <1>3, RightKept DEF IInv, MemOK
  <2> QED BY <2>1, <2>2
<1> QED BY <1>2, <1>3 DEF MemOK

LEMMA RememberStep ==
    ASSUME IInv, NEW n \in 1..TurnCalls, NEW b \in Blocks, Remember(n, b)
    PROVE  IInv'
<1>c. PICK k \in Nat : k = Cardinality(DOMAIN truth)
  BY IdsFinite DEF IInv, TruthOK
<1>k. k \in Nat /\ DOMAIN truth = 1..k /\ n \in Nat \ {0} /\ k + n <= MaxIds /\ MaxIds \in Nat
  BY <1>c, ToolMemoryAssumption DEF IInv, TruthOK, Remember
<1>t. /\ DOMAIN truth' = 1..k + n
      /\ \A i \in 1..k : truth'[i] = truth[i]
      /\ \A i \in k + 1..k + n : truth'[i] = b
  BY <1>c, <1>k DEF Remember
<1>g. Grown
  BY <1>k, <1>t DEF Grown
<1>i. \A i \in k + 1..k + n : i \in Ids /\ Right(i, b)'
  BY <1>k, <1>t DEF Ids, Right
<1>l. store.stage # "records" /\ UNCHANGED <<files, store, reader>>
  BY DEF Remember, Locked
<1>1. MemOK'
  BY <1>c, <1>g, <1>i, <1>k, KeepOK DEF Remember
<1>2. TruthOK'
  <2>1. Cardinality(DOMAIN truth') = k + n
    BY <1>t, <1>k, FS_Interval
  <2>2. \A i \in 1..k + n : truth'[i] \in Blocks
    <3>1. \A i \in 1..k : truth[i] \in Blocks
      BY <1>k DEF IInv, TruthOK
    <3>2. \A i \in 1..k + n : i \in 1..k \/ i \in k + 1..k + n
      BY <1>k
    <3> QED BY <3>1, <3>2, <1>t
  <2>3. truth' \in [1..k + n -> Blocks]
    BY <2>2, <1>c, <1>t DEF Remember
  <2>4. 1..k + n \subseteq Ids
    BY <1>k DEF Ids
  <2> QED BY <2>1, <2>3, <2>4, <1>t DEF TruthOK
<1>3. PutsOK'
  <2> DEFINE rec(i) == [id |-> k + 1 + i, block |-> b]
  <2>1. puts' = [i \in 1..n - 1 |-> rec(i)]
    BY <1>c DEF Remember
  <2>2. \A i \in 1..n - 1 : rec(i) \in Records /\ Right(rec(i).id, rec(i).block)'
    BY <1>i, <1>k DEF Records
  <2> HIDE DEF rec
  <2>3. n - 1 \in Nat /\ puts' \in [1..n - 1 -> Records]
    BY <2>1, <2>2, <1>k
  <2>4. puts' \in Seq(Records) /\ Len(puts') = n - 1
    BY <2>3, SeqDef, LenProperties
  <2> QED BY <2>1, <2>2, <2>4 DEF PutsOK
<1>4. FilesOK'
  BY <1>g, <1>l, FilesOKKept DEF IInv
<1>5. StoreOK'
  BY <1>g, <1>l, StoreOKKept DEF IInv
<1>6. ReadersOK'
  BY <1>g, <1>l, OthersKept DEF IInv, ReadersOK
<1> QED BY <1>1, <1>2, <1>3, <1>4, <1>5, <1>6 DEF IInv

LEMMA PutNextStep ==
    ASSUME IInv, PutNext
    PROVE  IInv'
<1>g. Grown /\ UNCHANGED <<files, store, reader, truth>>
  BY TruthSame DEF PutNext
<1>l. store.stage # "records"
  BY DEF PutNext, IInv, StoreOK
<1>h. /\ Len(puts) \in Nat \ {0} /\ Head(puts) = puts[1]
      /\ Tail(puts) \in Seq(Records) /\ Len(Tail(puts)) = Len(puts) - 1
      /\ \A k \in 1..Len(puts) - 1 : Tail(puts)[k] = puts[k + 1]
  BY EmptySeq, HeadTailProperties DEF PutNext, IInv, PutsOK
<1>1. MemOK'
  <2>1. puts[1] \in Records /\ Right(puts[1].id, puts[1].block)
    BY <1>h, ElementOfSeq DEF IInv, PutsOK
  <2> QED BY <2>1, <1>g, <1>h, KeepOK, RightKept DEF PutNext, Records
<1>2. TruthOK'
  BY <1>g DEF IInv, TruthOK
<1>3. PutsOK'
  BY <1>g, <1>h, RightKept DEF PutNext, IInv, PutsOK
<1>4. FilesOK'
  BY <1>g, FilesOKKept DEF IInv
<1>5. StoreOK'
  BY <1>g, <1>l, StoreOKKept DEF IInv
<1>6. ReadersOK'
  BY <1>g, OthersKept DEF IInv, ReadersOK
<1> QED BY <1>1, <1>2, <1>3, <1>4, <1>5, <1>6 DEF IInv

LEMMA PruneStep ==
    ASSUME IInv, Prune
    PROVE  IInv'
<1>g. Grown /\ UNCHANGED <<puts, files, store, reader, truth>>
  BY TruthSame DEF Prune
<1>l. store.stage # "records"
  BY DEF Prune, IInv, StoreOK
<1>1. MemOK'
  <2>1. PICK id \in DOMAIN mem.newer : mem' = Remove(mem, id)
    BY DEF Prune
  <2>2. Sound(mem) /\ id \in DOMAIN mem.entry
    BY DEF IInv, MemOK, Sound, Shape
  <2>3. /\ Sound(mem')
        /\ DOMAIN mem'.entry = DOMAIN mem.entry \ {id}
        /\ \A i \in DOMAIN mem.entry \ {id} : mem'.entry[i] = mem.entry[i]
    BY <2>1, <2>2, RemoveSound
  <2> QED BY <2>3, <1>g, RightKept DEF IInv, MemOK
<1>2. TruthOK'
  BY <1>g DEF IInv, TruthOK
<1>3. PutsOK'
  BY <1>g, PutsOKKept DEF IInv
<1>4. FilesOK'
  BY <1>g, FilesOKKept DEF IInv
<1>5. StoreOK'
  BY <1>g, <1>l, StoreOKKept DEF IInv
<1>6. ReadersOK'
  BY <1>g, OthersKept DEF IInv, ReadersOK
<1> QED BY <1>1, <1>2, <1>3, <1>4, <1>5, <1>6 DEF IInv

-----------------------------------------------------------------------------
(* Stores.                                                                 *)

\* A thread that writes a map has let all the others go.
LEMMA MayStoreFacts ==
    ASSUME IInv, MayStore
    PROVE  /\ store = NoStore /\ store.stage = "idle" /\ puts = <<>> /\ ~Over(mem)
           /\ reader[Loader].stage = "idle"
BY DEF MayStore, Locked, NoStore

LEMMA RewriteStep ==
    ASSUME IInv, NEW t \in Texts, Rewrite(t)
    PROVE  IInv'
<1>g. Grown /\ UNCHANGED <<mem, puts, reader, truth>>
  BY TruthSame DEF Rewrite
<1>p. PICK cut : cut = [files[t] EXCEPT !.count = 0, !.recs = <<>>]
  OBVIOUS
<1>c. /\ files' = [files EXCEPT ![t] = cut]
      /\ store' = [NoStore EXCEPT !.stage = "write", !.text = t, !.map = cut]
      /\ t \in DOMAIN files
  BY <1>p DEF Rewrite
<1>m. cut \in Maps /\ cut.count = 0 /\ cut.recs = <<>> /\ Len(cut.recs) = 0
  <2>1. files[t] \in Maps
    BY <1>c DEF IInv, FilesOK, MapOK
  <2> QED BY <2>1, <1>p, EmptySeq DEF Maps
<1>o. MapOK(t, cut)'
  BY <1>m DEF MapOK
<1>s. /\ store'.stage = "write" /\ store'.text = t /\ store'.fresh = FALSE
      /\ store'.todo = {} /\ store'.map = cut /\ store' \in StoreTypes
  BY <1>c, <1>m, NothingType DEF NoStore, StoreTypes
<1>f. DOMAIN files' = DOMAIN files /\ files'[t] = cut
      /\ \A u \in DOMAIN files : u # t => files'[u] = files[u]
  BY <1>c
<1>1. MemOK'
  BY <1>g, MemOKKept DEF IInv
<1>2. TruthOK'
  BY <1>g DEF IInv, TruthOK
<1>3. PutsOK'
  BY <1>g, PutsOKKept DEF IInv
<1>4. FilesOK'
  <2>1. files' = [u \in DOMAIN files' |-> files'[u]]
    BY <1>c
  <2>2. ASSUME NEW u \in DOMAIN files'
        PROVE  MapOK(u, files[u])'
    <3>1. CASE u = t
      BY <3>1, <1>f, <1>o
    <3>2. CASE u # t
      BY <3>2, <1>f, <1>g, MapKept DEF IInv, FilesOK
    <3> QED BY <3>1, <3>2
  <2> QED BY <2>1, <2>2, <1>f DEF IInv, FilesOK
<1>5. StoreOK'
  BY <1>c, <1>f, <1>m, <1>o, <1>s DEF StoreOK
<1>6. ReadersOK'
  <2>1. ASSUME NEW r \in Readers
        PROVE  ReaderOK(r)'
    <3>1. Overlap \/ ~ReadInPlace(r, t)
      BY DEF Rewrite
    <3> QED BY <3>1, <1>f, <1>g, <1>s, ReaderKept DEF IInv, ReadersOK, ReaderOK, ReadInPlace
  <2> QED BY <2>1, <1>g DEF IInv, ReadersOK
<1> QED BY <1>1, <1>2, <1>3, <1>4, <1>5, <1>6 DEF IInv

LEMMA CreateStep ==
    ASSUME IInv, NEW t \in Texts, Create(t)
    PROVE  IInv'
<1>g. Grown /\ UNCHANGED <<mem, puts, files, reader, truth>> /\ t \notin DOMAIN files
  BY TruthSame DEF Create
<1>s. /\ store'.stage = "write" /\ store'.text = t /\ store'.fresh = TRUE
      /\ store'.todo = {} /\ store'.map = [NoMap EXCEPT !.flag = Known(t) # {}]
      /\ store' \in StoreTypes
  BY NothingType DEF Create, NoStore, StoreTypes, Maps
<1>m. store'.map \in Maps /\ store'.map.recs = <<>> /\ store'.map.count = 0
  BY <1>s, NothingType DEF Maps, NoMap
<1>1. MemOK'
  BY <1>g, MemOKKept DEF IInv
<1>2. TruthOK'
  BY <1>g DEF IInv, TruthOK
<1>3. PutsOK'
  BY <1>g, PutsOKKept DEF IInv
<1>4. FilesOK'
  BY <1>g, FilesOKKept DEF IInv
<1>5. StoreOK'
  BY <1>g, <1>s, <1>m, EmptySeq DEF StoreOK, MapOK
<1>6. ReadersOK'
  <2>1. ASSUME NEW r \in Readers
        PROVE  ReaderOK(r)'
    BY <1>g, <1>s, ReaderKept DEF IInv, ReadersOK, ReaderOK
  <2> QED BY <2>1, <1>g DEF IInv, ReadersOK
<1> QED BY <1>1, <1>2, <1>3, <1>4, <1>5, <1>6 DEF IInv

\* Bytes are written: of the map, and where the map is.
LEMMA WrittenOK ==
    ASSUME IInv, Grown, store.stage # "idle", NEW m, MapOK(store.text, m)', Written(m),
           store'.stage # "idle", store'.text = store.text, store'.fresh = store.fresh,
           store'.map = m, reader' = reader
    PROVE  /\ FilesOK' /\ ReadersOK'
           /\ store'.text \in DOMAIN files' <=> ~store'.fresh
           /\ ~store'.fresh => files'[store'.text] = m
<1> DEFINE t == store.text
<1>f. /\ DOMAIN files' = DOMAIN files
      /\ ~store.fresh => t \in DOMAIN files /\ files'[t] = m
      /\ \A u \in DOMAIN files : store.fresh \/ u # t => files'[u] = files[u]
      /\ files' = [u \in DOMAIN files' |-> files'[u]]
  BY DEF Written, IInv, StoreOK, FilesOK
<1>1. FilesOK'
  <2>1. ASSUME NEW u \in DOMAIN files'
        PROVE  MapOK(u, files[u])'
    <3>1. CASE ~store.fresh /\ u = t
      BY <3>1, <1>f
    <3>2. CASE store.fresh \/ u # t
      BY <3>2, <1>f, MapKept DEF IInv, FilesOK
    <3> QED BY <3>1, <3>2
  <2> QED BY <2>1, <1>f DEF IInv, FilesOK
<1>2. ReadersOK'
  <2>1. ASSUME NEW r \in Readers
        PROVE  ReaderOK(r)'
    <3>1. ReaderOK(r) /\ reader'[r] = reader[r]
      BY DEF IInv, ReadersOK
    <3>2. ASSUME Reading(r), reader[r].own = None
          PROVE  /\ reader[r].text \in DOMAIN files
                 /\ Overlap \/ store.fresh \/ reader[r].text # t
      BY <3>1, <3>2 DEF ReaderOK
    <3>3. Reading(r) /\ reader[r].own = None =>
            /\ reader[r].text \in DOMAIN files'
            /\ Overlap \/ store'.stage = "idle" \/ store'.fresh \/ reader[r].text # store'.text
            /\ Overlap \/ files'[reader[r].text] = files[reader[r].text]
      BY <3>2, <1>f
    <3> QED BY <3>1, <3>3, ReaderKept
  <2> QED BY <2>1 DEF IInv, ReadersOK
<1>3. store.text \in DOMAIN files <=> ~store.fresh
  BY DEF IInv, StoreOK
<1> QED BY <1>1, <1>2, <1>3, <1>f

LEMMA BeginMapStep ==
    ASSUME IInv, BeginMap
    PROVE  IInv'
<1>g. Grown /\ UNCHANGED <<mem, puts, reader, truth>>
  BY TruthSame DEF BeginMap
<1>p. PICK ids, m : ids = Known(store.text) /\ m = [store.map EXCEPT !.count = Cardinality(ids)]
  OBVIOUS
<1>s. /\ store.stage = "write" /\ ~Locked /\ Written(m)
      /\ store' = [store EXCEPT !.stage = IF ids = {} THEN "close" ELSE "records",
                                !.todo = ids, !.map = m]
  BY <1>p DEF BeginMap
<1>i. /\ ids \subseteq Ids /\ Cardinality(ids) \in Nat
      /\ Cardinality(ids) = 0 <=> ids = {}
      /\ \A id \in ids : id \in DOMAIN mem.entry /\ mem.entry[id] \in Found[store.text]
  <2>1. ids \subseteq Ids
    BY <1>p DEF Known, IInv, MemOK, Sound, Shape
  <2> QED BY <2>1, <1>p, IdsFinite, FS_EmptySet DEF Known
<1>m. m \in Maps /\ m.recs = <<>> /\ m.count = Cardinality(ids)
  BY <1>p, <1>s, <1>i DEF IInv, StoreOK, StoreTypes, Maps
<1>o. MapOK(store.text, m)'
  BY <1>m, <1>i, EmptySeq DEF MapOK
<1>t. /\ store'.stage = IF ids = {} THEN "close" ELSE "records"
      /\ store'.text = store.text /\ store'.fresh = store.fresh
      /\ store'.todo = ids /\ store'.map = m /\ store' \in StoreTypes
  BY <1>s, <1>i, <1>m DEF IInv, StoreOK, StoreTypes
<1>w. /\ FilesOK' /\ ReadersOK'
      /\ store'.text \in DOMAIN files' <=> ~store'.fresh
      /\ ~store'.fresh => files'[store'.text] = m
  BY <1>g, <1>o, <1>s, <1>t, WrittenOK
<1>1. MemOK'
  BY <1>g, MemOKKept DEF IInv
<1>2. TruthOK'
  BY <1>g DEF IInv, TruthOK
<1>3. PutsOK'
  BY <1>g, PutsOKKept DEF IInv
<1>5. StoreOK'
  BY <1>g, <1>i, <1>m, <1>o, <1>s, <1>t, <1>w, EmptySeq DEF IInv, StoreOK, Locked, Over
<1> QED BY <1>1, <1>2, <1>3, <1>w, <1>5 DEF IInv

LEMMA WriteRecordStep ==
    ASSUME IInv, WriteRecord
    PROVE  IInv'
<1>g. Grown /\ UNCHANGED <<mem, puts, reader, truth>>
  BY TruthSame DEF WriteRecord
<1>p. PICK id, m :
        /\ id \in store.todo
        /\ m = [store.map EXCEPT !.recs = Append(@, [id |-> id, block |-> mem.entry[id]])]
        /\ store' = [store EXCEPT !.stage = IF store.todo = {id} THEN "close" ELSE "records",
                                  !.todo = @ \ {id}, !.map = m]
        /\ Written(m)
  BY DEF WriteRecord
<1>d. id \in store.todo
  BY <1>p
<1> DEFINE recs == store.map.recs
<1>s. /\ store.stage = "records" /\ store \in StoreTypes /\ recs \in Seq(Records)
      /\ puts = <<>> /\ ~Over(mem)
      /\ store.map.count = Len(recs) + Cardinality(store.todo)
      /\ \A i \in store.todo : i \in DOMAIN mem.entry /\ mem.entry[i] \in Found[store.text]
      /\ MapOK(store.text, store.map) /\ Len(recs) \in Nat
  <2>1. store.stage = "records" /\ store \in StoreTypes
    BY DEF WriteRecord, IInv, StoreOK
  <2>2. recs \in Seq(Records)
    BY <2>1 DEF StoreTypes, Maps
  <2> QED BY <2>1, <2>2, LenProperties DEF IInv, StoreOK
<1>i. /\ Cardinality(store.todo) \in Nat \ {0}
      /\ Cardinality(store.todo \ {id}) = Cardinality(store.todo) - 1
      /\ store.todo \subseteq Ids
  <2>1. store.todo \in SUBSET Ids
    BY <1>s DEF StoreTypes
  <2> QED BY <1>d, <2>1, IdsFinite, FS_EmptySet, FS_RemoveElement
<1>e. mem.entry[id] \in Blocks /\ id \in Ids /\ Right(id, mem.entry[id])
  BY <1>d, <1>s, <1>i DEF IInv, MemOK, Sound, Shape
<1>r. PICK rec \in Records : rec = [id |-> id, block |-> mem.entry[id]]
  BY <1>e DEF Records
<1>m. /\ m \in Maps /\ m.count = store.map.count /\ m.recs = Append(recs, rec)
      /\ Len(m.recs) = Len(recs) + 1
      /\ \A k \in 1..Len(recs) : m.recs[k] = recs[k]
      /\ m.recs[Len(recs) + 1] = rec
  <2>1. /\ Append(recs, rec) \in Seq(Records)
        /\ Len(Append(recs, rec)) = Len(recs) + 1
        /\ \A k \in 1..Len(recs) : Append(recs, rec)[k] = recs[k]
        /\ Append(recs, rec)[Len(recs) + 1] = rec
    BY <1>s, AppendProperties
  <2>2. store.map \in Maps
    BY <1>s DEF StoreTypes
  <2>3. m = [store.map EXCEPT !.recs = Append(recs, rec)]
    BY <1>p, <1>r
  <2>4. m \in Maps /\ m.count = store.map.count /\ m.recs = Append(recs, rec)
    BY <2>1, <2>2, <2>3 DEF Maps
  <2> QED BY <2>1, <2>4
<1>o. MapOK(store.text, m)'
  <2>t. store'.text = store.text
    BY <1>p, <1>s DEF StoreTypes
  <2>1. Len(m.recs) <= m.count
    BY <1>m, <1>s, <1>i
  <2>2. ASSUME NEW k \in 1..Len(m.recs)
        PROVE  m.recs[k].block \in Found[store.text] /\ Right(m.recs[k].id, m.recs[k].block)
    <3>1. CASE k \in 1..Len(recs)
      BY <3>1, <1>m, <1>s DEF MapOK
    <3>2. CASE k = Len(recs) + 1
      BY <3>2, <1>d, <1>m, <1>r, <1>e, <1>s
    <3> QED BY <3>1, <3>2, <1>m, <1>s
  <2> QED BY <2>t, <2>1, <2>2, <1>g, <1>m, RightKept DEF MapOK
<1>t. /\ store'.stage = IF store.todo = {id} THEN "close" ELSE "records"
      /\ store'.text = store.text /\ store'.fresh = store.fresh
      /\ store'.todo = store.todo \ {id} /\ store'.map = m /\ store' \in StoreTypes
  BY <1>p, <1>s, <1>m, <1>i DEF StoreTypes
<1>w. /\ FilesOK' /\ ReadersOK'
      /\ store'.text \in DOMAIN files' <=> ~store'.fresh
      /\ ~store'.fresh => files'[store'.text] = m
  BY <1>g, <1>o, <1>p, <1>s, <1>t, WrittenOK
<1>1. MemOK'
  BY <1>g, MemOKKept DEF IInv
<1>2. TruthOK'
  BY <1>g DEF IInv, TruthOK
<1>3. PutsOK'
  BY <1>g, PutsOKKept DEF IInv
<1>5. StoreOK'
  <2>1. store'.text \in Texts
    BY <1>s, <1>t DEF IInv, StoreOK
  <2>2. store'.map.count = Len(store'.map.recs) + Cardinality(store'.todo)
    <3>1. store'.map.count = Len(recs) + Cardinality(store.todo)
      BY <1>m, <1>s, <1>t
    <3>2. Len(store'.map.recs) = Len(recs) + 1
      BY <1>m, <1>t
    <3>3. Cardinality(store'.todo) = Cardinality(store.todo) - 1
      BY <1>i, <1>t
    <3> QED BY <3>1, <3>2, <3>3, <1>i, <1>s
  <2>3. store'.stage # "records" => store'.todo = {}
    BY <1>t
  <2> QED BY <2>1, <2>2, <2>3, <1>g, <1>o, <1>s, <1>t, <1>w DEF StoreOK, Over
<1> QED BY <1>1, <1>2, <1>3, <1>w, <1>5 DEF IInv

LEMMA CloseFileStep ==
    ASSUME IInv, CloseFile
    PROVE  IInv'
<1>g. Grown /\ UNCHANGED <<mem, puts, reader, truth>> /\ store' = NoStore
  BY TruthSame DEF CloseFile
<1> DEFINE t == store.text
<1>p. PICK m : /\ m = IF ~store.fresh /\ store.map.count > 0
                      THEN [store.map EXCEPT !.flag = TRUE] ELSE store.map
               /\ files' = With(files, t, m)
  BY DEF CloseFile
<1>s. /\ store \in StoreTypes /\ t \in Texts /\ MapOK(t, store.map)
      /\ t \in DOMAIN files <=> ~store.fresh
      /\ Overlap \/ store.fresh \/ \A r \in Readers : Reading(r) /\ reader[r].own = None => reader[r].text # t
  BY DEF CloseFile, IInv, StoreOK, ReadersOK, ReaderOK
<1>m. m \in Maps /\ m.count = store.map.count /\ m.recs = store.map.recs
  BY <1>p, <1>s DEF MapOK, Maps
<1>o. MapOK(t, m)
  BY <1>m, <1>s DEF MapOK
<1>f. /\ DOMAIN files' = DOMAIN files \cup {t} /\ files'[t] = m
      /\ \A u \in DOMAIN files : u # t => files'[u] = files[u]
      /\ files' = [u \in DOMAIN files' |-> files'[u]]
  BY <1>p DEF With
<1>1. MemOK'
  BY <1>g, MemOKKept DEF IInv
<1>2. TruthOK'
  BY <1>g DEF IInv, TruthOK
<1>3. PutsOK'
  BY <1>g, PutsOKKept DEF IInv
<1>4. FilesOK'
  <2>1. ASSUME NEW u \in DOMAIN files'
        PROVE  MapOK(u, files[u])'
    <3>0. MapOK(u, files'[u])
      BY <1>f, <1>o DEF IInv, FilesOK
    <3> QED BY <3>0, <1>g DEF MapOK, Right
  <2> QED BY <2>1, <1>f, <1>s DEF IInv, FilesOK
<1>5. StoreOK'
  BY <1>g, NothingType DEF StoreOK, NoStore
<1>6. ReadersOK'
  <2>1. ASSUME NEW r \in Readers
        PROVE  ReaderOK(r)'
    BY <1>f, <1>g, <1>s, ReaderKept DEF IInv, ReadersOK, ReaderOK, NoStore
  <2> QED BY <2>1, <1>g DEF IInv, ReadersOK
<1> QED BY <1>1, <1>2, <1>3, <1>4, <1>5, <1>6 DEF IInv

LEMMA StoreFailsStep ==
    ASSUME IInv, StoreFails
    PROVE  IInv'
<1>g. Grown /\ UNCHANGED <<mem, puts, files, reader, truth>> /\ store' = NoStore
  BY TruthSame DEF StoreFails
<1>1. MemOK'
  BY <1>g, MemOKKept DEF IInv
<1>2. TruthOK'
  BY <1>g DEF IInv, TruthOK
<1>3. PutsOK'
  BY <1>g, PutsOKKept DEF IInv
<1>4. FilesOK'
  BY <1>g, FilesOKKept DEF IInv
<1>5. StoreOK'
  BY <1>g, NothingType DEF StoreOK, NoStore
<1>6. ReadersOK'
  <2>1. ASSUME NEW r \in Readers
        PROVE  ReaderOK(r)'
    BY <1>g, ReaderKept DEF IInv, ReadersOK, ReaderOK, NoStore
  <2> QED BY <2>1, <1>g DEF IInv, ReadersOK
<1> QED BY <1>1, <1>2, <1>3, <1>4, <1>5, <1>6 DEF IInv

\* A map that is unlinked is now its readers' own.
LEMMA UnlinkStep ==
    ASSUME IInv, NEW t \in Texts, Unlink(t)
    PROVE  IInv'
<1>g. Grown /\ UNCHANGED <<mem, puts, store, truth>> /\ t \in DOMAIN files
  BY TruthSame DEF Unlink
<1>f. /\ DOMAIN files' = DOMAIN files \ {t}
      /\ \A u \in DOMAIN files : u # t => files'[u] = files[u]
      /\ files' = [u \in DOMAIN files' |-> files'[u]]
  BY DEF Unlink, Without
<1>s. store = NoStore \/ (store.stage = "write" /\ store.fresh)
  BY DEF Unlink
<1>r. /\ reader' = [r \in Readers |-> IF ReadInPlace(r, t)
                                     THEN [reader[r] EXCEPT !.own = files[t]] ELSE reader[r]]
      /\ reader \in [Readers -> ReaderTypes]
      /\ files[t] \in Maps /\ files[t] # None /\ MapOK(t, files[t])
  BY <1>g, ToolMemoryAssumption DEF Unlink, IInv, ReadersOK, FilesOK, MapOK
<1>1. MemOK'
  BY <1>g, MemOKKept DEF IInv
<1>2. TruthOK'
  BY <1>g DEF IInv, TruthOK
<1>3. PutsOK'
  BY <1>g, PutsOKKept DEF IInv
<1>4. FilesOK'
  <2>1. ASSUME NEW u \in DOMAIN files'
        PROVE  MapOK(u, files[u])'
    BY <1>f, <1>g, MapKept DEF IInv, FilesOK
  <2> QED BY <2>1, <1>f DEF IInv, FilesOK
<1>5. StoreOK'
  <2>1. store.stage # "idle" => store.text # t
    BY <1>g, <1>s DEF IInv, StoreOK, NoStore
  <2>2. store.stage # "records"
    BY <1>s DEF NoStore
  <2>3. store.stage # "idle" => MapOK(store.text, store.map)'
    BY <1>g, MapKept DEF IInv, StoreOK
  <2> QED BY <2>1, <2>2, <2>3, <1>f, <1>g, <1>s DEF IInv, StoreOK
<1>6. ReadersOK'
  <2>1. ASSUME NEW r \in Readers
        PROVE  ReaderOK(r)'
    <3>1. CASE ~ReadInPlace(r, t)
      <4>1. reader'[r] = reader[r]
        BY <3>1, <1>r
      <4>2. Reading(r) /\ reader[r].own = None => reader[r].text # t
        BY <3>1 DEF ReadInPlace
      <4> QED BY <4>1, <4>2, <1>f, <1>g, ReaderKept DEF IInv, ReadersOK, ReaderOK
    <3>2. CASE ReadInPlace(r, t)
      <4>1. reader'[r] = [reader[r] EXCEPT !.own = files[t]] /\ reader[r] \in ReaderTypes
        BY <3>2, <1>r
      <4>2. /\ reader'[r].own = files[t] /\ reader'[r].text = t
            /\ reader'[r].stage = reader[r].stage /\ reader'[r].calls = reader[r].calls
            /\ reader'[r].at = reader[r].at /\ reader'[r].id = reader[r].id
            /\ reader'[r].block = reader[r].block /\ reader'[r].replay = reader[r].replay
        BY <3>2, <4>1 DEF ReaderTypes, ReadInPlace
      <4>3. Content(r)' = Content(r)
        BY <3>2, <4>2, <1>r DEF Content, ReadInPlace
      <4>4. MapOK(t, files[t]) /\ ReaderOK(r)
        BY <1>r DEF IInv, ReadersOK
      <4>5. (reader[r].own # None => Reading(r) /\ MapOK(reader[r].text, reader[r].own))'
        BY <3>2, <4>2, <4>4, <1>g DEF MapOK, Right, Reading, ReadInPlace
      <4>6. reader'[r].stage # "attached"
        BY <3>2, <4>2 DEF ReadInPlace, Reading
      <4> QED BY <4>2, <4>3, <4>4, <4>5, <4>6, <1>g, <1>r DEF ReaderOK, Right
    <3> QED BY <3>1, <3>2
  <2>2. ASSUME NEW r \in Readers
        PROVE  IF ReadInPlace(r, t) THEN [reader[r] EXCEPT !.own = files[t]] \in ReaderTypes
               ELSE reader[r] \in ReaderTypes
    <3>1. reader[r] \in ReaderTypes /\ files[t] \in Maps \cup {None}
      BY <1>r
    <3>2. \A m \in Maps \cup {None} : [reader[r] EXCEPT !.own = m] \in ReaderTypes
      BY <3>1 DEF ReaderTypes
    <3> QED BY <3>1, <3>2
  <2>3. reader' \in [Readers -> ReaderTypes]
    BY <2>2, <1>r
  <2> QED BY <2>1, <2>3 DEF ReadersOK
<1> QED BY <1>1, <1>2, <1>3, <1>4, <1>5, <1>6 DEF IInv

-----------------------------------------------------------------------------
(* Reading maps and replay.                                                *)

\* A step of one thread that changes nothing but what it holds.
LEMMA OneReader ==
    ASSUME IInv, UNCHANGED <<mem, puts, files, store, truth>>, NEW r \in Readers, NEW x \in ReaderTypes,
           reader' = [reader EXCEPT ![r] = x], ReaderOK(r)'
    PROVE  IInv'
<1>g. Grown
  BY TruthSame
<1>1. MemOK' /\ PutsOK' /\ FilesOK'
  BY <1>g, MemOKKept, PutsOKKept, FilesOKKept DEF IInv
<1>2. TruthOK'
  BY DEF IInv, TruthOK
<1>3. StoreOK'
  BY <1>g, MapKept DEF IInv, StoreOK, Over
<1>4. ReadersOK'
  <2>1. reader' \in [Readers -> ReaderTypes]
    BY DEF IInv, ReadersOK
  <2>2. ASSUME NEW q \in Readers
        PROVE  ReaderOK(q)'
    <3>1. CASE q = r
      BY <3>1
    <3>2. CASE q # r
      <4>1. reader'[q] = reader[q]
        BY <3>2
      <4> QED BY <4>1, <1>g, OthersKept DEF IInv
    <3> QED BY <3>1, <3>2
  <2> QED BY <2>1, <2>2 DEF ReadersOK
<1> QED BY <1>1, <1>2, <1>3, <1>4 DEF IInv

\* What a thread holds is of the right kind.
LEMMA ReaderType ==
    ASSUME IInv, NEW r \in Readers
    PROVE  reader[r] \in ReaderTypes /\ ReaderOK(r) /\ reader \in [Readers -> ReaderTypes]
BY DEF IInv, ReadersOK

LEMMA AskStep ==
    ASSUME IInv, NEW c \in Clients, NEW calls \in Requests, Ask(c, calls)
    PROVE  IInv'
<1>g. c \in Readers /\ UNCHANGED <<mem, puts, files, store, truth>>
  BY DEF Ask, Readers
<1>t. reader[c] \in ReaderTypes /\ ReaderOK(c) /\ reader \in [Readers -> ReaderTypes]
  BY <1>g, ReaderType
<1>p. PICK x : /\ x = [reader[c] EXCEPT !.stage = "scan", !.calls = calls, !.left = DOMAIN files]
               /\ reader' = [reader EXCEPT ![c] = x]
  BY DEF Ask
<1>c. calls \in Seq(CallOf) /\ DOMAIN files \subseteq Texts
  BY ToolMemoryAssumption DEF IInv, FilesOK
<1>x. /\ x \in ReaderTypes /\ x.stage = "scan" /\ x.calls = calls
      /\ x.own = reader[c].own /\ x.text = reader[c].text
  BY <1>c, <1>p, <1>t DEF ReaderTypes
<1>e. reader'[c] = x
  BY <1>g, <1>p, <1>t
<1>1. ReaderOK(c)'
  <2>1. \A k \in 1..Len(calls) : calls[k].id \in DOMAIN truth
    BY DEF Ask
  <2>2. reader[c].own = None
    BY <1>t DEF Ask, ReaderOK, Reading
  <2> QED BY <2>1, <2>2, <1>e, <1>g, <1>x DEF ReaderOK, Reading
<1> QED BY <1>1, <1>g, <1>p, <1>x, OneReader

\* A thread that lets go of a map is where it was before.
LEMMA ClosedType ==
    ASSUME IInv, NEW r \in Readers
    PROVE  /\ Closed(r) \in ReaderTypes /\ Closed(r).own = None
           /\ Closed(r).stage \in {"idle", "scan"}
           /\ Closed(r).calls = <<>> \/ Closed(r).calls = reader[r].calls
<1>1. reader[r] \in ReaderTypes
  BY ReaderType
<1>2. CASE r = Loader
  BY <1>2, NothingType DEF Closed, NoReader
<1>3. CASE r # Loader
  <2>1. Closed(r) = [NoReader EXCEPT !.stage = "scan", !.calls = reader[r].calls,
                                     !.left = reader[r].left]
    BY <1>3 DEF Closed
  <2> QED BY <2>1, <1>1, NothingType DEF NoReader, ReaderTypes
<1> QED BY <1>2, <1>3

LEMMA ClosedOK ==
    ASSUME IInv, UNCHANGED <<mem, puts, files, store, truth>>, NEW r \in Readers,
           reader' = [reader EXCEPT ![r] = Closed(r)]
    PROVE  IInv'
<1>e. reader'[r] = Closed(r)
  BY ReaderType
<1>1. ReaderOK(r)'
  <2>1. \A k \in 1..Len(Closed(r).calls) : Closed(r).calls[k].id \in DOMAIN truth
    BY ClosedType, ReaderType, EmptySeq DEF ReaderOK
  <2> QED BY <2>1, <1>e, ClosedType DEF ReaderOK, Reading
<1> QED BY <1>1, ClosedType, OneReader

\* A map is opened: nobody writes it now.
LEMMA OpenedOK ==
    ASSUME IInv, UNCHANGED <<mem, puts, files, store, truth>>, NEW r \in Readers,
           NEW t \in Texts, Readable(t), Settled(t) \/ store = NoStore, reader[r].own = None,
           reader' = [reader EXCEPT ![r] = Opened(r, t)]
    PROVE  IInv'
<1>t. reader[r] \in ReaderTypes /\ ReaderOK(r) /\ reader \in [Readers -> ReaderTypes]
  BY ReaderType
<1>p. PICK x : /\ x = [NoReader EXCEPT !.stage = "id", !.calls = reader[r].calls,
                       !.left = reader[r].left \ {t}, !.text = t, !.count = files[t].count]
               /\ reader' = [reader EXCEPT ![r] = x]
  BY DEF Opened
<1>c. t \in DOMAIN files /\ files[t].count \in Nat
  BY DEF Readable, IInv, FilesOK, MapOK, Maps
<1>x. /\ x \in ReaderTypes /\ x.stage = "id" /\ x.text = t /\ x.own = None
      /\ x.calls = reader[r].calls
  <2>1. PICK n \in Nat, left \in SUBSET Texts : n = files[t].count /\ left = reader[r].left \ {t}
    BY <1>c, <1>t DEF ReaderTypes
  <2>2. x = [NoReader EXCEPT !.stage = "id", !.calls = reader[r].calls, !.left = left,
                             !.text = t, !.count = n]
    BY <2>1, <1>p
  <2>3. x = [stage |-> "id", calls |-> reader[r].calls, left |-> left, text |-> t, own |-> None,
             at |-> 1, count |-> n, id |-> 0, block |-> None, replay |-> <<>>]
    BY <2>2 DEF NoReader
  <2>4. <<>> \in Replays
    BY NothingType DEF ReaderTypes, NoReader
  <2>5. reader[r].calls \in Seq(CallOf)
    BY <1>t DEF ReaderTypes
  <2>6. x \in ReaderTypes
    BY <2>3, <2>4, <2>5 DEF ReaderTypes
  <2> QED BY <2>3, <2>6
<1>e. reader'[r] = x
  BY <1>p, <1>t
<1>1. ReaderOK(r)'
  <2>1. Overlap \/ store.stage = "idle" \/ store.fresh \/ t # store.text
    BY DEF Settled, NoStore
  <2> QED BY <2>1, <1>c, <1>e, <1>t, <1>x DEF ReaderOK
<1> QED BY <1>1, <1>p, <1>x, OneReader

\* A thread that is not in a map has none of its own.
LEMMA NextFileStep ==
    ASSUME IInv, NEW c \in Clients, NextFile(c)
    PROVE  IInv'
<1>g. c \in Readers /\ UNCHANGED <<mem, puts, files, store, truth>>
  BY DEF NextFile, Readers
<1>t. reader[c] \in ReaderTypes /\ ReaderOK(c) /\ reader \in [Readers -> ReaderTypes]
  BY <1>g, ReaderType
<1>p. PICK t \in reader[c].left :
        /\ Settled(t)
        /\ reader' = [reader EXCEPT ![c] = IF Readable(t) THEN Opened(c, t)
                                           ELSE [reader[c] EXCEPT !.left = @ \ {t}]]
  BY DEF NextFile
<1>c. t \in Texts /\ reader[c].stage = "scan" /\ reader[c].own = None
  BY <1>t DEF ReaderTypes, NextFile, ReaderOK, Reading
<1>1. CASE Readable(t)
  <2>1. reader' = [reader EXCEPT ![c] = Opened(c, t)]
    BY <1>1, <1>p
  <2> QED BY <2>1, <1>1, <1>c, <1>g, <1>p, OpenedOK
<1>2. CASE ~Readable(t)
  <2>p. PICK x : /\ x = [reader[c] EXCEPT !.left = @ \ {t}]
                 /\ reader' = [reader EXCEPT ![c] = x]
    BY <1>2, <1>p
  <2>x. /\ x \in ReaderTypes /\ x.stage = "scan" /\ x.calls = reader[c].calls
        /\ x.own = reader[c].own /\ x.text = reader[c].text
    BY <2>p, <1>c, <1>t DEF ReaderTypes
  <2>e. reader'[c] = x
    BY <2>p, <1>g, <1>t
  <2>1. ReaderOK(c)'
    BY <2>e, <2>x, <1>c, <1>g, <1>t DEF ReaderOK, Reading
  <2> QED BY <2>1, <2>p, <2>x, <1>g, OneReader
<1> QED BY <1>1, <1>2

LEMMA LoadStep ==
    ASSUME IInv, NEW t \in Texts, Load(t)
    PROVE  IInv'
<1>1. Loader \in Readers
  BY DEF Readers
<1>2. reader[Loader].own = None
  BY <1>1, ReaderType DEF Load, ReaderOK, Reading
<1> QED BY <1>1, <1>2, OpenedOK DEF Load

\* The map being read is honest, and its records are records.
LEMMA ContentOK ==
    ASSUME IInv, NEW r \in Readers, Reading(r)
    PROVE  /\ MapOK(reader[r].text, Content(r)) /\ Len(Content(r).recs) \in Nat
           /\ \A k \in 1..Len(Content(r).recs) :
                /\ Content(r).recs[k].id \in Ids /\ Content(r).recs[k].block \in Blocks
                /\ Right(Content(r).recs[k].id, Content(r).recs[k].block)
<1>1. MapOK(reader[r].text, Content(r))
  BY ReaderType DEF ReaderOK, Content, IInv, FilesOK
<1>2. Content(r).recs \in Seq(Records)
  BY <1>1 DEF MapOK, Maps
<1>3. \A k \in 1..Len(Content(r).recs) : Content(r).recs[k] \in Records
  BY <1>2, ElementOfSeq
<1> QED BY <1>1, <1>2, <1>3, LenProperties DEF MapOK, Records

LEMMA ReadIdStep ==
    ASSUME IInv, NEW r \in Readers, ReadId(r)
    PROVE  IInv'
<1>g. UNCHANGED <<mem, puts, files, store, truth>> /\ Reading(r) /\ reader[r].stage = "id"
  BY DEF ReadId, Reading
<1>t. reader[r] \in ReaderTypes /\ ReaderOK(r) /\ reader \in [Readers -> ReaderTypes]
  BY ReaderType
<1> DEFINE recs == Content(r).recs
           at == reader[r].at
<1>1. CASE at > reader[r].count \/ at > Len(recs)
  BY <1>1, <1>g, ClosedOK DEF ReadId
<1>2. CASE ~(at > reader[r].count \/ at > Len(recs))
  <2>p. PICK x : /\ x = [reader[r] EXCEPT !.stage = "text", !.id = recs[at].id]
                 /\ reader' = [reader EXCEPT ![r] = x]
    BY <1>2 DEF ReadId
  <2>a. at \in 1..Len(recs)
    BY <1>2, <1>g, <1>t, ContentOK DEF ReaderTypes
  <2>i. recs[at].id \in Ids /\ recs[at].id \in DOMAIN truth
    BY <2>a, <1>g, ContentOK DEF Right
  <2>x. /\ x \in ReaderTypes /\ x.stage = "text" /\ x.id = recs[at].id /\ x.at = at
        /\ x.own = reader[r].own /\ x.text = reader[r].text /\ x.calls = reader[r].calls
    BY <2>p, <2>i, <1>t DEF ReaderTypes
  <2>e. reader'[r] = x
    BY <2>p, <1>t
  <2>c. Content(r)' = Content(r) /\ Reading(r)'
    BY <2>e, <2>x, <1>g DEF Content, Reading
  <2>m. \A u, m : MapOK(u, m) => MapOK(u, m)'
    BY <1>g DEF MapOK, Right
  <2>1. ReaderOK(r)'
    BY <2>a, <2>c, <2>e, <2>i, <2>m, <2>x, <1>g, <1>t DEF ReaderOK
  <2> QED BY <2>1, <2>p, <2>x, <1>g, OneReader
<1> QED BY <1>1, <1>2

LEMMA ReadTextStep ==
    ASSUME IInv, NEW r \in Readers, ReadText(r)
    PROVE  IInv'
<1>g. UNCHANGED <<mem, puts, files, store, truth>> /\ Reading(r) /\ reader[r].stage = "text"
  BY DEF ReadText, Reading
<1>t. reader[r] \in ReaderTypes /\ ReaderOK(r) /\ reader \in [Readers -> ReaderTypes]
  BY ReaderType
<1>m. \A u, m : MapOK(u, m) => MapOK(u, m)'
  BY <1>g DEF MapOK, Right
<1> DEFINE recs == Content(r).recs
           at == reader[r].at
<1>1. CASE at > Len(recs)
  BY <1>1, <1>g, ClosedOK DEF ReadText
<1>2. CASE ~(at > Len(recs))
  <2>a. at \in 1..Len(recs) /\ at + 1 \in Nat \ {0}
    BY <1>2, <1>g, <1>t, ContentOK DEF ReaderTypes
  <2>b. recs[at].block \in Blocks /\ Right(reader[r].id, recs[at].block)
    <3>1. recs[at].block \in Blocks /\ Right(recs[at].id, recs[at].block)
      BY <2>a, <1>g, ContentOK
    <3>2. reader[r].id \in DOMAIN truth /\ (Overlap \/ reader[r].id = recs[at].id)
      BY <1>g, <1>t DEF ReaderOK
    <3> QED BY <3>1, <3>2 DEF Right
  <2>1. CASE Wanted(r, reader[r].id)
    <3>p. PICK x : /\ x = [reader[r] EXCEPT !.stage = "put", !.at = at + 1, !.block = recs[at].block]
                   /\ reader' = [reader EXCEPT ![r] = x]
      BY <2>1, <1>2 DEF ReadText
    <3>x. /\ x \in ReaderTypes /\ x.stage = "put" /\ x.id = reader[r].id
          /\ x.block = recs[at].block
          /\ x.own = reader[r].own /\ x.text = reader[r].text /\ x.calls = reader[r].calls
      BY <3>p, <2>a, <2>b, <1>t DEF ReaderTypes
    <3>e. reader'[r] = x
      BY <3>p, <1>t
    <3>1. Right(x.id, x.block)'
      BY <3>x, <2>b, <1>g DEF Right
    <3>2. ReaderOK(r)'
      BY <3>1, <3>e, <3>x, <2>b, <1>g, <1>m, <1>t DEF ReaderOK, Reading
    <3> QED BY <3>2, <3>p, <3>x, <1>g, OneReader
  <2>2. CASE ~Wanted(r, reader[r].id)
    <3>p. PICK x : /\ x = [reader[r] EXCEPT !.stage = "id", !.at = at + 1, !.id = 0]
                   /\ reader' = [reader EXCEPT ![r] = x]
      BY <2>2, <1>2 DEF ReadText
    <3>x. /\ x \in ReaderTypes /\ x.stage = "id"
          /\ x.own = reader[r].own /\ x.text = reader[r].text /\ x.calls = reader[r].calls
      BY <3>p, <2>a, <1>t DEF ReaderTypes
    <3>e. reader'[r] = x
      BY <3>p, <1>t
    <3>2. ReaderOK(r)'
      BY <3>e, <3>x, <1>g, <1>m, <1>t DEF ReaderOK, Reading
    <3> QED BY <3>2, <3>p, <3>x, <1>g, OneReader
  <2> QED BY <2>1, <2>2
<1> QED BY <1>1, <1>2

LEMMA PutReadStep ==
    ASSUME IInv, NEW r \in Readers, PutRead(r)
    PROVE  IInv'
<1>g. /\ Grown /\ UNCHANGED <<puts, files, store, truth>>
      /\ Reading(r) /\ reader[r].stage = "put" /\ store.stage # "records"
  BY TruthSame DEF PutRead, Reading, Locked
<1>t. reader[r] \in ReaderTypes /\ ReaderOK(r) /\ reader \in [Readers -> ReaderTypes]
  BY ReaderType
<1>1. MemOK'
  <2>1. /\ reader[r].block \in Blocks /\ reader[r].id \in Ids
        /\ Right(reader[r].id, reader[r].block)
    BY <1>g, <1>t DEF ReaderOK, Right, IInv, TruthOK
  <2>2. PICK id \in Ids, b \in Blocks : id = reader[r].id /\ b = reader[r].block
    BY <2>1
  <2>3. Right(id, b)' /\ Keep(id, b)
    BY <2>1, <2>2, <1>g, RightKept DEF PutRead
  <2> QED BY <2>3, <1>g, KeepOK
<1>2. TruthOK'
  BY <1>g DEF IInv, TruthOK
<1>3. PutsOK' /\ FilesOK' /\ StoreOK'
  BY <1>g, PutsOKKept, FilesOKKept, StoreOKKept DEF IInv
<1>4. ReadersOK'
  <2>p. PICK x : /\ x = [reader[r] EXCEPT !.stage = "id", !.id = 0, !.block = None]
                 /\ reader' = [reader EXCEPT ![r] = x]
    BY <1>t DEF PutRead
  <2>x. /\ x \in ReaderTypes /\ x.stage = "id"
        /\ x.own = reader[r].own /\ x.text = reader[r].text /\ x.calls = reader[r].calls
    BY <2>p, <1>t DEF ReaderTypes
  <2>e. reader'[r] = x
    BY <2>p, <1>t
  <2>m. \A u, m : MapOK(u, m) => MapOK(u, m)'
    BY <1>g DEF MapOK, Right
  <2>1. ReaderOK(r)'
    BY <2>e, <2>m, <2>x, <1>g, <1>t DEF ReaderOK, Reading
  <2>2. ASSUME NEW q \in Readers
        PROVE  ReaderOK(q)'
    <3>1. q # r => reader'[q] = reader[q]
      BY <2>p, <1>t
    <3> QED BY <3>1, <2>1, <1>g, OthersKept DEF IInv
  <2> QED BY <2>2, <2>p, <2>x, <1>t DEF ReadersOK
<1> QED BY <1>1, <1>2, <1>3, <1>4 DEF IInv

\* A message is replayed with the text of each of its calls.
LEMMA ReplayRight ==
    ASSUME IInv, NEW ids, ids # {}
    PROVE  /\ Replay(ids) \in Blocks \cup {None}
           /\ \A id \in ids : Overlap \/ Replay(ids) \in {truth[id], None}
<1>1. CASE \E b \in Blocks : \A id \in ids : id \in DOMAIN mem.entry /\ mem.entry[id] = b
  <2>1. PICK b \in Blocks : \A id \in ids : id \in DOMAIN mem.entry /\ mem.entry[id] = b
    BY <1>1
  <2>2. Replay(ids) = mem.entry[CHOOSE id \in ids : TRUE]
    BY <1>1 DEF Replay
  <2>3. (CHOOSE id \in ids : TRUE) \in ids
    OBVIOUS
  <2>4. Replay(ids) = b
    BY <2>1, <2>2, <2>3
  <2> QED BY <2>1, <2>4 DEF IInv, MemOK, Right
<1>2. CASE ~\E b \in Blocks : \A id \in ids : id \in DOMAIN mem.entry /\ mem.entry[id] = b
  BY <1>2 DEF Replay
<1> QED BY <1>1, <1>2

LEMMA AttachStep ==
    ASSUME IInv, NEW c \in Clients, Attach(c)
    PROVE  IInv'
<1>g. /\ Grown /\ UNCHANGED <<puts, files, store, truth>>
      /\ c \in Readers /\ reader[c].stage = "scan" /\ store.stage # "records"
  BY TruthSame DEF Attach, Locked, Readers
<1>t. reader[c] \in ReaderTypes /\ ReaderOK(c) /\ reader \in [Readers -> ReaderTypes]
  BY <1>g, ReaderType
<1> DEFINE calls == reader[c].calls
           msgs == {calls[k].msg : k \in 1..Len(calls)}
<1>1. MemOK'
  <2>1. mem' = [mem EXCEPT !.newer = Touched(@, calls)]
    BY DEF Attach
  <2>2. /\ DOMAIN mem' = {"entry", "newer", "refs", "entries", "bytes"}
        /\ mem'.entry = mem.entry /\ mem'.refs = mem.refs /\ mem'.entries = mem.entries
        /\ mem'.bytes = mem.bytes /\ mem'.newer = Touched(mem.newer, calls)
    BY <2>1 DEF IInv, MemOK, Sound, Shape
  <2>3. mem'.newer \in [DOMAIN mem'.entry -> SUBSET DOMAIN mem'.entry]
    BY <2>2 DEF IInv, MemOK, Sound, Shape, Touched
  <2>4. Shape(mem')
    BY <2>2, <2>3 DEF IInv, MemOK, Sound, Shape
  <2>5. Shared(mem')
    BY <2>2 DEF IInv, MemOK, Sound, Shared, Users
  <2> QED BY <2>2, <2>4, <2>5, <1>g, RightKept DEF IInv, MemOK, Sound
<1>2. TruthOK'
  BY <1>g DEF IInv, TruthOK
<1>3. PutsOK' /\ FilesOK' /\ StoreOK'
  BY <1>g, PutsOKKept, FilesOKKept, StoreOKKept DEF IInv
<1>4. ReadersOK'
  <2>f. PICK f : f = [m \in msgs |-> Replay(OfMessage(calls, m))]
    OBVIOUS
  <2>p. PICK x : /\ x = [reader[c] EXCEPT !.stage = "attached", !.replay = f]
                 /\ reader' = [reader EXCEPT ![c] = x]
    BY <2>f DEF Attach
  <2>m. msgs \subseteq Nat
    <3>1. \A k \in 1..Len(calls) : calls[k] \in CallOf
      BY <1>t, ElementOfSeq DEF ReaderTypes
    <3> QED BY <3>1 DEF CallOf
  <2>n. \A m \in msgs : OfMessage(calls, m) # {}
    BY DEF OfMessage
  <2>r. f \in Replays
    <3>1. \A m \in msgs : f[m] \in Blocks \cup {None}
      BY <2>f, <2>n, ReplayRight
    <3>2. f \in [msgs -> Blocks \cup {None}]
      BY <3>1, <2>f
    <3> QED BY <3>2, <2>m DEF Replays
  <2>x. /\ x \in ReaderTypes /\ x.stage = "attached" /\ x.replay = f
        /\ x.own = reader[c].own /\ x.text = reader[c].text /\ x.calls = calls
    BY <2>p, <2>r, <1>t DEF ReaderTypes
  <2>e. reader'[c] = x
    BY <2>p, <1>g, <1>t
  <2>o. reader[c].own = None
    BY <1>g, <1>t DEF ReaderOK, Reading
  <2>a. ASSUME NEW k \in 1..Len(calls)
        PROVE  Overlap \/ f[calls[k].msg] \in {truth[calls[k].id], None}
    <3>1. calls[k].msg \in msgs /\ calls[k].id \in OfMessage(calls, calls[k].msg)
      BY DEF OfMessage
    <3>2. f[calls[k].msg] = Replay(OfMessage(calls, calls[k].msg))
      BY <3>1, <2>f
    <3> QED BY <3>1, <3>2, ReplayRight
  <2>1. ReaderOK(c)'
    BY <2>a, <2>e, <2>o, <2>x, <1>g, <1>t DEF ReaderOK, Reading
  <2>2. ASSUME NEW q \in Readers
        PROVE  ReaderOK(q)'
    <3>1. q # c => reader'[q] = reader[q]
      BY <2>p, <1>g, <1>t
    <3> QED BY <3>1, <2>1, <1>g, OthersKept DEF IInv
  <2> QED BY <2>2, <2>p, <2>x, <1>t DEF ReadersOK
<1> QED BY <1>1, <1>2, <1>3, <1>4 DEF IInv

LEMMA RenderedStep ==
    ASSUME IInv, NEW c \in Clients, Rendered(c)
    PROVE  IInv'
<1>g. c \in Readers /\ UNCHANGED <<mem, puts, files, store, truth>>
  BY DEF Rendered, Readers
<1>1. reader' = [reader EXCEPT ![c] = NoReader] /\ reader'[c] = NoReader
  BY <1>g, ReaderType DEF Rendered
<1>2. ReaderOK(c)'
  BY <1>1 DEF ReaderOK, Reading, NoReader
<1> QED BY <1>1, <1>2, <1>g, NothingType, OneReader

LEMMA RestartStep ==
    ASSUME IInv, Restart
    PROVE  IInv'
<1>g. Grown /\ UNCHANGED <<files, truth>>
  BY TruthSame DEF Restart
<1>1. MemOK'
  BY EmptySound DEF Restart, MemOK, Empty
<1>2. TruthOK' /\ FilesOK'
  BY <1>g, FilesOKKept DEF IInv, TruthOK
<1>3. PutsOK'
  BY EmptySeq DEF Restart, PutsOK
<1>4. StoreOK'
  BY NothingType DEF Restart, StoreOK, NoStore
<1>5. ReadersOK'
  BY NothingType DEF Restart, ReadersOK, ReaderOK, Reading, NoReader
<1> QED BY <1>1, <1>2, <1>3, <1>4, <1>5 DEF IInv

-----------------------------------------------------------------------------
(* The theorems.                                                           *)

LEMMA StutterStep ==
    ASSUME IInv, UNCHANGED vars
    PROVE  IInv'
<1>g. Grown /\ UNCHANGED <<mem, puts, files, store, reader, truth>>
  BY TruthSame DEF vars
<1>1. MemOK' /\ PutsOK' /\ FilesOK'
  BY <1>g, MemOKKept, PutsOKKept, FilesOKKept DEF IInv
<1>2. TruthOK'
  BY <1>g DEF IInv, TruthOK
<1>3. StoreOK'
  BY <1>g, MapKept DEF IInv, StoreOK, Over
<1>4. ReadersOK'
  BY <1>g, OthersKept DEF IInv, ReadersOK
<1> QED BY <1>1, <1>2, <1>3, <1>4 DEF IInv

LEMMA NextIInv == IInv /\ [Next]_vars => IInv'
<1> SUFFICES ASSUME IInv, [Next]_vars PROVE IInv'
  OBVIOUS
<1>1. ASSUME NEW n \in 1..TurnCalls, NEW b \in Blocks, Remember(n, b) PROVE IInv'
  BY <1>1, RememberStep
<1>2. CASE PutNext
  BY <1>2, PutNextStep
<1>3. CASE Prune
  BY <1>3, PruneStep
<1>4. ASSUME NEW t \in Texts, Rewrite(t) \/ Create(t) \/ Unlink(t) \/ Load(t) PROVE IInv'
  BY <1>4, RewriteStep, CreateStep, UnlinkStep, LoadStep
<1>5. CASE BeginMap
  BY <1>5, BeginMapStep
<1>6. CASE WriteRecord
  BY <1>6, WriteRecordStep
<1>7. CASE CloseFile
  BY <1>7, CloseFileStep
<1>8. CASE StoreFails
  BY <1>8, StoreFailsStep
<1>9. ASSUME NEW c \in Clients, NEW calls \in Requests, Ask(c, calls) PROVE IInv'
  BY <1>9, AskStep
<1>10. ASSUME NEW c \in Clients, NextFile(c) \/ Attach(c) \/ Rendered(c) PROVE IInv'
  BY <1>10, NextFileStep, AttachStep, RenderedStep
<1>11. ASSUME NEW r \in Readers, ReadId(r) \/ ReadText(r) \/ PutRead(r) PROVE IInv'
  BY <1>11, ReadIdStep, ReadTextStep, PutReadStep
<1>12. CASE Restart
  BY <1>12, RestartStep
<1>13. CASE UNCHANGED vars
  BY <1>13, StutterStep
<1> QED BY <1>1, <1>2, <1>3, <1>4, <1>5, <1>6, <1>7, <1>8, <1>9, <1>10, <1>11, <1>12, <1>13 DEF Next

LEMMA Invariance == Spec => []IInv
<1>1. Init => IInv
  BY InitIInv
<1>2. IInv /\ [Next]_vars => IInv'
  BY NextIInv
<1> QED BY <1>1, <1>2, PTL DEF Spec

\* tool_memory, kv_tool_map_write, kv_tool_map_load_from_pos: whatever the
\* limits and whoever puts, stores, reads and unlinks, the ids a map is being
\* written with are there, a map being read is somewhere, and every list and
\* counter is in its range.
THEOREM TypeCorrect == Spec => []TypeOK
<1>1. IInv => TypeOK
  <2> SUFFICES ASSUME IInv PROVE TypeOK
    OBVIOUS
  <2>1. MemoryTypeOK
    BY DEF IInv, MemOK, Sound, Shape, MemoryTypeOK
  <2>2. DiskTypeOK
    <3>1. files \in [DOMAIN files -> Maps] /\ DOMAIN files \subseteq Texts
      BY DEF IInv, FilesOK, MapOK
    <3>2. store.todo \subseteq DOMAIN mem.entry /\ store \in StoreTypes
      BY DEF IInv, StoreOK
    <3> QED BY <3>1, <3>2 DEF DiskTypeOK, StoreTypes
  <2>3. ReaderTypeOK
    BY ReaderType DEF ReaderTypeOK, ReaderTypes, ReaderOK
  <2>4. truth \in [1..Cardinality(DOMAIN truth) -> Blocks] /\ DOMAIN mem.entry \subseteq DOMAIN truth
    BY DEF IInv, TruthOK, MemOK, Right
  <2>5. puts \in Seq(Records)
    BY DEF IInv, PutsOK
  <2> QED BY <2>1, <2>2, <2>3, <2>4, <2>5 DEF TypeOK
<1> QED BY <1>1, Invariance, PTL

\* tool_memory_get_block_locked, tool_memory_release_block_locked: a text is
\* kept once, counted as often as ids have it, and freed with the last one.
THEOREM SharingCorrect == Spec => []SharingExact
<1>1. IInv => SharingExact
  BY DEF IInv, MemOK, Sound, Shared, Users, SharingExact
<1> QED BY <1>1, Invariance, PTL

\* kv_tool_map_write, with nobody reading the map it writes: a checkpoint
\* names the calls found in its text, each with the text it was made with.
THEOREM MapsCorrect == ~Overlap => (Spec => []MapsHonest)
<1> SUFFICES ASSUME ~Overlap PROVE Spec => []MapsHonest
  OBVIOUS
<1>1. IInv => MapsHonest
  BY DEF IInv, FilesOK, MapOK, Right, MapsHonest
<1> QED BY <1>1, Invariance, PTL

\* tool_memory_attach_to_messages, with no map rewritten while it is read:
\* through any stores, loads, evictions and restarts, a message is replayed
\* with the text the model made all its calls with, or not at all.
THEOREM ReplayCorrect == ~Overlap => (Spec => []ExactOrNothing)
<1> SUFFICES ASSUME ~Overlap PROVE Spec => []ExactOrNothing
  OBVIOUS
<1>1. IInv => ExactOrNothing
  <2> SUFFICES ASSUME IInv, NEW c \in Clients, reader[c].stage = "attached",
                      NEW k \in 1..Len(reader[c].calls)
               PROVE  reader[c].replay[reader[c].calls[k].msg]
                        \in {truth[reader[c].calls[k].id], None}
    BY DEF ExactOrNothing
  <2>1. ReaderOK(c)
    BY ReaderType DEF Readers
  <2> QED BY <2>1 DEF ReaderOK
<1> QED BY <1>1, Invariance, PTL

-----------------------------------------------------------------------------
(* The byte counter.                                                       *)

\* The size of all texts of a set.
Sizes(blocks) == SumFunctionOnSet(BlockBytes, blocks)

\* BytesExact, of any memory.
Weighed(m) == m.bytes = Cardinality(DOMAIN m.entry) * EntryBytes + Sizes(DOMAIN m.refs)

LEMMA SizesAdd ==
    ASSUME NEW T \in SUBSET Blocks, IsFiniteSet(T)
    PROVE  /\ Sizes(T) \in Nat
           /\ \A b \in T : Sizes(T) = BlockBytes[b] + Sizes(T \ {b})
           /\ \A b \in Blocks \ T : Sizes(T \cup {b}) = BlockBytes[b] + Sizes(T)
           /\ \A S \in SUBSET T : Sizes(S) \in Nat /\ Sizes(S) <= Sizes(T)
<1>1. \A b \in Blocks : BlockBytes[b] \in Nat
  BY ToolMemoryAssumption
<1>2. Sizes(T) \in Nat /\ \A b \in T : Sizes(T) = BlockBytes[b] + Sizes(T \ {b})
  BY <1>1, SumRemove DEF Sizes
<1>3. ASSUME NEW b \in Blocks \ T
      PROVE  Sizes(T \cup {b}) = BlockBytes[b] + Sizes(T)
  BY <1>1, SumAdd DEF Sizes
<1>4. ASSUME NEW S \in SUBSET T
      PROVE  Sizes(S) \in Nat /\ Sizes(S) <= Sizes(T)
  <2>1. IsFiniteSet(S)
    BY FS_Subset
  <2>2. Sizes(S) \in Nat
    BY <1>1, <2>1, SumRemove DEF Sizes
  <2>3. Sizes(S) <= Sizes(T)
    BY <1>1, SumMonotone DEF Sizes
  <2> QED BY <2>2, <2>3
<1> QED BY <1>2, <1>3, <1>4

LEMMA EntriesWeigh ==
    ASSUME NEW m \in Nat, NEW n \in Nat
    PROVE  /\ n * EntryBytes \in Nat
           /\ (n + 1) * EntryBytes = n * EntryBytes + EntryBytes
           /\ m <= n => m * EntryBytes <= n * EntryBytes
<1>e. EntryBytes \in Nat
  BY ToolMemoryAssumption
<1>1. \A j, k \in Nat : j * k \in Nat
  OBVIOUS
<1>2. ASSUME m <= n PROVE m * EntryBytes <= n * EntryBytes
  <2>1. PICK d \in Nat : n = m + d
    BY <1>2
  <2>2. n * EntryBytes = m * EntryBytes + d * EntryBytes
    BY <1>e, <2>1
  <2>3. m * EntryBytes \in Nat /\ d * EntryBytes \in Nat
    BY <1>e, <1>1
  <2> QED BY <2>2, <2>3
<1>3. (n + 1) * EntryBytes = n * EntryBytes + EntryBytes
  BY <1>e
<1>4. n * EntryBytes \in Nat
  BY <1>e, <1>1
<1> QED BY <1>2, <1>3, <1>4

\* What is shared: finitely many texts.
LEMMA RefsFinite ==
    ASSUME NEW m, Sound(m)
    PROVE  /\ IsFiniteSet(DOMAIN m.entry) /\ Cardinality(DOMAIN m.entry) \in Nat
           /\ IsFiniteSet(DOMAIN m.refs) /\ DOMAIN m.refs \in SUBSET Blocks
<1>1. IsFiniteSet(DOMAIN m.entry) /\ Cardinality(DOMAIN m.entry) \in Nat
  BY IdsFinite DEF Sound, Shape
<1>2. DOMAIN m.refs = {m.entry[id] : id \in DOMAIN m.entry}
  BY DEF Sound, Shared
<1>3. \A id \in DOMAIN m.entry : m.entry[id] \in Blocks
  BY DEF Sound, Shape
<1> QED BY <1>1, <1>2, <1>3, ImageFinite

\* A removal takes off what its entry added: nothing is cut off at zero.
LEMMA RemoveWeighed ==
    ASSUME NEW m, Sound(m), Weighed(m), NEW id \in DOMAIN m.entry
    PROVE  Weighed(Remove(m, id))
<1> DEFINE b == m.entry[id]
           last == m.refs[b] <= 1
           n == Remove(m, id)
           k == Cardinality(DOMAIN m.entry)
<1>1. /\ n.entry = Without(m.entry, id)
      /\ n.refs = IF last THEN Without(m.refs, b) ELSE [m.refs EXCEPT ![b] = @ - 1]
      /\ n.bytes = Less(Less(m.bytes, EntryBytes), IF last THEN BlockBytes[b] ELSE 0)
  BY DEF Remove
<1>2. /\ DOMAIN n.entry = DOMAIN m.entry \ {id}
      /\ DOMAIN n.refs = IF last THEN DOMAIN m.refs \ {b} ELSE DOMAIN m.refs
  BY <1>1 DEF Without
<1>3. IsFiniteSet(DOMAIN m.entry) /\ k \in Nat /\ IsFiniteSet(DOMAIN m.refs)
      /\ DOMAIN m.refs \in SUBSET Blocks
  BY RefsFinite
<1>4. b \in DOMAIN m.refs
  BY DEF Sound, Shared
<1>5. Cardinality(DOMAIN n.entry) = k - 1 /\ k - 1 \in Nat
  <2>1. k # 0
    BY <1>3, FS_EmptySet
  <2>2. Cardinality(DOMAIN m.entry \ {id}) = k - 1
    BY <1>3, FS_RemoveElement
  <2> QED BY <1>2, <1>3, <2>1, <2>2
<1> DEFINE S == Sizes(DOMAIN m.refs)
           R == Sizes(DOMAIN m.refs \ {b})
<1>6. S = BlockBytes[b] + R /\ BlockBytes[b] \in Nat /\ R \in Nat /\ S \in Nat
  <2>1. S \in Nat /\ S = BlockBytes[b] + R
    BY <1>3, <1>4, SizesAdd
  <2>2. R \in Nat
    <3>1. DOMAIN m.refs \ {b} \in SUBSET DOMAIN m.refs
      OBVIOUS
    <3> QED BY <1>3, <3>1, SizesAdd
  <2> QED BY <2>1, <2>2, <1>3, <1>4, ToolMemoryAssumption
<1>7. /\ k * EntryBytes = (k - 1) * EntryBytes + EntryBytes
      /\ (k - 1) * EntryBytes \in Nat /\ EntryBytes \in Nat
  <2>1. /\ (k - 1 + 1) * EntryBytes = (k - 1) * EntryBytes + EntryBytes
        /\ (k - 1) * EntryBytes \in Nat
    BY <1>5, EntriesWeigh
  <2> QED BY <2>1, <1>3, ToolMemoryAssumption
<1>8. m.bytes = k * EntryBytes + S
  BY DEF Weighed
<1>9. Sizes(DOMAIN n.refs) = IF last THEN R ELSE S
  BY <1>2
<1> HIDE DEF k, n, last, R, S, b
<1>10. Less(m.bytes, EntryBytes) = (k - 1) * EntryBytes + S
  BY <1>6, <1>7, <1>8 DEF Less
<1>11. n.bytes = (k - 1) * EntryBytes + (IF last THEN R ELSE S)
  <2>1. CASE last
    BY <2>1, <1>1, <1>6, <1>7, <1>10 DEF Less
  <2>2. CASE ~last
    BY <2>2, <1>1, <1>6, <1>7, <1>10 DEF Less
  <2> QED BY <2>1, <2>2
<1> QED BY <1>5, <1>9, <1>11 DEF Weighed, n

\* An insertion adds the entry, and the text if no other entry has it.
LEMMA InsertWeighed ==
    ASSUME NEW m, Sound(m), Weighed(m), NEW id \in Ids \ DOMAIN m.entry, NEW b \in Blocks
    PROVE  Weighed(Insert(m, id, b))
<1> DEFINE n == Insert(m, id, b)
           shared == b \in DOMAIN m.refs
           k == Cardinality(DOMAIN m.entry)
           S == Sizes(DOMAIN m.refs)
<1>1. /\ DOMAIN n.entry = DOMAIN m.entry \cup {id}
      /\ DOMAIN n.refs = DOMAIN m.refs \cup {b}
      /\ n.bytes = m.bytes + (IF shared THEN 0 ELSE BlockBytes[b]) + EntryBytes
  BY DEF Insert, With
<1>2. IsFiniteSet(DOMAIN m.entry) /\ k \in Nat /\ IsFiniteSet(DOMAIN m.refs)
      /\ DOMAIN m.refs \in SUBSET Blocks
  BY RefsFinite
<1>3. Cardinality(DOMAIN n.entry) = k + 1
  BY <1>1, <1>2, FS_AddElement
<1>4. /\ (k + 1) * EntryBytes = k * EntryBytes + EntryBytes
      /\ k * EntryBytes \in Nat /\ EntryBytes \in Nat
  BY <1>2, EntriesWeigh, ToolMemoryAssumption
<1>5. S \in Nat /\ BlockBytes[b] \in Nat
  BY <1>2, SizesAdd, ToolMemoryAssumption
<1>6. Sizes(DOMAIN n.refs) = (IF shared THEN 0 ELSE BlockBytes[b]) + S
  <2>1. CASE shared
    <3>1. DOMAIN n.refs = DOMAIN m.refs
      BY <1>1, <2>1
    <3> QED BY <2>1, <3>1, <1>5
  <2>2. CASE ~shared
    <3>1. Sizes(DOMAIN m.refs \cup {b}) = BlockBytes[b] + S
      BY <1>2, <2>2, SizesAdd
    <3> QED BY <2>2, <3>1, <1>1
  <2> QED BY <2>1, <2>2
<1>7. m.bytes = k * EntryBytes + S
  BY DEF Weighed
<1> HIDE DEF n, k, S, shared
<1>8. n.bytes = (k + 1) * EntryBytes + Sizes(DOMAIN n.refs)
  <2>1. CASE shared
    BY <2>1, <1>1, <1>4, <1>5, <1>6, <1>7
  <2>2. CASE ~shared
    BY <2>2, <1>1, <1>4, <1>5, <1>6, <1>7
  <2> QED BY <2>1, <2>2
<1> QED BY <1>3, <1>8 DEF Weighed, n

LEMMA PutWeighed ==
    ASSUME NEW m, Sound(m), Weighed(m), NEW id \in Ids, NEW b \in Blocks
    PROVE  Weighed(Put(m, id, b))
<1>1. CASE id \notin DOMAIN m.entry
  BY <1>1, InsertWeighed DEF Put
<1>2. CASE id \in DOMAIN m.entry /\ m.entry[id] = b
  <2> DEFINE n == [m EXCEPT !.newer = Moved(@, id)]
  <2>1. n.entry = m.entry /\ n.refs = m.refs /\ n.bytes = m.bytes
    BY DEF Sound, Shape
  <2> QED BY <1>2, <2>1 DEF Put, Weighed
<1>3. CASE id \in DOMAIN m.entry /\ m.entry[id] # b
  <2>1. Put(m, id, b) = Insert(Remove(m, id), id, b)
    BY <1>3 DEF Put
  <2>2. /\ Sound(Remove(m, id)) /\ Weighed(Remove(m, id))
        /\ DOMAIN Remove(m, id).entry = DOMAIN m.entry \ {id}
    BY <1>3, RemoveSound, RemoveWeighed
  <2> QED BY <1>3, <2>1, <2>2, InsertWeighed
<1> QED BY <1>1, <1>2, <1>3

LEMMA EmptyWeighed == Weighed(Empty)
<1>1. Cardinality(DOMAIN Empty.entry) = 0 /\ DOMAIN Empty.refs = {} /\ Empty.bytes = 0
  BY FS_EmptySet DEF Empty
<1>2. Sizes({}) = 0
  BY SumEmpty DEF Sizes
<1>3. 0 * EntryBytes = 0
  BY ToolMemoryAssumption
<1> QED BY <1>1, <1>2, <1>3 DEF Weighed

\* Steps that put nothing and prune nothing keep the counter.
LEMMA WeighedKept ==
    ASSUME Weighed(mem), mem'.entry = mem.entry, mem'.refs = mem.refs,
           mem'.bytes = mem.bytes
    PROVE  Weighed(mem')
BY DEF Weighed

\* Where a put happens, and of what.
LEMMA PutsOf ==
    ASSUME IInv, Next
    PROVE  \/ \E id \in Ids, b \in Blocks : Keep(id, b)
           \/ Prune
           \/ \E c \in Clients : Attach(c)
           \/ Restart
           \/ UNCHANGED <<mem, since>>
<1>1. ASSUME NEW n \in 1..TurnCalls, NEW b \in Blocks, Remember(n, b)
      PROVE  \E id \in Ids : Keep(id, b)
  <2>1. PICK k \in Nat : k = Cardinality(DOMAIN truth)
    BY IdsFinite DEF IInv, TruthOK
  <2>2. k + 1 \in Ids
    BY <1>1, <2>1, ToolMemoryAssumption DEF Remember, Ids
  <2> QED BY <1>1, <2>1, <2>2 DEF Remember
<1>2. ASSUME PutNext
      PROVE  \E id \in Ids, b \in Blocks : Keep(id, b)
  <2>1. Head(puts) \in Records
    BY <1>2, EmptySeq, HeadTailProperties DEF PutNext, IInv, PutsOK
  <2> QED BY <1>2, <2>1 DEF PutNext, Records
<1>3. ASSUME NEW r \in Readers, PutRead(r)
      PROVE  \E id \in Ids, b \in Blocks : Keep(id, b)
  <2>1. reader[r].block \in Blocks /\ reader[r].id \in Ids
    BY <1>3, ReaderType DEF PutRead, ReaderOK, Reading, Right, IInv, TruthOK
  <2>2. Keep(reader[r].id, reader[r].block)
    BY <1>3 DEF PutRead
  <2> QED BY <2>1, <2>2
<1>4. ASSUME NEW t \in Texts, Rewrite(t) \/ Create(t) \/ Unlink(t) \/ Load(t)
      PROVE  UNCHANGED <<mem, since>>
  BY <1>4 DEF Rewrite, Create, Unlink, Load
<1>5. ASSUME BeginMap \/ WriteRecord \/ CloseFile \/ StoreFails
      PROVE  UNCHANGED <<mem, since>>
  BY <1>5 DEF BeginMap, WriteRecord, CloseFile, StoreFails
<1>6. ASSUME NEW c \in Clients, NEW calls \in Requests, Ask(c, calls)
      PROVE  UNCHANGED <<mem, since>>
  BY <1>6 DEF Ask
<1>7. ASSUME NEW c \in Clients, NextFile(c) \/ Rendered(c)
      PROVE  UNCHANGED <<mem, since>>
  BY <1>7 DEF NextFile, Rendered
<1>8. ASSUME NEW r \in Readers, ReadId(r) \/ ReadText(r)
      PROVE  UNCHANGED <<mem, since>>
  BY <1>8 DEF ReadId, ReadText
<1> QED BY <1>1, <1>2, <1>3, <1>4, <1>5, <1>6, <1>7, <1>8 DEF Next

\* A touch by a request moves entries in the list, and nothing else.
LEMMA AttachFrame ==
    ASSUME IInv, NEW c \in Clients, Attach(c)
    PROVE  /\ mem'.entry = mem.entry /\ mem'.refs = mem.refs /\ mem'.bytes = mem.bytes
           /\ mem'.entries = mem.entries /\ mem'.newer = Touched(mem.newer, reader[c].calls)
           /\ since' = Touched(since, reader[c].calls)
BY DEF Attach, IInv, MemOK, Sound, Shape

LEMMA WeighedStep ==
    ASSUME IInv, Weighed(mem), [Next]_vars
    PROVE  Weighed(mem')
<1>s. Sound(mem)
  BY DEF IInv, MemOK
<1>1. ASSUME NEW id \in Ids, NEW b \in Blocks, Keep(id, b)
      PROVE  Weighed(mem')
  BY <1>1, <1>s, PutWeighed DEF Keep
<1>2. CASE Prune
  <2>1. PICK id \in DOMAIN mem.newer : mem' = Remove(mem, id)
    BY <1>2 DEF Prune
  <2>2. id \in DOMAIN mem.entry
    BY <1>s DEF Sound, Shape
  <2> QED BY <2>1, <2>2, <1>s, RemoveWeighed
<1>3. ASSUME NEW c \in Clients, Attach(c)
      PROVE  Weighed(mem')
  BY <1>3, AttachFrame, WeighedKept
<1>4. CASE Restart
  BY <1>4, EmptyWeighed DEF Restart
<1>5. CASE UNCHANGED <<mem, since>>
  BY <1>5
<1>6. CASE Next
  BY <1>6, <1>1, <1>2, <1>3, <1>4, <1>5, PutsOf
<1> QED BY <1>5, <1>6 DEF vars

\* tool_memory_put_locked, tool_memory_release_block_locked, tool_memory_prune_locked:
\* through shared, replaced and pruned texts, m->bytes is the size of what is
\* there, so that the byte limit limits just that.
THEOREM BytesCorrect == Spec => []BytesExact
<1>1. Init => Weighed(mem)
  BY EmptyWeighed DEF Init
<1>2. IInv /\ Weighed(mem) /\ [Next]_vars => Weighed(mem')
  BY WeighedStep
<1>3. IInv /\ Weighed(mem) => BytesExact
  BY DEF Weighed, Sizes, BytesExact, Bytes, IInv, MemOK, Sound, Shared
<1>4. (Weighed(mem))' <=> Weighed(mem')
  BY DEF Weighed, Sizes
<1> QED BY <1>1, <1>2, <1>3, <1>4, Invariance, PTL DEF Spec

-----------------------------------------------------------------------------
(* The order of the list.                                                  *)

\* Of two entries at most one is nearer to the head than the other.
Ordered(newer) == \A i, j \in DOMAIN newer : j \in newer[i] => i \notin newer[j]

\* Ids with these texts do not fit.
TooMuch(ids, text) == Cardinality(ids) > MaxEntries \/ Bytes(ids, text) > MaxBytes

\* What the ghost knows of every id used in this run of the process: it agrees
\* with the list about the entries, and the others do not fit with what was
\* used later.
SinceOK ==
    /\ DOMAIN mem.entry \subseteq DOMAIN since /\ DOMAIN since \subseteq DOMAIN truth
    /\ since \in [DOMAIN since -> SUBSET DOMAIN since]
    /\ \A id \in DOMAIN mem.entry : since[id] = mem.newer[id]
    /\ \A id \in DOMAIN since \ DOMAIN mem.entry : TooMuch(since[id] \cup {id}, truth)

RecentInv == Ordered(mem.newer) /\ SinceOK

\* More ids do not fit either, and a known id keeps its text.
LEMMA TooMuchGrows ==
    ASSUME NEW S \in SUBSET Ids, NEW R \in SUBSET S, NEW f, NEW g,
           \A id \in R : g[id] = f[id], \A id \in S : g[id] \in Blocks,
           TooMuch(R, f)
    PROVE  TooMuch(S, g)
<1> DEFINE FR == {f[id] : id \in R}
           GR == {g[id] : id \in R}
           GS == {g[id] : id \in S}
<1>1. /\ IsFiniteSet(S) /\ Cardinality(S) \in Nat
      /\ IsFiniteSet(R) /\ Cardinality(R) \in Nat /\ Cardinality(R) <= Cardinality(S)
  BY IdsFinite, FS_Subset, FS_CardinalityType
<1>2. GR = FR /\ GR \in SUBSET GS /\ GS \in SUBSET Blocks
  OBVIOUS
<1>3. IsFiniteSet(GS)
  BY <1>1, ImageFinite
<1>4. Sizes(GR) \in Nat /\ Sizes(GS) \in Nat /\ Sizes(GR) <= Sizes(GS)
  <2> HIDE DEF GR, GS
  <2> QED BY <1>2, <1>3, SizesAdd
<1>5. /\ Cardinality(R) * EntryBytes \in Nat /\ Cardinality(S) * EntryBytes \in Nat
      /\ Cardinality(R) * EntryBytes <= Cardinality(S) * EntryBytes
  BY <1>1, EntriesWeigh
<1>6. /\ Bytes(R, f) = Cardinality(R) * EntryBytes + Sizes(GR)
      /\ Bytes(S, g) = Cardinality(S) * EntryBytes + Sizes(GS)
  BY <1>2 DEF Bytes, Sizes
<1> HIDE DEF GR, GS
<1>7. Bytes(R, f) \in Nat /\ Bytes(S, g) \in Nat /\ Bytes(R, f) <= Bytes(S, g)
  BY <1>4, <1>5, <1>6
<1>8. MaxEntries \in Nat /\ MaxBytes \in Nat
  BY ToolMemoryAssumption
<1>9. CASE Cardinality(R) > MaxEntries
  BY <1>9, <1>1, <1>8 DEF TooMuch
<1>10. CASE Bytes(R, f) > MaxBytes
  BY <1>10, <1>7, <1>8 DEF TooMuch
<1> QED BY <1>9, <1>10 DEF TooMuch

\* A put moves its id to the head.
LEMMA PutMoves ==
    ASSUME NEW m, Sound(m), NEW id \in Ids, NEW b \in Blocks
    PROVE  Put(m, id, b).newer = Moved(m.newer, id)
<1>d. /\ DOMAIN m = {"entry", "newer", "refs", "entries", "bytes"}
      /\ DOMAIN m.newer = DOMAIN m.entry
  BY DEF Sound, Shape
<1>1. CASE id \notin DOMAIN m.entry
  BY <1>1 DEF Put, Insert
<1>2. CASE id \in DOMAIN m.entry /\ m.entry[id] = b
  BY <1>2, <1>d DEF Put
<1>3. CASE id \in DOMAIN m.entry /\ m.entry[id] # b
  <2> DEFINE n == Remove(m, id).newer
  <2>1. n = [i \in DOMAIN m.newer \ {id} |-> m.newer[i] \ {id}]
    BY DEF Remove
  <2>2. Put(m, id, b).newer = Moved(n, id)
    BY <1>3 DEF Put, Insert
  <2>3. DOMAIN n \cup {id} = DOMAIN m.newer \cup {id}
    BY <2>1
  <2>4. \A i \in DOMAIN m.newer \ {id} : n[i] \cup {id} = m.newer[i] \cup {id}
    BY <2>1
  <2> HIDE DEF n
  <2>5. Moved(n, id) = Moved(m.newer, id)
    BY <2>3, <2>4 DEF Moved
  <2> QED BY <2>2, <2>5
<1> QED BY <1>1, <1>2, <1>3

LEMMA MovedOrdered ==
    ASSUME NEW newer, Ordered(newer), NEW id
    PROVE  Ordered(Moved(newer, id))
BY DEF Ordered, Moved

\* Where a request names a call last.
LEMMA LastAtType ==
    ASSUME NEW calls \in Seq(CallOf), NEW id \in Named(calls)
    PROVE  LastAt(calls, id) \in Nat
<1> DEFINE T == {k \in 1..Len(calls) : calls[k].id = id}
<1>1. Len(calls) \in Nat /\ T \subseteq 0..Len(calls) /\ T # {}
  BY LenProperties DEF Named
<1> HIDE DEF T
<1>2. PICK k \in T : \A m \in T : m <= k
  BY <1>1, GreatestNat
<1>3. Max(T) \in T
  <2>1. \A m \in T : m \in 0..Len(calls)
    BY <1>1
  <2>2. \A m \in T : k >= m
    BY <1>2, <2>1
  <2> QED BY <2>2 DEF Max
<1>4. Max(T) \in 0..Len(calls)
  BY <1>1, <1>3
<1> QED BY <1>1, <1>4 DEF LastAt, T

LEMMA TouchedOrdered ==
    ASSUME NEW calls \in Seq(CallOf), NEW newer, Ordered(newer)
    PROVE  Ordered(Touched(newer, calls))
<1> DEFINE hit == Named(calls) \cap DOMAIN mem.entry
           n == Touched(newer, calls)
<1>1. DOMAIN n = DOMAIN newer
  BY DEF Touched
<1>2. \A i \in DOMAIN newer :
        n[i] = IF i \in hit THEN {j \in hit : LastAt(calls, j) > LastAt(calls, i)}
               ELSE newer[i] \cup hit
  BY DEF Touched
<1>3. \A i \in hit : LastAt(calls, i) \in Nat
  BY LastAtType
<1> HIDE DEF n, hit
<1>4. ASSUME NEW i \in DOMAIN newer, NEW j \in DOMAIN newer, j \in n[i], i \in n[j]
      PROVE  FALSE
  <2>1. CASE i \in hit /\ j \in hit
    <3>1. LastAt(calls, j) > LastAt(calls, i) /\ LastAt(calls, i) > LastAt(calls, j)
      BY <1>2, <1>4, <2>1
    <3> QED BY <1>3, <2>1, <3>1
  <2>2. CASE i \in hit /\ j \notin hit
    BY <1>2, <1>4, <2>2
  <2>3. CASE i \notin hit /\ j \in hit
    BY <1>2, <1>4, <2>3
  <2>4. CASE i \notin hit /\ j \notin hit
    BY <1>2, <1>4, <2>4 DEF Ordered
  <2> QED BY <2>1, <2>2, <2>3, <2>4
<1> QED BY <1>1, <1>4 DEF Ordered, n

\* What is known stays known.
LEMMA NextGrown ==
    ASSUME IInv, [Next]_vars
    PROVE  Grown
<1>1. ASSUME NEW n \in 1..TurnCalls, NEW b \in Blocks, Remember(n, b)
      PROVE  Grown
  <2>1. PICK k \in Nat : k = Cardinality(DOMAIN truth)
    BY IdsFinite DEF IInv, TruthOK
  <2>2. n \in Nat /\ DOMAIN truth = 1..k
    BY <2>1, ToolMemoryAssumption DEF IInv, TruthOK
  <2>3. DOMAIN truth' = 1..k + n /\ \A i \in 1..k : truth'[i] = truth[i]
    BY <1>1, <2>1, <2>2 DEF Remember
  <2> QED BY <2>2, <2>3 DEF Grown
<1>2. CASE UNCHANGED truth
  BY <1>2, TruthSame
<1>3. ASSUME NEW c \in Clients, NextFile(c) \/ Attach(c) \/ Rendered(c) PROVE UNCHANGED truth
  BY <1>3 DEF NextFile, Attach, Rendered
<1>4. ASSUME NEW r \in Readers, ReadId(r) \/ ReadText(r) \/ PutRead(r) PROVE UNCHANGED truth
  BY <1>4 DEF ReadId, ReadText, PutRead
<1>5. ASSUME NEW t \in Texts, Rewrite(t) \/ Create(t) \/ Unlink(t) \/ Load(t) PROVE UNCHANGED truth
  BY <1>5 DEF Rewrite, Create, Unlink, Load
<1>6. ASSUME BeginMap \/ WriteRecord \/ CloseFile \/ StoreFails PROVE UNCHANGED truth
  BY <1>6 DEF BeginMap, WriteRecord, CloseFile, StoreFails
<1>7. ASSUME PutNext \/ Prune \/ Restart PROVE UNCHANGED truth
  BY <1>7 DEF PutNext, Prune, Restart
<1>8. ASSUME NEW c \in Clients, NEW calls \in Requests, Ask(c, calls) PROVE UNCHANGED truth
  BY <1>8 DEF Ask
<1>9. UNCHANGED vars => UNCHANGED truth
  BY DEF vars
<1> QED BY <1>1, <1>2, <1>3, <1>4, <1>5, <1>6, <1>7, <1>8, <1>9 DEF Next

\* Ids that did not fit do not fit with more, later.
LEMMA TooMuchStays ==
    ASSUME IInv', Grown, NEW R \in SUBSET DOMAIN truth, NEW S \in SUBSET DOMAIN truth',
           R \subseteq S, TooMuch(R, truth)
    PROVE  TooMuch(S, truth')
<1>1. \A id \in S : truth'[id] \in Blocks /\ id \in Ids
  BY DEF IInv, TruthOK
<1>2. \A id \in R : truth'[id] = truth[id]
  BY DEF Grown
<1> QED BY <1>1, <1>2, TooMuchGrows

LEMMA KeepRecent ==
    ASSUME IInv, RecentInv, IInv', Grown, NEW id \in Ids, NEW b \in Blocks, Keep(id, b)
    PROVE  RecentInv'
<1>m. /\ DOMAIN mem'.entry = DOMAIN mem.entry \cup {id}
      /\ mem'.newer = Moved(mem.newer, id) /\ since' = Moved(since, id)
      /\ DOMAIN mem.newer = DOMAIN mem.entry
  <2>1. Sound(mem) /\ mem' = Put(mem, id, b) /\ since' = Moved(since, id)
    BY DEF Keep, IInv, MemOK
  <2>2. DOMAIN mem.newer = DOMAIN mem.entry
    BY <2>1 DEF Sound, Shape
  <2>3. DOMAIN mem'.entry = DOMAIN mem.entry \cup {id}
    BY <2>1, PutSound
  <2>4. mem'.newer = Moved(mem.newer, id)
    BY <2>1, PutMoves
  <2> QED BY <2>1, <2>2, <2>3, <2>4
<1>1. Ordered(mem.newer)'
  BY <1>m, MovedOrdered DEF RecentInv
<1>2. DOMAIN since' = DOMAIN since \cup {id}
  BY <1>m DEF Moved
<1>3. \A i \in DOMAIN since' : since'[i] = IF i = id THEN {} ELSE since[i] \cup {id}
  BY <1>m DEF Moved
<1>4. DOMAIN mem'.entry \subseteq DOMAIN since' /\ DOMAIN since' \subseteq DOMAIN truth'
  <2>1. id \in DOMAIN truth'
    BY <1>m DEF IInv, MemOK, Right
  <2>2. DOMAIN truth \subseteq DOMAIN truth'
    BY DEF Grown
  <2> QED BY <1>m, <1>2, <2>1, <2>2 DEF RecentInv, SinceOK
<1>5. since' \in [DOMAIN since' -> SUBSET DOMAIN since']
  <2>1. \A i \in DOMAIN since' : since'[i] \in SUBSET DOMAIN since'
    BY <1>2, <1>3 DEF RecentInv, SinceOK
  <2>2. since' = [i \in DOMAIN since' |-> since'[i]]
    BY <1>m DEF Moved
  <2> QED BY <2>1, <2>2
<1>6. ASSUME NEW i \in DOMAIN mem'.entry
      PROVE  since'[i] = mem'.newer[i]
  <2>1. mem'.newer[i] = IF i = id THEN {} ELSE mem.newer[i] \cup {id}
    BY <1>m DEF Moved
  <2>2. i # id => since[i] = mem.newer[i]
    BY <1>m DEF RecentInv, SinceOK
  <2> QED BY <2>1, <2>2, <1>3, <1>4
<1>7. ASSUME NEW i \in DOMAIN since' \ DOMAIN mem'.entry
      PROVE  TooMuch(since'[i] \cup {i}, truth')
  <2>1. i # id /\ i \in DOMAIN since \ DOMAIN mem.entry
    BY <1>m, <1>2
  <2>2. since'[i] \cup {i} = since[i] \cup {i} \cup {id}
    BY <1>3, <2>1
  <2>3. TooMuch(since[i] \cup {i}, truth)
    BY <2>1 DEF RecentInv, SinceOK
  <2>4. since[i] \cup {i} \subseteq DOMAIN truth
    BY <2>1 DEF RecentInv, SinceOK
  <2>5. since'[i] \cup {i} \subseteq DOMAIN truth'
    BY <1>4, <1>5
  <2> QED BY <2>2, <2>3, <2>4, <2>5, TooMuchStays
<1> QED BY <1>1, <1>4, <1>5, <1>6, <1>7 DEF RecentInv, SinceOK

\* The tail is nearer to the head than nobody, so no list of nearer ids loses it.
LEMMA PruneRecent ==
    ASSUME IInv, Weighed(mem), RecentInv, ~Overlap, Prune
    PROVE  RecentInv'
<1>p. PICK id \in DOMAIN mem.newer :
        /\ mem.newer[id] = DOMAIN mem.newer \ {id}
        /\ mem' = Remove(mem, id)
  BY DEF Prune
<1>g. UNCHANGED <<truth, since>>
  BY DEF Prune
<1>s. Sound(mem) /\ DOMAIN mem.newer = DOMAIN mem.entry /\ id \in DOMAIN mem.entry
  BY <1>p DEF IInv, MemOK, Sound, Shape
<1>e. /\ DOMAIN mem'.entry = DOMAIN mem.entry \ {id}
      /\ mem'.newer = [i \in DOMAIN mem.newer \ {id} |-> mem.newer[i] \ {id}]
  BY <1>p, <1>s, RemoveSound DEF Remove
<1>1. Ordered(mem.newer)'
  BY <1>e DEF Ordered, RecentInv
<1>2. ASSUME NEW i \in DOMAIN mem'.entry
      PROVE  since'[i] = mem'.newer[i]
  <2>1. i \in DOMAIN mem.entry /\ i # id
    BY <1>e
  <2>2. i \in mem.newer[id]
    BY <2>1, <1>p, <1>s
  <2>3. id \notin mem.newer[i]
    BY <2>1, <2>2, <1>s DEF RecentInv, Ordered
  <2>4. mem'.newer[i] = mem.newer[i]
    BY <2>1, <2>3, <1>e, <1>s
  <2> QED BY <2>1, <2>4, <1>g DEF RecentInv, SinceOK
<1>3. TooMuch(since[id] \cup {id}, truth)
  <2>1. since[id] \cup {id} = DOMAIN mem.entry
    BY <1>p, <1>s DEF RecentInv, SinceOK
  <2>2. \A i \in DOMAIN mem.entry : mem.entry[i] = truth[i]
    BY DEF IInv, MemOK, Right
  <2>3. {truth[i] : i \in DOMAIN mem.entry} = DOMAIN mem.refs
    BY <2>2, <1>s DEF Sound, Shared
  <2>4. /\ Bytes(DOMAIN mem.entry, truth) = mem.bytes
        /\ Cardinality(DOMAIN mem.entry) = mem.entries
    BY <2>3, <1>s DEF Bytes, Weighed, Sizes, Sound, Shared
  <2>5. Over(mem)
    BY DEF Prune
  <2> QED BY <2>1, <2>4, <2>5 DEF TooMuch, Over
<1>4. SinceOK'
  <2>1. DOMAIN mem'.entry \subseteq DOMAIN since' /\ DOMAIN since' \subseteq DOMAIN truth'
    BY <1>e, <1>g DEF RecentInv, SinceOK
  <2>2. since' \in [DOMAIN since' -> SUBSET DOMAIN since']
    BY <1>g DEF RecentInv, SinceOK
  <2>3. ASSUME NEW i \in DOMAIN since' \ DOMAIN mem'.entry
        PROVE  TooMuch(since'[i] \cup {i}, truth')
    <3>1. CASE i = id
      BY <3>1, <1>3, <1>g
    <3>2. CASE i # id
      BY <3>2, <1>e, <1>g, <2>3 DEF RecentInv, SinceOK
    <3> QED BY <3>1, <3>2
  <2> QED BY <2>1, <2>2, <2>3, <1>2 DEF SinceOK
<1> QED BY <1>1, <1>4 DEF RecentInv

LEMMA AttachRecent ==
    ASSUME IInv, RecentInv, IInv', Grown, NEW c \in Clients, Attach(c)
    PROVE  RecentInv'
<1>c. PICK calls \in Seq(CallOf) : calls = reader[c].calls
  BY ReaderType DEF Readers, ReaderTypes
<1>m. /\ mem'.entry = mem.entry /\ mem'.newer = Touched(mem.newer, calls)
      /\ since' = Touched(since, calls) /\ truth' = truth
      /\ DOMAIN mem.newer = DOMAIN mem.entry
  BY <1>c, AttachFrame DEF Attach, IInv, MemOK, Sound, Shape
<1> DEFINE hit == Named(calls) \cap DOMAIN mem.entry
<1>1. Ordered(mem.newer)'
  BY <1>m, TouchedOrdered DEF RecentInv
<1>2. DOMAIN since' = DOMAIN since
  BY <1>m DEF Touched
<1>3. \A i \in DOMAIN since :
        /\ i \notin hit => since'[i] = since[i] \cup hit
        /\ since'[i] \subseteq since[i] \cup hit
  BY <1>m DEF Touched
<1>4. \A i \in DOMAIN mem.entry : since'[i] = mem'.newer[i]
  BY <1>m DEF Touched, RecentInv, SinceOK
<1>5. hit \subseteq DOMAIN mem.entry
  OBVIOUS
<1> HIDE DEF hit
<1>6. since' \in [DOMAIN since' -> SUBSET DOMAIN since']
  <2>1. \A i \in DOMAIN since' : since'[i] \in SUBSET DOMAIN since'
    BY <1>2, <1>3, <1>5 DEF RecentInv, SinceOK
  <2>2. since' = [i \in DOMAIN since' |-> since'[i]]
    BY <1>m DEF Touched
  <2> QED BY <2>1, <2>2
<1>7. ASSUME NEW i \in DOMAIN since \ DOMAIN mem.entry
      PROVE  TooMuch(since'[i] \cup {i}, truth')
  <2>1. since'[i] = since[i] \cup hit
    BY <1>3, <1>5
  <2>2. TooMuch(since[i] \cup {i}, truth) /\ since[i] \cup {i} \subseteq DOMAIN truth
    BY DEF RecentInv, SinceOK
  <2>3. since'[i] \cup {i} \subseteq DOMAIN truth'
    BY <1>m, <2>1, <2>2, <1>5 DEF RecentInv, SinceOK
  <2> QED BY <2>1, <2>2, <2>3, TooMuchStays
<1> QED BY <1>m, <1>1, <1>2, <1>4, <1>6, <1>7 DEF RecentInv, SinceOK

LEMMA RecentStep ==
    ASSUME IInv, Weighed(mem), RecentInv, ~Overlap, [Next]_vars
    PROVE  RecentInv'
<1>1. IInv' /\ Grown
  BY NextIInv, NextGrown
<1>2. CASE Prune
  BY <1>2, PruneRecent
<1>3. CASE Restart
  <2>1. mem'.entry = <<>> /\ mem'.newer = <<>> /\ since' = <<>>
    BY <1>3 DEF Restart, Empty
  <2> QED BY <2>1 DEF RecentInv, Ordered, SinceOK
<1>4. CASE UNCHANGED <<mem, since>>
  <2>1. \A i \in DOMAIN since \ DOMAIN mem.entry : TooMuch(since[i] \cup {i}, truth')
    <3>1. SUFFICES ASSUME NEW i \in DOMAIN since \ DOMAIN mem.entry
                   PROVE  TooMuch(since[i] \cup {i}, truth')
      OBVIOUS
    <3>2. TooMuch(since[i] \cup {i}, truth) /\ since[i] \cup {i} \subseteq DOMAIN truth
      BY DEF RecentInv, SinceOK
    <3>3. since[i] \cup {i} \subseteq DOMAIN truth'
      BY <3>2, <1>1 DEF Grown
    <3> QED BY <3>2, <3>3, <1>1, TooMuchStays
  <2>2. DOMAIN truth \subseteq DOMAIN truth'
    BY <1>1 DEF Grown
  <2> QED BY <1>4, <2>1, <2>2 DEF RecentInv, SinceOK, Ordered
<1>5. ASSUME NEW id \in Ids, NEW b \in Blocks, Keep(id, b)
      PROVE  RecentInv'
  BY <1>1, <1>5, KeepRecent
<1>6. ASSUME NEW c \in Clients, Attach(c)
      PROVE  RecentInv'
  BY <1>1, <1>6, AttachRecent
<1>7. CASE Next
  BY <1>7, <1>2, <1>3, <1>4, <1>5, <1>6, PutsOf
<1> QED BY <1>4, <1>7 DEF vars

\* tool_memory_touch, tool_memory_prune_locked, with no map rewritten while it is
\* read: an id is forgotten only when it does not fit together with the ids
\* used after it, whichever thread used them.
THEOREM RecentCorrect == ~Overlap => (Spec => []MostRecentKept)
<1> SUFFICES ASSUME ~Overlap PROVE Spec => []MostRecentKept
  OBVIOUS
<1>1. Init => Weighed(mem) /\ RecentInv
  <2>1. Init => Weighed(mem)
    BY EmptyWeighed DEF Init
  <2>2. Init => RecentInv
    BY DEF Init, Empty, RecentInv, Ordered, SinceOK
  <2> QED BY <2>1, <2>2
<1>2. IInv /\ Weighed(mem) /\ RecentInv /\ [Next]_vars => (Weighed(mem) /\ RecentInv)'
  <2>1. IInv /\ Weighed(mem) /\ [Next]_vars => Weighed(mem')
    BY WeighedStep
  <2>2. (Weighed(mem))' <=> Weighed(mem')
    BY DEF Weighed, Sizes
  <2> QED BY <2>1, <2>2, RecentStep
<1>3. RecentInv => MostRecentKept
  BY DEF RecentInv, SinceOK, MostRecentKept, TooMuch
<1> QED BY <1>1, <1>2, <1>3, Invariance, PTL DEF Spec
=============================================================================
