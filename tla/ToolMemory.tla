----------------------------- MODULE ToolMemory -----------------------------
(***************************************************************************)
(* Tool memory of ds4_server.c.  The model writes a tool call as text; a   *)
(* client sends it back as JSON, from which the same bytes cannot be       *)
(* rendered again.  So the server gives each call a random id, remembers   *)
(* the exact text under it, and replays that text when the id comes back,  *)
(* for else the prompt and the KV cache would part.  The memory is a list  *)
(* by recency with two limits; ids with the same text share one counted    *)
(* block.  To outlive a restart the ids of a conversation are stored in a  *)
(* map at the end of its checkpoint.                                       *)
(*                                                                         *)
(* Who touches it: client threads, which restore the ids of a request from *)
(* all checkpoints and then attach the texts; workers, which remember the  *)
(* calls of a turn, store checkpoints and load them.  tool_mu guards the   *)
(* memory and is held while a map is written; kv_mu keeps one store or     *)
(* load at a time, but a client thread reads maps without it.              *)
(*                                                                         *)
(* A call id is a number in the order of creation; a text is a member of   *)
(* Blocks.  A checkpoint is known by its text, from which                  *)
(* find_next_dsml_tool_block cuts the pieces Found[t]: just the blocks     *)
(* that are one call after exactly two newlines (a block with another      *)
(* separator, or of two calls, is not among them).  Abstracted: the order  *)
(* of the records within a map; payloads, budget and compatibility of      *)
(* checkpoints (KvStore); the source of an entry, which only a log tells.  *)
(*                                                                         *)
(* A definition named Op_What is a slip in Op that the properties must     *)
(* catch; nothing refers to it.                                            *)
(***************************************************************************)
EXTENDS Integers, Sequences, FiniteSets, FiniteSetsExt, Functions

CONSTANTS Clients,
          Loader,      \* the worker that loads a checkpoint
          MaxIds,      \* bound: calls made
          TurnCalls,   \* bound: calls of one turn
          Blocks, BlockBytes,       \* texts of tool calls and their sizes
          EntryBytes, MaxEntries, MaxBytes,
          Texts, Found,             \* checkpoints and the blocks cut from them
          Requests,    \* bound: the calls in a request's history
          Overlap,     \* whether a map may be rewritten while it is read
          None

Ids == 1..MaxIds
Readers == Clients \cup {Loader}
Records == [id : Ids, block : Blocks]
Maps == [flag : BOOLEAN, count : Nat, recs : Seq(Records)]
NoMap == [flag |-> FALSE, count |-> 0, recs |-> <<>>]

\* A call of a request, and the message of the history it belongs to.
CallOf == [msg : Nat, id : Ids]

ASSUME ToolMemoryAssumption ==
    /\ {MaxIds, TurnCalls, EntryBytes, MaxEntries, MaxBytes} \subseteq Nat \ {0}
    /\ BlockBytes \in [Blocks -> Nat \ {0}]
    /\ Found \in [Texts -> SUBSET Blocks]
    /\ Requests \subseteq Seq(CallOf)
    /\ Overlap \in BOOLEAN
    /\ Loader \notin Clients /\ None \notin Blocks /\ None \notin Maps /\ None \notin Texts

VARIABLES
    mem,      \* tool_memory: entry, the block of an id (by_id); newer, the ids nearer
              \* the head of the list; refs of the blocks in by_block; the counters
    puts,     \* what the thread that holds tool_mu has still to put
    files,    \* the maps of the checkpoints in the directory
    store,    \* the checkpoint being written
    reader,   \* the threads that read maps
    truth,    \* ghost: the text the model sampled for an id
    since     \* ghost: by id, the ids used after it was last used

vars == <<mem, puts, files, store, reader, truth, since>>

-----------------------------------------------------------------------------
(* The memory.                                                             *)

Empty == [entry |-> <<>>, newer |-> <<>>, refs |-> <<>>, entries |-> 0, bytes |-> 0]

Less(n, k) == IF n >= k THEN n - k ELSE 0

Without(f, x) == [y \in DOMAIN f \ {x} |-> f[y]]
With(f, x, v) == [y \in DOMAIN f \cup {x} |-> IF y = x THEN v ELSE f[y]]

\* tool_memory_touch: to the head of a list given by who is nearer to it.
Moved(newer, id) ==
    [i \in DOMAIN newer \cup {id} |-> IF i = id THEN {} ELSE newer[i] \cup {id}]

\* The block is released, but its size not taken off.
Remove_KeepsBytes(m, id) ==
    LET b    == m.entry[id]
        last == m.refs[b] <= 1
    IN  [entry   |-> Without(m.entry, id),
         newer   |-> [i \in DOMAIN m.newer \ {id} |-> m.newer[i] \ {id}],
         refs    |-> IF last THEN Without(m.refs, b) ELSE [m.refs EXCEPT ![b] = @ - 1],
         entries |-> Less(m.entries, 1),
         bytes   |-> Less(m.bytes, EntryBytes)]

\* The entry leaves by_id but stays on the list.
Remove_StaysListed(m, id) ==
    LET b    == m.entry[id]
        last == m.refs[b] <= 1
    IN  [entry   |-> Without(m.entry, id),
         newer   |-> m.newer,
         refs    |-> IF last THEN Without(m.refs, b) ELSE [m.refs EXCEPT ![b] = @ - 1],
         entries |-> Less(m.entries, 1),
         bytes   |-> Less(Less(m.bytes, EntryBytes), IF last THEN BlockBytes[b] ELSE 0)]

\* tool_memory_remove_entry_locked, tool_memory_release_block_locked
Remove(m, id) ==
    LET b    == m.entry[id]
        last == m.refs[b] <= 1
    IN  [entry   |-> Without(m.entry, id),
         newer   |-> [i \in DOMAIN m.newer \ {id} |-> m.newer[i] \ {id}],
         refs    |-> IF last THEN Without(m.refs, b) ELSE [m.refs EXCEPT ![b] = @ - 1],
         entries |-> Less(m.entries, 1),
         bytes   |-> Less(Less(m.bytes, EntryBytes), IF last THEN BlockBytes[b] ELSE 0)]

\* A block that is shared is not counted again.
Insert_Uncounted(m, id, b) ==
    LET shared == b \in DOMAIN m.refs
    IN  [entry   |-> With(m.entry, id, b),
         newer   |-> Moved(m.newer, id),
         refs    |-> With(m.refs, b, IF shared THEN m.refs[b] ELSE 1),
         entries |-> m.entries + 1,
         bytes   |-> m.bytes + (IF shared THEN 0 ELSE BlockBytes[b]) + EntryBytes]

\* tool_memory_get_block_locked and the new entry of tool_memory_put_locked.
Insert(m, id, b) ==
    LET shared == b \in DOMAIN m.refs
    IN  [entry   |-> With(m.entry, id, b),
         newer   |-> Moved(m.newer, id),
         refs    |-> With(m.refs, b, IF shared THEN m.refs[b] + 1 ELSE 1),
         entries |-> m.entries + 1,
         bytes   |-> m.bytes + (IF shared THEN 0 ELSE BlockBytes[b]) + EntryBytes]

Put_Untouched(m, id, b) ==
    IF id \notin DOMAIN m.entry THEN Insert(m, id, b)
    ELSE IF m.entry[id] = b THEN m
    ELSE Insert(Remove(m, id), id, b)

\* tool_memory_put_locked up to the prune
Put(m, id, b) ==
    IF id \notin DOMAIN m.entry THEN Insert(m, id, b)
    ELSE IF m.entry[id] = b THEN [m EXCEPT !.newer = Moved(@, id)]
    ELSE Insert(Remove(m, id), id, b)

\* The condition of tool_memory_prune_locked.
Over(m) == m.entries > MaxEntries \/ m.bytes > MaxBytes

\* Who holds tool_mu has texts to put, or prunes, or writes a map.
Locked == puts # <<>> \/ Over(mem) \/ store.stage = "records"

-----------------------------------------------------------------------------
NoStore  == [stage |-> "idle", text |-> None, fresh |-> FALSE, todo |-> {}, map |-> NoMap]
NoReader == [stage |-> "idle", calls |-> <<>>, left |-> {}, text |-> None, own |-> None,
             at |-> 1, count |-> 0, id |-> 0, block |-> None, replay |-> <<>>]

Init ==
    /\ mem = Empty /\ puts = <<>>
    /\ files = <<>> /\ store = NoStore
    /\ reader = [r \in Readers |-> NoReader]
    /\ truth = <<>> /\ since = <<>>

\* One put of the thread that has tool_mu, and its trace in the ghost.
Keep(id, b) == mem' = Put(mem, id, b) /\ since' = Moved(since, id)

-----------------------------------------------------------------------------
(* Turns and pruning.                                                      *)

\* A turn made n calls with the text b: assign_tool_call_ids, and
\* tool_memory_remember, which keeps tool_mu for all of them.
Remember(n, b) ==
    LET k == Cardinality(DOMAIN truth) IN
    /\ ~Locked
    /\ k + n <= MaxIds
    /\ truth' = [i \in 1..k + n |-> IF i <= k THEN truth[i] ELSE b]
    /\ Keep(k + 1, b)
    /\ puts' = [i \in 1..n - 1 |-> [id |-> k + 1 + i, block |-> b]]
    /\ UNCHANGED <<files, store, reader>>

PutNext ==
    /\ puts # <<>> /\ ~Over(mem)
    /\ Keep(Head(puts).id, Head(puts).block)
    /\ puts' = Tail(puts)
    /\ UNCHANGED <<files, store, reader, truth>>

\* A pass of the loop of tool_memory_prune_locked: the tail goes.
Prune ==
    /\ Over(mem)
    /\ \E id \in DOMAIN mem.newer :
         /\ mem.newer[id] = DOMAIN mem.newer \ {id}
         /\ mem' = Remove(mem, id)
    /\ UNCHANGED <<puts, files, store, reader, truth, since>>

-----------------------------------------------------------------------------
(* Stores.                                                                 *)

Known_All(t) == DOMAIN mem.entry

\* The ids that a map for checkpoint t gets (kv_tool_map_measure_locked).
Known(t) == {id \in DOMAIN mem.entry : mem.entry[id] \in Found[t]}

Reading(r) == reader[r].stage \in {"id", "text", "put"}
ReadInPlace(r, t) == Reading(r) /\ reader[r].text = t /\ reader[r].own = None

MayStore == ~Locked /\ store = NoStore /\ reader[Loader].stage = "idle"

\* The checkpoint exists: kv_cache_rewrite_trailer cuts its map off, if there
\* is something to put in its place.
Rewrite(t) ==
    /\ MayStore
    /\ t \in DOMAIN files /\ Known(t) # {}
    /\ Overlap \/ \A r \in Readers : ~ReadInPlace(r, t)
    /\ LET cut == [files[t] EXCEPT !.count = 0, !.recs = <<>>] IN
       /\ files' = [files EXCEPT ![t] = cut]
       /\ store' = [NoStore EXCEPT !.stage = "write", !.text = t, !.map = cut]
    /\ UNCHANGED <<mem, puts, reader, truth, since>>

\* It does not: a temporary file is begun, flagged by the size measured now.
Create(t) ==
    /\ MayStore
    /\ t \notin DOMAIN files
    /\ store' = [NoStore EXCEPT !.stage = "write", !.text = t, !.fresh = TRUE,
                                !.map.flag = Known(t) # {}]
    /\ UNCHANGED <<mem, puts, files, reader, truth, since>>

\* The bytes written go to the temporary file or to the checkpoint itself.
Written(m) == files' = IF store.fresh THEN files ELSE [files EXCEPT ![store.text] = m]

\* kv_tool_map_write takes tool_mu, measures again and writes the count.
BeginMap ==
    /\ store.stage = "write" /\ ~Locked
    /\ LET ids == Known(store.text)
           m   == [store.map EXCEPT !.count = Cardinality(ids)] IN
       /\ store' = [store EXCEPT !.stage = IF ids = {} THEN "close" ELSE "records",
                                 !.todo = ids, !.map = m]
       /\ Written(m)
    /\ UNCHANGED <<mem, puts, reader, truth, since>>

WriteRecord ==
    /\ store.stage = "records"
    /\ \E id \in store.todo :
         LET m == [store.map EXCEPT !.recs = Append(@, [id |-> id, block |-> mem.entry[id]])] IN
         /\ store' = [store EXCEPT !.stage = IF store.todo = {id} THEN "close" ELSE "records",
                                   !.todo = @ \ {id}, !.map = m]
         /\ Written(m)
    /\ UNCHANGED <<mem, puts, reader, truth, since>>

\* A rewritten checkpoint is flagged if it got a map, a new one is published.
CloseFile ==
    /\ store.stage = "close"
    /\ files' = With(files, store.text,
                     IF ~store.fresh /\ store.map.count > 0
                     THEN [store.map EXCEPT !.flag = TRUE] ELSE store.map)
    /\ store' = NoStore
    /\ UNCHANGED <<mem, puts, reader, truth, since>>

\* A write fails: the temporary file is removed, a cut map stays as it is.
StoreFails ==
    /\ store.stage # "idle"
    /\ store' = NoStore
    /\ UNCHANGED <<mem, puts, files, reader, truth, since>>

\* A checkpoint is evicted for a store, or discarded, under kv_mu.  A client
\* thread that has it open reads on.
Unlink(t) ==
    /\ t \in DOMAIN files
    /\ store = NoStore \/ (store.stage = "write" /\ store.fresh)
    /\ reader[Loader].stage = "idle"
    /\ files' = Without(files, t)
    /\ reader' = [r \in Readers |-> IF ReadInPlace(r, t)
                                    THEN [reader[r] EXCEPT !.own = files[t]] ELSE reader[r]]
    /\ UNCHANGED <<mem, puts, store, truth, since>>

-----------------------------------------------------------------------------
(* Reading maps.                                                           *)

Wanted(r, id) == r = Loader \/ \E k \in 1..Len(reader[r].calls) : reader[r].calls[k].id = id

\* The map that r reads, as it is now.
Content(r) == IF reader[r].own # None THEN reader[r].own ELSE files[reader[r].text]

\* A client sends a request; opendir of kv_cache_restore_tool_memory_for_messages.
Ask(c, calls) ==
    /\ reader[c].stage = "idle"
    /\ \A k \in 1..Len(calls) : calls[k].id \in DOMAIN truth
    /\ reader' = [reader EXCEPT ![c].stage = "scan", ![c].calls = calls,
                                ![c].left = DOMAIN files]
    /\ UNCHANGED <<mem, puts, files, store, truth, since>>

Settled(t) == Overlap \/ store.fresh \/ store.text # t

\* kv_tool_map_load_from_pos up to its loop.
Readable(t) ==
    /\ t \in DOMAIN files
    /\ files[t].flag
    /\ files[t].count \in 1..4 * MaxEntries

Opened(r, t) ==
    [NoReader EXCEPT !.stage = "id", !.calls = reader[r].calls,
                     !.left = reader[r].left \ {t}, !.text = t, !.count = files[t].count]

\* The next checkpoint of the directory, if there is a map to be read in it.
NextFile(c) ==
    /\ reader[c].stage = "scan"
    /\ \E t \in reader[c].left :
         /\ Settled(t)
         /\ reader' = [reader EXCEPT ![c] = IF Readable(t) THEN Opened(c, t)
                                            ELSE [reader[c] EXCEPT !.left = @ \ {t}]]
    /\ UNCHANGED <<mem, puts, files, store, truth, since>>

\* A worker loads a checkpoint and takes all of its map.
Load(t) ==
    /\ reader[Loader].stage = "idle" /\ store = NoStore
    /\ Readable(t)
    /\ reader' = [reader EXCEPT ![Loader] = Opened(Loader, t)]
    /\ UNCHANGED <<mem, puts, files, store, truth, since>>

Closed(r) ==
    IF r = Loader THEN NoReader
    ELSE [NoReader EXCEPT !.stage = "scan", !.calls = reader[r].calls, !.left = reader[r].left]

\* The id of a record, or the end of the map.
ReadId(r) ==
    /\ reader[r].stage = "id"
    /\ LET recs == Content(r).recs
           at   == reader[r].at IN
       reader' = [reader EXCEPT ![r] =
                     IF at > reader[r].count \/ at > Len(recs) THEN Closed(r)
                     ELSE [reader[r] EXCEPT !.stage = "text", !.id = recs[at].id]]
    /\ UNCHANGED <<mem, puts, files, store, truth, since>>

\* Its text, or a short read; an id that is not wanted is passed over.
ReadText(r) ==
    /\ reader[r].stage = "text"
    /\ LET recs == Content(r).recs
           at   == reader[r].at IN
       reader' = [reader EXCEPT ![r] =
                     IF at > Len(recs) THEN Closed(r)
                     ELSE IF Wanted(r, reader[r].id)
                     THEN [reader[r] EXCEPT !.stage = "put", !.at = at + 1,
                                               !.block = recs[at].block]
                     ELSE [reader[r] EXCEPT !.stage = "id", !.at = at + 1, !.id = 0]]
    /\ UNCHANGED <<mem, puts, files, store, truth, since>>

\* tool_memory_put_source
PutRead(r) ==
    /\ reader[r].stage = "put" /\ ~Locked
    /\ Keep(reader[r].id, reader[r].block)
    /\ reader' = [reader EXCEPT ![r].stage = "id", ![r].id = 0, ![r].block = None]
    /\ UNCHANGED <<puts, files, store, truth>>

-----------------------------------------------------------------------------
(* Replay.                                                                 *)

\* The entries of mem that a request names, all touched in its order.
Named(calls) == {calls[k].id : k \in 1..Len(calls)}
LastAt(calls, id) == Max({k \in 1..Len(calls) : calls[k].id = id})

Touched(newer, calls) ==
    LET hit == Named(calls) \cap DOMAIN mem.entry
    IN  [i \in DOMAIN newer |->
           IF i \in hit THEN {j \in hit : LastAt(calls, j) > LastAt(calls, i)}
           ELSE newer[i] \cup hit]

OfMessage(calls, m) == {calls[k].id : k \in {k \in 1..Len(calls) : calls[k].msg = m}}

Replay_First(ids) ==
    IF ids \subseteq DOMAIN mem.entry THEN mem.entry[CHOOSE id \in ids : TRUE] ELSE None

\* The text that a message is replayed with, if all its ids share a block.
Replay(ids) ==
    IF \E b \in Blocks : \A id \in ids : id \in DOMAIN mem.entry /\ mem.entry[id] = b
    THEN mem.entry[CHOOSE id \in ids : TRUE] ELSE None

\* tool_memory_attach_to_messages
Attach(c) ==
    LET calls == reader[c].calls IN
    /\ reader[c].stage = "scan" /\ reader[c].left = {}
    /\ ~Locked
    /\ mem' = [mem EXCEPT !.newer = Touched(@, calls)]
    /\ since' = Touched(since, calls)
    /\ reader' = [reader EXCEPT ![c].stage = "attached",
                     ![c].replay = [m \in {calls[k].msg : k \in 1..Len(calls)} |->
                                      Replay(OfMessage(calls, m))]]
    /\ UNCHANGED <<puts, files, store, truth>>

\* The prompt was rendered; the request goes its way.
Rendered(c) ==
    /\ reader[c].stage = "attached"
    /\ reader' = [reader EXCEPT ![c] = NoReader]
    /\ UNCHANGED <<mem, puts, files, store, truth, since>>

\* The process ends, in order or not, and another one opens the directory.
Restart ==
    /\ mem' = Empty /\ puts' = <<>> /\ store' = NoStore
    /\ reader' = [r \in Readers |-> NoReader]
    /\ since' = <<>>
    /\ UNCHANGED <<files, truth>>

Next ==
    \/ \E n \in 1..TurnCalls, b \in Blocks : Remember(n, b)
    \/ PutNext
    \/ Prune
    \/ \E t \in Texts : Rewrite(t) \/ Create(t) \/ Unlink(t) \/ Load(t)
    \/ BeginMap
    \/ WriteRecord
    \/ CloseFile
    \/ StoreFails
    \/ \E c \in Clients, calls \in Requests : Ask(c, calls)
    \/ \E c \in Clients : NextFile(c) \/ Attach(c) \/ Rendered(c)
    \/ \E r \in Readers : ReadId(r) \/ ReadText(r) \/ PutRead(r)
    \/ Restart

Spec == Init /\ [][Next]_vars

-----------------------------------------------------------------------------
MemoryTypeOK ==
    /\ DOMAIN mem.entry \subseteq Ids
    /\ mem.entry \in [DOMAIN mem.entry -> Blocks]
    /\ mem.newer \in [DOMAIN mem.entry -> SUBSET DOMAIN mem.entry]
    /\ mem.refs \in [DOMAIN mem.refs -> Nat \ {0}]
    /\ mem.entries \in Nat /\ mem.bytes \in Nat

DiskTypeOK ==
    /\ DOMAIN files \subseteq Texts /\ files \in [DOMAIN files -> Maps]
    /\ store \in [stage : {"idle", "write", "records", "close"}, text : Texts \cup {None},
                  fresh : BOOLEAN, todo : SUBSET DOMAIN mem.entry, map : Maps]

ReaderTypeOK ==
    \A r \in Readers :
      /\ reader[r].stage \in {"idle", "scan", "id", "text", "put", "attached"}
      /\ reader[r].calls \in Seq(CallOf) /\ reader[r].left \subseteq Texts
      /\ reader[r].own \in Maps \cup {None}
      /\ Reading(r) => reader[r].own # None \/ reader[r].text \in DOMAIN files

\* The fields are in range.  In particular an id that a map is being written
\* with is still there, and a map being read is somewhere.
TypeOK ==
    /\ MemoryTypeOK /\ DiskTypeOK /\ ReaderTypeOK
    /\ puts \in Seq(Records)
    /\ truth \in [1..Cardinality(DOMAIN truth) -> Blocks]
    /\ DOMAIN mem.entry \subseteq DOMAIN truth

\* The blocks are those of the entries, each counted as often as it is used:
\* none is freed while an id needs it (release_block), none is left over.
SharingExact ==
    /\ mem.entries = Cardinality(DOMAIN mem.entry)
    /\ DOMAIN mem.refs = {mem.entry[id] : id \in DOMAIN mem.entry}
    /\ \A b \in DOMAIN mem.refs :
         mem.refs[b] = Cardinality({id \in DOMAIN mem.entry : mem.entry[id] = b})

\* What ids with these texts occupy, a shared text once.
Bytes(ids, text) ==
    Cardinality(ids) * EntryBytes + SumFunctionOnSet(BlockBytes, {text[id] : id \in ids})

\* The byte limit is kept by the true size: through shares, replaced texts
\* and prunes, m->bytes is the sum of what is there.
BytesExact == mem.bytes = Bytes(DOMAIN mem.entry, mem.entry)

\* An id is forgotten only when it and the ids used after it do not fit: the
\* memory keeps what was used last, whoever used it, and no entry falls out
\* because another thread restored, shared or attached something else.
MostRecentKept ==
    \A id \in DOMAIN since :
      IF id \in DOMAIN mem.entry THEN since[id] = mem.newer[id]
      ELSE LET ids == since[id] \cup {id} IN
           Cardinality(ids) > MaxEntries \/ Bytes(ids, truth) > MaxBytes

\* "When the client later sends the same id back in conversation history, we
\* replay the sampled DSML verbatim": a message is replayed with the text the
\* model made all its calls with, or not from memory at all.
ExactOrNothing ==
    \A c \in Clients : reader[c].stage = "attached" =>
      \A k \in 1..Len(reader[c].calls) :
        LET call == reader[c].calls[k] IN
        reader[c].replay[call.msg] \in {truth[call.id], None}

\* A map belongs to its checkpoint: it names only calls whose text was found
\* there, each with the text it was made with, and no more than it announces.
MapsHonest ==
    \A t \in DOMAIN files :
      /\ Len(files[t].recs) <= files[t].count
      /\ \A k \in 1..Len(files[t].recs) :
           LET rec == files[t].recs[k] IN
           rec.block \in Found[t] /\ rec.id \in DOMAIN truth /\ rec.block = truth[rec.id]
=============================================================================
