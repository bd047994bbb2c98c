---------------------------- MODULE SessionStore ----------------------------
(***************************************************************************)
(* session/store.py: one session's files.  Appends are queued with a       *)
(* snapshot of the metadata and written by a thread, entry by entry;       *)
(* meanwhile the event loop and other threads update single metadata keys  *)
(* under the lock, and threads load the history through a cache keyed by   *)
(* the file's stat.                                                        *)
(***************************************************************************)
EXTENDS Naturals, Sequences, FiniteSets

CONSTANTS
  Readers,      \* threads that load the history
  Values,       \* values of a metadata key
  Unset,        \* the key is absent
  MaxBatches,   \* bound: append_history calls
  MaxUpdates,   \* bound: direct updates
  MaxFaults     \* bound: writes that raise OSError

VARIABLES
  own,       \* the Session object's metadata: its follow_up_queue and queued turn
  disk,      \* meta.json: the same keys, and whether the file exists
  events,    \* events.jsonl: entries <<batch, place>>
  batches,   \* the writer's queue, its head being the batch in the thread
  step,      \* how far the thread is: "begin", "half", "whole", "told"
  done,      \* the future of each batch
  flush,     \* wait_for_flush: the batch it waits for, 0 before; and its outcome
  cache,     \* _history_cache: the stat it is keyed by (0: empty) and the entries
  reader,    \* per thread: where it is, its stat, what it returned
  queuedTurn,  \* history: the queued turn last written by update_meta
  updates, faults

vars == <<own, disk, events, batches, step, done, flush, cache, reader, queuedTurn, updates, faults>>

Numbers == 1 .. MaxBatches
Places == 1 .. 2
Empty == [stat |-> 0, items |-> <<>>]

Init ==
  /\ \E v \in {Unset} \cup Values :
       /\ own = [queue |-> Unset, turn |-> v]
       /\ disk \in {[exists |-> TRUE, queue |-> Unset, turn |-> v]}
            \cup (IF v = Unset THEN {[exists |-> FALSE, queue |-> Unset, turn |-> Unset]} ELSE {})
       /\ queuedTurn = v
  /\ events = <<>> /\ batches = <<>> /\ step = "begin"
  /\ done = [n \in Numbers |-> "none"]
  /\ flush = [n |-> 0, got |-> "none"]
  /\ cache = Empty
  /\ reader = [r \in Readers |-> [at |-> "idle", stat |-> 0, items |-> <<>>]]
  /\ updates = 0 /\ faults = 0

-----------------------------------------------------------------------------
(* The event loop. *)

NextNumber == Cardinality({n \in Numbers : done[n] # "none"}) + 1

(* append_history with its snapshot, append_and_flush. *)
AppendHistory ==
  /\ NextNumber \in Numbers
  /\ batches' = Append(batches, [n |-> NextNumber, meta |-> own])
  /\ done' = [done EXCEPT ![NextNumber] = "pending"]
  /\ UNCHANGED <<own, disk, events, step, flush, cache, reader, queuedTurn, updates, faults>>

(* set_follow_up_queue: update_meta, or a first meta.json with everything. *)
SetQueue(v) ==
  /\ updates < MaxUpdates /\ updates' = updates + 1
  /\ own' = [own EXCEPT !.queue = v]
  /\ disk' = IF disk.exists THEN [disk EXCEPT !.queue = v]
             ELSE IF v # Unset THEN [exists |-> TRUE, queue |-> v, turn |-> own.turn]
             ELSE disk
  /\ UNCHANGED <<events, batches, step, done, flush, cache, reader, queuedTurn, faults>>

(* persist_headless_queued_turn: only the file, and only if there is one. *)
PersistTurn(v) ==
  /\ updates < MaxUpdates /\ updates' = updates + 1
  /\ disk.exists
  /\ disk' = [disk EXCEPT !.turn = v] /\ queuedTurn' = v
  /\ UNCHANGED <<own, events, batches, step, done, flush, cache, reader, faults>>

WaitForFlush ==
  /\ flush.n = 0 /\ NextNumber > 1
  /\ flush' = [n |-> NextNumber - 1, got |-> "none"]
  /\ UNCHANGED <<own, disk, events, batches, step, done, cache, reader, queuedTurn, updates, faults>>

Flushed ==
  /\ flush.n # 0 /\ flush.got = "none" /\ done[flush.n] \in {"ok", "failed"}
  /\ flush' = [flush EXCEPT !.got = done[flush.n]]
  /\ UNCHANGED <<own, disk, events, batches, step, done, cache, reader, queuedTurn, updates, faults>>

-----------------------------------------------------------------------------
(* The writer's thread: _write_batch_sync. *)

Writing == batches # <<>>

WriteEntry ==
  /\ Writing /\ step \in {"begin", "half"}
  /\ events' = Append(events, <<Head(batches).n, IF step = "begin" THEN 1 ELSE 2>>)
  /\ step' = IF step = "begin" THEN "half" ELSE "whole"
  /\ UNCHANGED <<own, disk, batches, done, flush, cache, reader, queuedTurn, updates, faults>>

InvalidateCache ==
  /\ Writing /\ step = "whole"
  /\ cache' = Empty
  /\ step' = "told"
  /\ UNCHANGED <<own, disk, events, batches, done, flush, reader, queuedTurn, updates, faults>>

(* The runtime keys of a file that exists win over the snapshot, absent ones
   included. *)
Merged(meta) ==
  IF disk.exists THEN disk ELSE [exists |-> TRUE, queue |-> meta.queue, turn |-> meta.turn]

WriteMeta ==
  /\ Writing /\ step = "told"
  /\ disk' = Merged(Head(batches).meta)
  /\ done' = [done EXCEPT ![Head(batches).n] = "ok"]
  /\ batches' = Tail(batches) /\ step' = "begin"
  /\ UNCHANGED <<own, events, flush, cache, reader, queuedTurn, updates, faults>>

Outcome == "failed"

(* The thread raises; the next batch is written all the same. *)
WriteFails ==
  /\ Writing /\ faults < MaxFaults /\ faults' = faults + 1
  /\ done' = [done EXCEPT ![Head(batches).n] = Outcome]
  /\ batches' = Tail(batches) /\ step' = "begin"
  /\ UNCHANGED <<own, disk, events, flush, cache, reader, queuedTurn, updates>>

-----------------------------------------------------------------------------
(* load_history in a thread: stat, look at the cache, decode, fill the cache. *)

Stat(r) ==
  /\ reader[r].at \in {"idle", "over"}
  /\ reader' = [reader EXCEPT ![r] = [at |-> "stat", stat |-> Len(events), items |-> <<>>]]
  /\ UNCHANGED <<own, disk, events, batches, step, done, flush, cache, queuedTurn, updates, faults>>

(* Mutant: the cache is taken for fresh until it is invalidated. *)
CacheAnyHit(stat) == cache.stat # 0

CacheHit(stat) == cache.stat # 0 /\ cache.stat = stat

Lookup(r) ==
  /\ reader[r].at = "stat"
  /\ reader' = [reader EXCEPT ![r] =
       IF CacheHit(@.stat) THEN [@ EXCEPT !.at = "over", !.items = cache.items]
       ELSE [@ EXCEPT !.at = "decode"]]
  /\ UNCHANGED <<own, disk, events, batches, step, done, flush, cache, queuedTurn, updates, faults>>

Decode(r) ==
  /\ reader[r].at = "decode"
  /\ reader' = [reader EXCEPT ![r] = [@ EXCEPT !.at = "fill", !.items = events]]
  /\ UNCHANGED <<own, disk, events, batches, step, done, flush, cache, queuedTurn, updates, faults>>

Fill(r) ==
  /\ reader[r].at = "fill"
  /\ cache' = [stat |-> reader[r].stat, items |-> reader[r].items]
  /\ reader' = [reader EXCEPT ![r].at = "over"]
  /\ UNCHANGED <<own, disk, events, batches, step, done, flush, queuedTurn, updates, faults>>

Next ==
  \/ AppendHistory \/ WaitForFlush \/ Flushed
  \/ WriteEntry \/ InvalidateCache \/ WriteMeta \/ WriteFails
  \/ \E v \in Values \cup {Unset} : SetQueue(v) \/ PersistTurn(v)
  \/ \E r \in Readers : Stat(r) \/ Lookup(r) \/ Decode(r) \/ Fill(r)

Spec == Init /\ [][Next]_vars

-----------------------------------------------------------------------------
(* Types. *)
TypeOK ==
  /\ own \in [queue : Values \cup {Unset}, turn : Values \cup {Unset}]
  /\ disk \in [exists : BOOLEAN, queue : Values \cup {Unset}, turn : Values \cup {Unset}]
  /\ events \in Seq(Numbers \X Places)
  /\ step \in {"begin", "half", "whole", "told"}
  /\ done \in [Numbers -> {"none", "pending", "ok", "failed"}]
  /\ cache.stat \in 0 .. 2 * MaxBatches
  /\ \A r \in Readers : reader[r].at \in {"idle", "stat", "decode", "fill", "over"}

(* A queued batch carries metadata of its time; whenever it lands, the keys
   that update_meta owns keep what was written to them last, also when that
   was their deletion. *)
RuntimeKeysSurvive ==
  disk.exists => disk.turn = queuedTurn /\ disk.queue = own.queue

(* wait_for_flush returned: of the batches up to its own, those whose write
   did not fail are in the file, whole and in order; a hole is a failed one. *)
FlushMeansWritten ==
  flush.got = "ok" =>
    \A n \in 1 .. flush.n :
      done[n] # "failed" =>
        \E i \in 1 .. Len(events) - 1 :
          /\ events[i] = <<n, 1>> /\ events[i + 1] = <<n, 2>>
          /\ \A j \in 1 .. i - 1 : events[j][1] < n

(* A load returns a prefix of the file that holds at least what was there
   when it began, from the cache or not. *)
LoadIsFresh ==
  \A r \in Readers : reader[r].at = "over" =>
    /\ Len(reader[r].items) >= reader[r].stat
    /\ reader[r].items = SubSeq(events, 1, Len(reader[r].items))
=============================================================================
