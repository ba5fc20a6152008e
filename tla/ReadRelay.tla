---- MODULE ReadRelay ----
(***************************************************************************)
(* The read relay (src/src/dsm/rr): an index built by paging through the   *)
(* shards, kept in five files, and the queries over it; and the block      *)
(* layer (src/src/dsm/block_layer/manager.py), which packs entries into    *)
(* blocks the relay expands.                                               *)
(***************************************************************************)
EXTENDS Integers, Sequences, FiniteSets, SequencesExt, FiniteSetsExt

CONSTANTS RShards,       \* in the order list_shards returns them
          REntries,      \* what writers append: <<shard, session, agent, action>>
          BatchSize, BlockSize, MaxEntries, MaxClock, MaxCrashes

VARIABLES rlog,      \* [shard -> entries, oldest first]
          rclock,
          mem,       \* the indexes in memory, each in its own order
          files,     \* the .idx files: the index each holds, or NoIndex
          job,       \* the build under way: phase, shard, offset, files written
          since,     \* number of entries each shard had when the build began
          buffer,    \* BlockManager._buffers of its one logical shard
          blocks,    \* the entries of the block shard
          acked,     \* entries BlockManager.append has returned
          crashes

rrVars == <<rlog, rclock, mem, files, job, since, buffer, blocks, acked, crashes>>

NoIndex == <<>>
IndexNames == <<"sessions", "agents", "timeline", "shards", "actions">>
Names == ToSet(IndexNames)
NoAction == "none"
Total == FoldSeq(LAMBDA s, n : n + Len(rlog[s]), 0, RShards)

---------------------------------------------------------------------------
\* Writers, and Storage.read: newest first, offset counted from the newest.
RAppend(e) ==
  /\ Total + Len(acked) < MaxEntries
  /\ LET r == [id |-> Total + 1, shard |-> e[1], session |-> e[2], agent |-> e[3],
               action |-> e[4], ts |-> rclock]
     IN rlog' = [rlog EXCEPT ![e[1]] = Append(@, r)]
  /\ UNCHANGED <<rclock, mem, files, job, since, buffer, blocks, acked, crashes>>

RClock == /\ rclock < MaxClock /\ rclock' = rclock + 1
          /\ UNCHANGED <<rlog, mem, files, job, since, buffer, blocks, acked, crashes>>

ReadBatch(s, offset, limit) ==
  LET newest == Reverse(rlog[s]) IN SubSeq(newest, offset + 1, Min({offset + limit, Len(newest)}))

---------------------------------------------------------------------------
\* RRIndexBuilder.build: clear, page through every shard, sort, write files.
JobIdle == [phase |-> "idle", at |-> 1, offset |-> 0, written |-> 0]
Rebuild ==
  /\ job' = [JobIdle EXCEPT !.phase = "scan"]
  /\ mem' = [n \in Names |-> <<>>]
  /\ since' = [s \in ToSet(RShards) |-> Len(rlog[s])]

BuildStart ==
  /\ job.phase = "idle" /\ Rebuild
  /\ UNCHANGED <<rlog, rclock, files, buffer, blocks, acked, crashes>>

\* A batch that is not full is the shard's last.
Advance(got) ==
  IF Len(got) < BatchSize THEN [job EXCEPT !.at = @ + 1, !.offset = 0]
  ELSE [job EXCEPT !.offset = @ + Len(got)]

Populate(got) ==
  [n \in Names |-> mem[n] \o IF n = "actions" THEN SelectSeq(got, LAMBDA r : r.action # NoAction)
                              ELSE got]

BuildBatch ==
  /\ job.phase = "scan" /\ job.at <= Len(RShards)
  /\ LET got == ReadBatch(RShards[job.at], job.offset, BatchSize)
     IN mem' = Populate(got) /\ job' = Advance(got)
  /\ UNCHANGED <<rlog, rclock, files, since, buffer, blocks, acked, crashes>>

\* Python's sort is stable: entries of one moment keep their order.
StableByTime(q) ==
  LET order == SortSeq([i \in DOMAIN q |-> i],
                 LAMBDA i, j : q[i].ts < q[j].ts \/ (q[i].ts = q[j].ts /\ i < j))
  IN [i \in DOMAIN q |-> q[order[i]]]

BuildSort ==
  /\ job.phase = "scan" /\ job.at > Len(RShards)
  /\ mem' = [n \in Names |-> IF n \in {"timeline", "actions"} THEN StableByTime(mem[n]) ELSE mem[n]]
  /\ job' = [job EXCEPT !.phase = "write"]
  /\ UNCHANGED <<rlog, rclock, files, since, buffer, blocks, acked, crashes>>

\* _write_index_files: each file is replaced in one step, one after another.
WriteFile ==
  /\ job.phase = "write"
  /\ LET n == IndexNames[job.written + 1]
     IN files' = [files EXCEPT ![n] = <<mem[n]>>]
  /\ job' = IF job.written + 1 = Len(IndexNames) THEN JobIdle ELSE [job EXCEPT !.written = @ + 1]
  /\ UNCHANGED <<rlog, rclock, mem, since, buffer, blocks, acked, crashes>>

\* A crash loses memory; ensure_index loads the files when all five exist,
\* however old they are, and builds otherwise; the helper also builds when
\* there are no sessions.
RCrash ==
  /\ crashes < MaxCrashes /\ crashes' = crashes + 1
  /\ mem' = [n \in Names |-> <<>>] /\ job' = [JobIdle EXCEPT !.phase = "down"]
  /\ buffer' = <<>>
  /\ UNCHANGED <<rlog, rclock, files, since, blocks, acked>>

EnsureIndex ==
  /\ job.phase = "down"
  /\ IF (\E n \in Names : files[n] = NoIndex) \/ files["sessions"] = <<NoIndex>>
     THEN Rebuild
     ELSE job' = JobIdle /\ mem' = [n \in Names |-> files[n][1]] /\ UNCHANGED since
  /\ UNCHANGED <<rlog, rclock, files, buffer, blocks, acked, crashes>>

---------------------------------------------------------------------------
\* RRNavigator and RRQueryEngine.  A filter is a value or NoFilter.
NoFilter == "any"
Navigate(session, agent, shard) ==
  (IF session = NoFilter THEN <<>> ELSE <<SelectSeq(mem["sessions"], LAMBDA r : r.session = session)>>)
  \o (IF agent = NoFilter THEN <<>> ELSE <<SelectSeq(mem["agents"], LAMBDA r : r.agent = agent)>>)
  \o (IF shard = NoFilter THEN <<>> ELSE <<SelectSeq(mem["shards"], LAMBDA r : r.shard = shard)>>)

\* _intersect_by_entry_id: a list that came back empty takes no part.
Intersect(lists) ==
  LET full == SelectSeq(lists, LAMBDA q : q # <<>>)
      ids(q) == {q[i].id : i \in DOMAIN q}
  IN IF full = <<>> THEN <<>>
     ELSE SelectSeq(full[1], LAMBDA r : \A k \in DOMAIN full : r.id \in ids(full[k]))

Query(session, agent, shard) ==
  LET lists == Navigate(session, agent, shard)
  IN CASE lists = <<>> -> <<>>
       [] Len(lists) = 1 -> lists[1]
       [] OTHER -> Intersect(lists)

\* build_context: sorted from the newest, cut to the limit.
Context(session, agent, limit) ==
  LET found == Reverse(StableByTime(Query(session, agent, NoFilter)))
      recent == SubSeq(found, 1, Min({limit, Len(found)}))
  IN [events |-> recent, agents |-> {recent[i].agent : i \in DOMAIN recent},
      sessions |-> {recent[i].session : i \in DOMAIN recent}]

NavigateAction(action, limit) ==
  LET b == SelectSeq(mem["actions"], LAMBDA r : r.action = action)
  IN SubSeq(b, 1, Min({limit, Len(b)}))

\* query_actions: the limit is pushed into the bucket unless something filters.
QueryActions(action, session, limit) ==
  LET b == IF session = NoFilter THEN NavigateAction(action, limit)
           ELSE SelectSeq(NavigateAction(action, Len(mem["actions"])), LAMBDA r : r.session = session)
  IN SubSeq(b, 1, Min({limit, Len(b)}))

\* resolve_entries: shard by shard as the records name them, each from its
\* newest entry, so the order of the records is lost.
ResolveEntries(recs) ==
  LET ids == {recs[i].id : i \in DOMAIN recs}
      firsts == SelectSeq([i \in DOMAIN recs |-> i],
                  LAMBDA i : \A j \in 1..(i - 1) : recs[j].shard # recs[i].shard)
  IN FlattenSeq([k \in DOMAIN firsts |->
       SelectSeq(Reverse(rlog[recs[firsts[k]].shard]), LAMBDA r : r.id \in ids)])

---------------------------------------------------------------------------
\* Fault seed: the buffer is emptied whether or not the block was stored.
Flush_ClearsFirst(buf, ok) ==
  /\ blocks' = IF ok THEN Append(blocks, buf) ELSE blocks
  /\ buffer' = <<>>

\* BlockManager.append and _flush_shard: the buffer is emptied only after the
\* block is stored; when storing fails the entry stays and append raises.
Flush(buf, ok) ==
  /\ blocks' = IF ok THEN Append(blocks, buf) ELSE blocks
  /\ buffer' = IF ok THEN <<>> ELSE buf

BlockAppend(ok) ==
  LET e == 1 + Max({0} \cup ToSet(FlattenSeq(blocks)) \cup ToSet(buffer) \cup ToSet(acked))
      buf == Append(buffer, e)
  IN /\ Total + e <= MaxEntries /\ job.phase # "down"
     /\ IF Len(buf) >= BlockSize
        THEN Flush(buf, ok) /\ acked' = IF ok THEN Append(acked, e) ELSE acked
        ELSE /\ ok /\ buffer' = buf /\ acked' = Append(acked, e) /\ UNCHANGED blocks
     /\ UNCHANGED <<rlog, rclock, mem, files, job, since, crashes>>

FlushAll(ok) ==
  /\ buffer # <<>> /\ Len(blocks) < MaxEntries /\ Flush(buffer, ok)
  /\ UNCHANGED <<rlog, rclock, mem, files, job, since, acked, crashes>>

\* BlockManager.read and DSMReadRelay.read_recent: blocks from the newest,
\* each block from its oldest entry, cut to the limit.
Expand(bs) == FlattenSeq(bs)
ReadRecent(limit) == LET all == Expand(Reverse(blocks)) IN SubSeq(all, 1, Min({limit, Len(all)}))
IterEntries == Expand(blocks)

RRInit ==
  /\ rlog = [s \in ToSet(RShards) |-> <<>>] /\ rclock = 1
  /\ mem = [n \in Names |-> <<>>] /\ files = [n \in Names |-> NoIndex]
  /\ job = JobIdle /\ since = [s \in ToSet(RShards) |-> 0]
  /\ buffer = <<>> /\ blocks = <<>> /\ acked = <<>> /\ crashes = 0

RRNext ==
  \/ \E e \in REntries : RAppend(e)
  \/ RClock \/ BuildStart \/ BuildBatch \/ BuildSort \/ WriteFile \/ RCrash \/ EnsureIndex
  \/ \E ok \in BOOLEAN : BlockAppend(ok) \/ FlushAll(ok)

RRSpec == RRInit /\ [][RRNext]_rrVars

---------------------------------------------------------------------------
RRTypeOK ==
  /\ job.phase \in {"idle", "scan", "write", "down"} /\ job.offset \in 0..MaxEntries
  /\ DOMAIN mem = Names /\ DOMAIN files = Names /\ rclock \in 1..MaxClock
  /\ Len(buffer) <= MaxEntries /\ crashes \in 0..MaxCrashes

\* Entries appended while the builder pages from the newest push older ones
\* towards the next page: pages may then overlap, but every entry a shard held
\* when the build began is in all indexes once the shards are read, and the
\* indexes list it in every one of them (rr_index_builder.py, build).
NothingMissed ==
  job.phase \in {"write"} \/ (job.phase = "scan" /\ job.at > Len(RShards)) =>
    \A s \in ToSet(RShards) : \A i \in 1..since[s] : \A n \in Names :
      (n # "actions" \/ rlog[s][i].action # NoAction) =>
        \E k \in DOMAIN mem[n] : mem[n][k].id = rlog[s][i].id

\* What the block layer acknowledged is read back once and in order, except
\* for less than a block's worth of entries per crash (manager.py).
BlocksKeepEntries ==
  LET kept == IterEntries \o buffer
  IN /\ \A i, j \in DOMAIN kept : i < j => kept[i] < kept[j]
     /\ Cardinality({i \in DOMAIN acked : acked[i] \notin ToSet(kept)})
          <= crashes * (BlockSize - 1)

\* "When multiple filters are set, only records matching ALL criteria are
\* returned" (rr_query_engine.py, query).
MatchesAll ==
  job.phase = "idle" =>
    \A e, f \in REntries : \A i \in DOMAIN Query(e[2], f[3], NoFilter) :
      LET r == Query(e[2], f[3], NoFilter)[i] IN r.session = e[2] /\ r.agent = f[3]
====
