---------------------------- MODULE RecallContext ----------------------------
(***************************************************************************)
(* The consumption layer: search_memory (recall/search.py) reads the       *)
(* shards one after the other, ranks and dates what matches; with          *)
(* verify=True the provenance builder (provenance/builder.py) then checks  *)
(* the source shards, one after the other, and promotes decisions to       *)
(* verified claims; build_context (context/builder.py) sorts a recall      *)
(* result into sections and trims them to a token budget.  Agents go on    *)
(* writing, and files may be damaged, between any two of these steps.      *)
(*                                                                         *)
(* Time is counted in half-lives of the recency boost (14 days): an entry  *)
(* of the same unit is younger than 24 hours, three units are older than   *)
(* the 30 days after which an entry is outdated.  All texts have the same  *)
(* length, so a score is the number of query words matched, halved once    *)
(* per unit of age (scaled to an integer).                                 *)
(***************************************************************************)
EXTENDS Integers, FiniteSets, SequencesExt

CONSTANTS Shards,       \* shard ids, as a sequence in list_shards' order
          RSessions,    \* session ids
          Query,        \* the words of the query
          Types,        \* types of the entries that are searched: a subset of
                        \* {"historical_decision", "working_assumption", "outdated_possibility"}
          MaxResults,   \* max_results
          Caps,         \* hard caps: 95% of max_tokens
          BaseTokens,   \* cost of the empty pack: section headings, provenance
          ItemTokens,   \* cost of one item with its line of provenance
          MaxEntries,   \* bound on entries written
          Times         \* the moments of the clock, all positive

VARIABLES log,      \* shard -> entries
          damaged,  \* shards whose file was altered
          now,      \* the clock
          job,      \* the search under way
          result    \* what the last call returned, cleared by the next one

rcVars == <<log, damaged, now, job, result>>

ShardSet == {Shards[i] : i \in 1..Len(Shards)}
FirstTime == CHOOSE t \in Times : \A u \in Times : t <= u
LastTime  == CHOOSE t \in Times : \A u \in Times : u <= t

NoJob    == [pc |-> "idle", verify |-> FALSE, current |-> "none", withCurrent |-> FALSE, cap |-> 0,
             at |-> 0, todo |-> <<>>, past |-> <<>>, cur |-> <<>>, ok |-> {}]

NoProv   == [integrity |-> "not_verified", trust |-> "partial", shards |-> <<>>, broken |-> 0,
             records |-> 0]

NoResult == [kind |-> "none", items |-> <<>>, claims |-> <<>>, prov |-> NoProv,
             sections |-> <<>>, cap |-> 0, tokens |-> 0, trimmed |-> FALSE]

RcTypeOK ==
  /\ DOMAIN log = ShardSet
  /\ damaged \subseteq ShardSet
  /\ now \in Times
  /\ job.pc \in {"idle", "read", "verify"}
  /\ job.ok \subseteq ShardSet
  /\ result.kind \in {"none", "recall", "context"}

RcInit ==
  /\ log = [s \in ShardSet |-> <<>>]
  /\ damaged = {}
  /\ now = FirstTime
  /\ job = NoJob
  /\ result = NoResult

(***************************************************************************)
(* The surroundings: agents, the clock, damage to a file.                  *)
(***************************************************************************)

Written == UNION {{<<s, i>> : i \in 1..Len(log[s])} : s \in ShardSet}

LogEntry(s, ses, t, words) ==
  /\ Cardinality(Written) < MaxEntries
  /\ log' = [log EXCEPT ![s] = Append(@, [hash |-> <<s, Len(@) + 1>>, session |-> ses, type |-> t,
                                          words |-> words, ts |-> now])]
  /\ UNCHANGED <<damaged, now, job, result>>

PassTime ==
  /\ \E t \in Times : t > now /\ now' = t
  /\ UNCHANGED <<log, damaged, job, result>>

DamageShard(s) ==
  /\ log[s] # <<>>
  /\ damaged' = damaged \cup {s}
  /\ UNCHANGED <<log, now, job, result>>

(***************************************************************************)
(* search_memory.                                                          *)
(***************************************************************************)

\* search_memory with verify=True, or the search that build_context makes.
SearchBegin(verify, current, withCurrent, cap) ==
  /\ job.pc = "idle"
  /\ result' = NoResult
  /\ job' = [NoJob EXCEPT !.pc = "read", !.verify = verify, !.current = current,
                          !.withCurrent = withCurrent, !.cap = cap, !.at = now, !.todo = Shards]
  /\ UNCHANGED <<log, damaged, now>>

\* _score_match times _recency_boost: an entry newer than the search's own
\* clock gets the full score.
Score(e, at) == Cardinality(e.words) * 2 ^ (LastTime - (IF e.ts > at THEN 0 ELSE at - e.ts))

\* _build_match_from_entry; bad is history: the file was damaged when read.
Match(e, s) ==
  [hash |-> e.hash, shard |-> s, session |-> e.session, type |-> e.type, words |-> e.words,
   ts |-> e.ts, score |-> Score(e, job.at), status |-> "still_relevant", bad |-> s \in damaged]

MatchesIn(s) ==
  LET hits == SelectSeq(Reverse(log[s]), LAMBDA e : e.type # "none" /\ e.words # {})
  IN [i \in 1..Len(hits) |-> Match(hits[i], s)]

\* _iter_entries, one shard: newest entries first.
ReadShard ==
  /\ job.pc = "read"
  /\ job.todo # <<>>
  /\ LET found == MatchesIn(Head(job.todo))
         IsCur(m) == m.session = job.current
     IN job' = [job EXCEPT !.todo = Tail(@),
                           !.cur  = @ \o SelectSeq(found, IsCur),
                           !.past = @ \o SelectSeq(found, LAMBDA m : ~IsCur(m))]
  /\ UNCHANGED <<log, damaged, now, result>>

\* sort(key=relevance_score, reverse=True), which keeps the order of equals,
\* and the cut at max_results.
Ranked(ms) ==
  LET order == SetToSortSeq(1..Len(ms), LAMBDA i, j : ms[i].score > ms[j].score
                                                       \/ (ms[i].score = ms[j].score /\ i < j))
  IN [k \in 1..(IF Len(ms) < MaxResults THEN Len(ms) ELSE MaxResults) |-> ms[order[k]]]

Covers(o, m) == o.ts > m.ts /\ m.words \subseteq o.words

\* _apply_temporal_status: judged among the matches that survived the cut.
Dated(ms, at) ==
  [i \in 1..Len(ms) |->
     [ms[i] EXCEPT !.status =
        IF /\ ms[i].type \in {"historical_decision", "working_assumption"}
           /\ \E j \in 1..Len(ms) : j # i /\ Covers(ms[j], ms[i])
        THEN "superseded"
        ELSE IF ms[i].ts > 0 /\ at - ms[i].ts > 2 THEN "outdated" ELSE "still_relevant"]]

\* What search_memory has before it looks at provenance: no claims yet.
Recalled ==
  LET past == Ranked(job.past)
      cur  == IF job.withCurrent THEN Ranked(job.cur) ELSE <<>>
      all  == Dated(past \o cur, job.at)
  IN [past |-> SubSeq(all, 1, Len(past)), cur |-> SubSeq(all, Len(past) + 1, Len(all)),
      claims |-> <<>>]

SourceShards(items) == SelectSeq(Shards, LAMBDA s : \E i \in 1..Len(items) : items[i].shard = s)

\* The ranking, and the list of shards that build_provenance has to verify.
RankForProvenance ==
  /\ job.pc = "read" /\ job.todo = <<>> /\ job.verify
  /\ job' = [job EXCEPT !.pc = "verify", !.past = Recalled.past, !.cur = Recalled.cur,
                        !.todo = SourceShards(Recalled.past \o Recalled.cur)]
  /\ UNCHANGED <<log, damaged, now, result>>

(***************************************************************************)
(* build_provenance and promote_to_verified_claims.                        *)
(***************************************************************************)

\* verify_shard on one source shard.
VerifyShard ==
  /\ job.pc = "verify"
  /\ job.todo # <<>>
  /\ job' = [job EXCEPT !.todo = Tail(@),
                        !.ok = IF Head(job.todo) \in damaged THEN @ ELSE @ \cup {Head(job.todo)}]
  /\ UNCHANGED <<log, damaged, now, result>>

Promotable(m, ok) ==
  m.shard \in ok /\ m.type = "historical_decision" /\ m.status = "still_relevant"

\* build_provenance, once the shards in ok have passed their verification.
BuildProvenance(items, verify, ok) ==
  LET shards == SourceShards(items)
      broken == IF verify THEN Len(shards) - Cardinality(ok) ELSE 0
  IN IF items = <<>> THEN NoProv
     ELSE [integrity |-> IF ~verify THEN "not_verified" ELSE IF broken = 0 THEN "OK" ELSE "broken",
           trust     |-> IF ~verify THEN "partial"
                         ELSE IF broken = 0 THEN "verified"
                         ELSE IF broken < Len(shards) THEN "partial" ELSE "unverified",
           shards    |-> shards,
           broken    |-> broken,
           records   |-> Len(items)]

\* The recall pack with its provenance block and the claims it promotes.
FinishRecall ==
  /\ job.pc = "verify"
  /\ job.todo = <<>>
  /\ LET items == job.past \o job.cur
     IN result' = [NoResult EXCEPT !.kind = "recall", !.items = items,
                                   !.prov = BuildProvenance(items, TRUE, job.ok),
                                   !.claims = SelectSeq(items, LAMBDA m : Promotable(m, job.ok))]
  /\ job' = NoJob
  /\ UNCHANGED <<log, damaged, now>>

(***************************************************************************)
(* build_context.                                                          *)
(***************************************************************************)

SectionOrder == <<"verified_facts", "working_state", "recent_relevant_events",
                  "past_session_recall", "uncertain_or_superseded">>

\* Fault seed: the temporal status plays no part in the choice of the section.
Bucket_ByAge(r, at) ==
  LET Recent(m) == m.ts > 0 /\ at - m.ts <= 0
  IN [verified_facts          |-> r.claims,
      working_state           |-> r.cur,
      recent_relevant_events  |-> SelectSeq(r.past, Recent),
      past_session_recall     |-> SelectSeq(r.past, LAMBDA m : ~Recent(m)),
      uncertain_or_superseded |-> <<>>]

\* _bucket_matches: the verified facts are the verified claims of the recall
\* result.
Bucket(r, at) ==
  LET Unreliable(m) == m.status \in {"superseded", "outdated"}
      Recent(m)     == m.ts > 0 /\ at - m.ts <= 0
  IN [verified_facts          |-> r.claims,
      working_state           |-> SelectSeq(r.cur, LAMBDA m : ~Unreliable(m)),
      recent_relevant_events  |-> SelectSeq(r.past, LAMBDA m : ~Unreliable(m) /\ Recent(m)),
      past_session_recall     |-> SelectSeq(r.past, LAMBDA m : ~Unreliable(m) /\ ~Recent(m)),
      uncertain_or_superseded |-> SelectSeq(r.cur, Unreliable) \o SelectSeq(r.past, Unreliable)]

\* _all_items.
Flat(b) == FoldLeft(LAMBDA acc, name : acc \o b[name], <<>>, SectionOrder)

ItemCount(b) == Len(Flat(b))

\* _count_tokens with the provenance rebuilt for what is left.
CountTokens(b) == BaseTokens + ItemTokens * ItemCount(b)

\* _TRIM_PRIORITY, highest number first.
DropOrder == Reverse(SectionOrder)

\* The inner loop of _trim_to_budget: pop the last items of one section while
\* the pack is over the cap.
TrimSection(b, name, cap) ==
  LET fits == {k \in 0..Len(b[name]) : CountTokens(b) - ItemTokens * k <= cap}
      pops == IF fits = {} THEN Len(b[name]) ELSE CHOOSE k \in fits : \A j \in fits : k <= j
  IN [b EXCEPT ![name] = SubSeq(@, 1, Len(@) - pops)]

TrimToBudget(b, cap) == FoldLeft(LAMBDA acc, name : TrimSection(acc, name, cap), b, DropOrder)

\* build_context: the recall, the sections, the trim, in one call.
BuildContext ==
  /\ job.pc = "read" /\ job.todo = <<>> /\ ~job.verify
  /\ LET full == Bucket(Recalled, job.at)
         kept == TrimToBudget(full, job.cap)
     IN result' = [NoResult EXCEPT !.kind = "context", !.items = Recalled.past \o Recalled.cur,
                                   !.prov = BuildProvenance(Flat(kept), FALSE, {}),
                                   !.sections = kept, !.cap = job.cap, !.tokens = CountTokens(kept),
                                   !.trimmed = ItemCount(kept) < ItemCount(full)]
  /\ job' = NoJob
  /\ UNCHANGED <<log, damaged, now>>

RcNext ==
  \/ \E s \in ShardSet, ses \in RSessions, t \in Types, w \in SUBSET Query \ {{}} : LogEntry(s, ses, t, w)
  \/ \E s \in ShardSet, ses \in RSessions : LogEntry(s, ses, "none", {})
  \/ PassTime
  \/ \E s \in ShardSet : DamageShard(s)
  \/ \E c \in RSessions \cup {"none"}, wc \in BOOLEAN :
        SearchBegin(TRUE, c, wc, 0) \/ \E cap \in Caps : SearchBegin(FALSE, c, wc, cap)
  \/ ReadShard
  \/ RankForProvenance
  \/ VerifyShard
  \/ FinishRecall
  \/ BuildContext

RcSpec == RcInit /\ [][RcNext]_rcVars

(***************************************************************************)
(* Properties.                                                             *)
(***************************************************************************)

\* The trust level "verified" can be relied on: every item returned was read
\* from an intact file; and the block names the source of every item
\* (build_provenance, also when rebuilt for what the trim left).
ProvenanceHonest ==
  /\ result.prov.trust = "verified" => \A i \in 1..Len(result.items) : ~result.items[i].bad
  /\ result.kind = "context" =>
       /\ result.prov.trust # "verified"
       /\ result.prov.records = ItemCount(result.sections)
       /\ \A i \in 1..result.prov.records :
            \E j \in 1..Len(result.prov.shards) : result.prov.shards[j] = Flat(result.sections)[i].shard

\* A verified claim can be relied on, however writes and damage fell between
\* the reads and the verifications: it was read from an intact file, it is a
\* decision, and nothing newer that was returned covers its words
\* (provenance/builder.py, the promotion rule).
ClaimsSound ==
  \A i \in 1..Len(result.claims) :
    LET c == result.claims[i]
    IN /\ ~c.bad
       /\ c.type = "historical_decision"
       /\ \A j \in 1..Len(result.items) : ~Covers(result.items[j], c)

SectionsOf(m) == {n \in {SectionOrder[i] : i \in 1..Len(SectionOrder)} :
                    \E i \in 1..Len(result.sections[n]) : result.sections[n][i].hash = m.hash}

\* A context pack fits its budget unless not even the empty pack does; a
\* section loses items only once every section of lower priority is empty;
\* what is kept is kept in one section, and what was superseded stays out of
\* the sections an agent works from (context/builder.py, _trim_to_budget).
ContextTrimmedInOrder ==
  result.kind = "context" =>
    /\ result.tokens <= result.cap \/ ItemCount(result.sections) = 0
    /\ result.trimmed => result.tokens + ItemTokens > result.cap
    /\ \A i \in 1..Len(result.items) :
         LET m == result.items[i]
         IN /\ Cardinality(SectionsOf(m)) <= 1
            /\ SectionsOf(m) \cap {"working_state", "recent_relevant_events"} # {} =>
                 ~ \E j \in 1..Len(result.items) :
                      m.type # "outdated_possibility" /\ Covers(result.items[j], m)
            /\ (SectionsOf(m) = {} /\ m.status = "still_relevant") =>
                 result.sections["uncertain_or_superseded"] = <<>>

\* docs/CONSUMPTION_LAYER.md lists verified_facts first among the sections of
\* a context pack.  With intact shards and room for everything, a decision
\* that still stands should be found there.
FactsReachContext ==
  (result.kind = "context" /\ ~result.trimmed) =>
    \A i \in 1..Len(result.items) :
      (~result.items[i].bad /\ result.items[i].type = "historical_decision"
         /\ result.items[i].status = "still_relevant")
      => "verified_facts" \in SectionsOf(result.items[i])

=============================================================================
