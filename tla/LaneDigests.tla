---- MODULE LaneDigests ----
(***************************************************************************)
(* Lanes: one collective shard per agent, a unified read over them and     *)
(* merge records of their tips (src/src/dsm/lanes.py); and, over one of    *)
(* the lanes, the rolling digester and the distiller of                    *)
(* src/src/dsm/collective.py.                                              *)
(*                                                                         *)
(* The process modelled holds one LaneGroup and one digester; other        *)
(* processes write to the same shards.  Every CollectiveShard caches the   *)
(* newest entries it read and drops the cache only when its own process    *)
(* pushes.  An entry is its position in its lane and the time it carries;  *)
(* its hash stands for the position.                                       *)
(***************************************************************************)
EXTENDS Integers, Sequences, FiniteSets, SequencesExt, FiniteSetsExt

CONSTANTS LaneAgents,   \* agents, in the order their lanes are registered
          Window,       \* CollectiveShard.window_size
          Levels,       \* digest levels: [align, delta], see _LEVELS
          DistillMax,   \* max_entries of distill
          EntryCost, DigestCost,  \* _TOKENS_PER_ENTRY, _TOKENS_PER_DIGEST
          TierCost,     \* tier_token_estimate, indexed by tier + 1
          MaxLane, MaxNow, MaxDigests, MaxFailed, MaxMerges

VARIABLES lane,      \* [agent -> times of the entries of its lane]
          mine,      \* [agent -> positions this process pushed]
          lidx,      \* [agent -> length of the lane when it was indexed, or NotBuilt]
          lanes,     \* the lanes registered so far
          merges,    \* records of the merge shard: [agent -> tip]
          digests,   \* records of the digests shard
          distilled, \* positions named in the last distillation record
          roll,      \* the windows the roll() under way has still to digest
          lnow, failed

ldVars == <<lane, mine, lidx, lanes, merges, digests, distilled, roll, lnow, failed>>

NotBuilt == -1
AgentSet == ToSet(LaneAgents)
Main == LaneAgents[1]
ASet(f, n) == {i \in 1..n : i > n - f}
Written == FoldSeq(LAMBDA a, n : n + Len(lane[a]), 0, LaneAgents)

---------------------------------------------------------------------------
\* CollectiveShard: the positions in the index, and what push leaves of it.
Length(a) == IF lidx[a] = NotBuilt THEN Len(lane[a]) ELSE lidx[a]
Index(a) == ASet(Window, Length(a))
Built(A) == [a \in AgentSet |-> IF a \in A THEN Length(a) ELSE lidx[a]]

\* Fault seed: a push keeps the index it was made with.
Invalidated_Kept(a) == lidx
Invalidated(a) == [lidx EXCEPT ![a] = NotBuilt]

RegisterLane(a) ==
  /\ a \notin lanes /\ lanes' = lanes \cup {a}
  /\ UNCHANGED <<lane, mine, lidx, merges, digests, distilled, roll, lnow, failed>>

LanePush(a) ==
  /\ a \in lanes /\ roll = {} /\ Written < MaxLane
  /\ lane' = [lane EXCEPT ![a] = Append(@, lnow)]
  /\ mine' = [mine EXCEPT ![a] = @ \cup {Len(lane[a]) + 1}]
  /\ lidx' = Invalidated(a)
  /\ UNCHANGED <<lanes, merges, digests, distilled, roll, lnow, failed>>

OtherPush(a) ==
  /\ Written < MaxLane /\ lane' = [lane EXCEPT ![a] = Append(@, lnow)]
  /\ UNCHANGED <<mine, lidx, lanes, merges, digests, distilled, roll, lnow, failed>>

LTick == /\ lnow < MaxNow /\ lnow' = lnow + 1
         /\ UNCHANGED <<lane, mine, lidx, lanes, merges, digests, distilled, roll, failed>>

LRestart ==
  /\ failed < MaxFailed /\ failed' = failed + 1
  /\ lidx' = [a \in AgentSet |-> NotBuilt] /\ lanes' = {} /\ roll' = {}
  /\ UNCHANGED <<lane, mine, merges, digests, distilled, lnow>>

---------------------------------------------------------------------------
\* LaneGroup reads: the newest of every lane, sorted by time, newest first.
Newest(a, limit) == [i \in 1..Min({limit, Cardinality(Index(a))}) |->
                       [agent |-> a, pos |-> Length(a) + 1 - i, at |-> lane[a][Length(a) + 1 - i]]]

Registered == SelectSeq(LaneAgents, LAMBDA a : a \in lanes)
StableNewestFirst(q) ==
  LET before(i, j) == q[i].at > q[j].at \/ (q[i].at = q[j].at /\ i < j)
      rank(i) == Cardinality({j \in 1..Len(q) : before(j, i)}) + 1
  IN [k \in 1..Len(q) |-> q[CHOOSE i \in 1..Len(q) : rank(i) = k]]

Recent(limit) ==
  LET all == FlattenSeq([k \in 1..Len(Registered) |-> Newest(Registered[k], limit)])
  IN SubSeq(StableNewestFirst(all), 1, Min({limit, Len(all)}))

\* recent_at_tier: lower the tier until the entries fit, then drop entries.
EffectiveTier(n, tier, budget) ==
  LET ok == {t \in 0..tier : n * TierCost[t + 1] <= budget}
  IN IF ok = {} THEN 0 ELSE Max(ok)

RecentAtTier(limit, tier, budget) ==
  LET q == Recent(limit)
      t == EffectiveTier(Len(q), tier, budget)
      n == IF Len(q) * TierCost[t + 1] > budget
           THEN Min({Len(q), Max({1, budget \div TierCost[1]})}) ELSE Len(q)
  IN [tier |-> t, q |-> SubSeq(q, 1, n)]

\* tips and create_merge; the merge is returned also when it was not stored.
Tips == [a \in lanes |-> Length(a)]
CreateMerge(ok) ==
  /\ Len(merges) < MaxMerges /\ lanes # {} /\ roll = {}
  /\ lidx' = Built(lanes)
  /\ \/ ok /\ merges' = Append(merges, [tips |-> Tips, own |-> mine]) /\ UNCHANGED failed
     \/ ~ok /\ failed < MaxFailed /\ failed' = failed + 1 /\ UNCHANGED merges
  /\ UNCHANGED <<lane, mine, lanes, digests, distilled, roll, lnow>>

---------------------------------------------------------------------------
\* CollectiveMemoryDistiller.distill: a record of the oldest, nothing removed.
Oldest(a) == IF Cardinality(Index(a)) <= DistillMax THEN {}
             ELSE {i \in Index(a) : Cardinality({j \in Index(a) : j > i}) >= DistillMax}

Distill ==
  /\ roll = {} /\ Main \in lanes /\ lidx' = Built({Main})
  /\ distilled' = IF Oldest(Main) = {} THEN distilled ELSE Oldest(Main)
  /\ UNCHANGED <<lane, mine, lanes, merges, digests, roll, lnow, failed>>

---------------------------------------------------------------------------
\* RollingDigester.  A level's windows start at its oldest indexed entry,
\* aligned down; a month's are aligned to months but 30 days long.
At(i) == lane[Main][i]
GridStart(l) == (At(Min(Index(Main))) \div Levels[l].align) * Levels[l].align
Windows(l) == {w \in 0..MaxNow : /\ w >= GridStart(l) /\ (w - GridStart(l)) % Levels[l].delta = 0
                                 /\ w + Levels[l].delta <= lnow}

HasEntries(l, w) == \E i \in Index(Main) : w <= At(i) /\ At(i) < w + Levels[l].delta
ExistingDigestIds == {<<digests[k].level, digests[k].start>> : k \in 1..Len(digests)}
PendingWindows ==
  IF Index(Main) = {} THEN {}
  ELSE UNION {{<<l, w>> : w \in {v \in Windows(l) : <<l, v>> \notin ExistingDigestIds /\ HasEntries(l, v)}}
              : l \in 1..Len(Levels)}

RollBegin ==
  /\ roll = {} /\ Main \in lanes /\ PendingWindows # {}
  /\ Len(digests) + Cardinality(PendingWindows) <= MaxDigests
  /\ lidx' = Built({Main})
  /\ roll' = PendingWindows
  /\ UNCHANGED <<lane, mine, lanes, merges, digests, distilled, lnow, failed>>

\* digest_window counts the entries at its end too.
DigestWindow(l, w) == [level |-> l, start |-> w,
                       counted |-> {i \in Index(Main) : w <= At(i) /\ At(i) <= w + Levels[l].delta}]

\* The windows are digested level by level, from the earliest.
Precedes(v, w) == v[1] < w[1] \/ (v[1] = w[1] /\ v[2] < w[2])

RollWindow(ok) ==
  /\ \E v \in roll :
       /\ \A w \in roll \ {v} : Precedes(v, w)
       /\ roll' = roll \ {v}
       /\ \/ ok /\ digests' = Append(digests, DigestWindow(v[1], v[2])) /\ UNCHANGED failed
          \/ ~ok /\ failed < MaxFailed /\ failed' = failed + 1 /\ UNCHANGED digests
  /\ UNCHANGED <<lane, mine, lidx, lanes, merges, distilled, lnow>>

\* read_with_digests: entries newest first while they fit, then digests,
\* oldest first, until nothing is left; the monthly ones are paid for only.
ReadWithDigests(since, budget) ==
  LET recent == Cardinality({i \in Index(Main) : At(i) >= since})
      entries == Min({recent, budget \div EntryCost})
      left == budget - entries * EntryCost
      paid == Min({Len(digests), (left + DigestCost - 1) \div DigestCost})
  IN [entries |-> entries,
      digests |-> SelectSeq(SubSeq(digests, 1, paid), LAMBDA d : d.level < 4),
      total |-> entries * EntryCost + paid * DigestCost]

---------------------------------------------------------------------------
LdInit == /\ lane = [a \in AgentSet |-> <<>>] /\ mine = [a \in AgentSet |-> {}]
          /\ lidx = [a \in AgentSet |-> NotBuilt] /\ lanes = {}
          /\ merges = <<>> /\ digests = <<>> /\ distilled = {} /\ roll = {}
          /\ lnow = 0 /\ failed = 0

LdNext == \/ \E a \in AgentSet : RegisterLane(a) \/ LanePush(a) \/ OtherPush(a)
          \/ LTick \/ LRestart \/ Distill \/ RollBegin
          \/ \E ok \in BOOLEAN : CreateMerge(ok) \/ RollWindow(ok)

LdSpec == LdInit /\ [][LdNext]_ldVars

---------------------------------------------------------------------------
\* lanes.py, collective.py: caches never run ahead of their shard, and the
\* records name positions that exist.
LdTypeOK ==
  /\ \A a \in AgentSet : lidx[a] \in NotBuilt..Len(lane[a]) /\ mine[a] \subseteq 1..Len(lane[a])
  /\ \A k \in 1..Len(digests) : digests[k].counted \subseteq 1..Len(lane[Main])
  /\ distilled \subseteq 1..Len(lane[Main])
  /\ lanes \subseteq AgentSet /\ failed \in 0..MaxFailed

\* lanes.py:318-384 over the cache of collective.py:172-204: a merge record
\* covers every entry its process had pushed.
MergesCoverOwnWork ==
  \A k \in 1..Len(merges) : \A a \in DOMAIN merges[k].tips :
    \A i \in merges[k].own[a] : i <= merges[k].tips[a]

\* lanes.py, LaneGroup.recent: the unified read is the newest entries of all
\* the indexes together, whichever lanes they are in.
UnifiedReadNewest ==
  \A limit \in 1..MaxLane :
    LET q == Recent(limit)
        all == UNION {{<<a, i>> : i \in Index(a)} : a \in lanes}
    IN /\ Len(q) = Min({limit, Cardinality(all)})
       /\ \A p \in all : (\A k \in 1..Len(q) : <<q[k].agent, q[k].pos>> # p)
                           => q # <<>> /\ lane[p[1]][p[2]] <= q[Len(q)].at

\* collective.py:643-730: when no roll is due, every entry this process has
\* pushed and indexed is counted by a digest of each level whose window it
\* falls in is over; what others wrote, or a failed write, may be missing.
OwnWorkDigested ==
  roll = {} /\ lidx[Main] # NotBuilt /\ PendingWindows = {} =>
    \A i \in mine[Main] \cap Index(Main), l \in 1..Len(Levels) :
      (\E w \in Windows(l) : w <= At(i) /\ At(i) < w + Levels[l].delta)
        => \E k \in 1..Len(digests) : digests[k].level = l /\ i \in digests[k].counted

\* collective.py:740: the selection fits within max_tokens.
FitsBudget ==
  \A budget \in 1..2 * EntryCost : ReadWithDigests(0, budget).total <= budget
====
