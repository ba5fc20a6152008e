---------------------------- MODULE Collective ----------------------------
(* The collective memory of several agents: SovereigntyPolicy, NeutralOrchestrator,     *)
(* CollectiveShard and ShardSyncEngine.                                                 *)
(*                                                                                      *)
(* Every agent is a process with one object of each class over the same data directory. *)
(* The objects cache what they read: the policy index, the decisions, the index of the  *)
(* collective shard.  A cache is dropped by the writes of its own process only, so      *)
(* every step below acts on what some earlier moment looked like.                       *)
(*                                                                                      *)
(* The hash of a contribution is its position in the shard.  One owner, one entry type  *)
(* and the default rules are modelled; "deny" stands for a pending verdict too, which   *)
(* push rejects and the cache keeps just the same.  Content, summaries and tiers are    *)
(* left out, and so are the audit shard of the orchestrator, which nobody reads, and    *)
(* the digests.  push is modelled one entry at a time: a call with several is a run of  *)
(* calls, as nothing is carried from one entry to the next but the lists it returns.    *)
EXTENDS Integers, Sequences, FiniteSets, FiniteSetsExt

CONSTANTS
    Agents,       \* agent processes
    WindowSize,   \* CollectiveShard.window_size
    PullLimit,    \* the limit of a pull without a cursor
    RateLimit,    \* RateLimitRule.max_per_window
    Entries,      \* private entries an agent may push
    MaxCalls,     \* bound: calls of the agents' methods
    MaxFails,     \* bound: OSErrors raised by Storage.append
    MaxRestarts   \* bound: processes that die and start again

ASSUME CollectiveAssumption ==
    /\ WindowSize \in Nat \ {0} /\ PullLimit \in Nat \ {0} /\ RateLimit \in Nat
    /\ MaxCalls \in Nat
    /\ MaxFails \in Nat /\ MaxRestarts \in Nat

VARIABLES
    shard,      \* the collective shard
    policies,   \* the sovereignty_policies shard: who may contribute; revoked is nobody
    synclog,    \* the records of the sync_log shard
    policyIdx,  \* SovereigntyPolicy._index: how many policy changes it has read
    decided,    \* NeutralOrchestrator._cache
    idx,        \* CollectiveShard._index: how many contributions existed when it was read
    cursor,     \* last_hash of the agent's last pull
    job,        \* the call in progress
    acked,      \* ghost: contributions whose push reported them as admitted
    seen,       \* ghost: contributions an agent has pulled since it started
    own,        \* ghost: number of the last policy change the process made itself
    calls, fails, restarts

files  == <<shard, policies, synclog>>
caches == <<policyIdx, decided, idx>>
vars   == <<files, caches, cursor, job, acked, seen, own, calls, fails, restarts>>

NoHash == 0
NotBuilt == -1
Idle == [kind |-> "idle"]

Contribution == [agent : Agents, source : Entries, prev : Nat]

Init ==
    /\ shard = <<>> /\ policies \in {<<>>, <<Agents>>} /\ synclog = {}
    /\ policyIdx = [a \in Agents |-> NotBuilt]
    /\ decided = [a \in Agents |-> [e \in Entries |-> "none"]]
    /\ idx = [a \in Agents |-> NotBuilt]
    /\ cursor = [a \in Agents |-> NoHash]
    /\ job = [a \in Agents |-> Idle]
    /\ acked = {} /\ seen = [a \in Agents |-> {}] /\ own = [a \in Agents |-> 0]
    /\ calls = 0 /\ fails = 0 /\ restarts = 0

\* An agent's methods are called one after the other.
Call(a) == job[a] = Idle /\ calls < MaxCalls /\ calls' = calls + 1

----------------------------------------------------------------------------
(* Storage.append as its callers see it *)

\* It returns ("ok"), or raises OSError with the line on disk ("kept") or not ("lost").
Outcomes == {"ok", "kept", "lost"}

Counted(outcome) ==
    \/ outcome = "ok" /\ fails' = fails
    \/ outcome # "ok" /\ fails < MaxFails /\ fails' = fails + 1

Stored(s, x, outcome) == IF outcome = "lost" THEN s ELSE Append(s, x)

----------------------------------------------------------------------------
(* SovereigntyPolicy *)

\* Fault seed: the process that changes a policy goes on with its index.
ChangePolicy_KeepsIndex(a, agents, outcome) ==
    /\ Call(a)
    /\ policies' = Stored(policies, agents, outcome)
    /\ own' = [own EXCEPT ![a] = IF outcome = "ok" THEN Len(policies') ELSE @]
    /\ Counted(outcome)
    /\ UNCHANGED <<shard, synclog, policyIdx, decided, idx, cursor, job, acked,
                   seen, restarts>>

\* set, and revoke for the empty set of agents: append and drop the own index.
ChangePolicy(a, agents, outcome) ==
    /\ Call(a)
    /\ policies' = Stored(policies, agents, outcome)
    /\ policyIdx' = [policyIdx EXCEPT ![a] = IF outcome = "ok" THEN NotBuilt ELSE @]
    /\ own' = [own EXCEPT ![a] = IF outcome = "ok" THEN Len(policies') ELSE @]
    /\ Counted(outcome)
    /\ UNCHANGED <<shard, synclog, decided, idx, cursor, job, acked, seen,
                   restarts>>

\* allows: what the first v policy changes say about agent a.
Permits(v, a) == v > 0 /\ a \in policies[v]

PolicyRead(a) == IF policyIdx[a] = NotBuilt THEN Len(policies) ELSE policyIdx[a]

----------------------------------------------------------------------------
(* NeutralOrchestrator *)

\* _admission_counts: every allow is counted and cached once.
Admissions(a) == Cardinality({e \in Entries : decided[a][e] = "allow"})

\* Fault seed: the rate limit is reached one admission late.
Rules_RateOneLate(a, trusted) ==
    Permits(PolicyRead(a), a) /\ trusted /\ Admissions(a) <= RateLimit

\* RuleSet.default, for an entry that does not name itself as predecessor.
Rules(a, trusted) == Permits(PolicyRead(a), a) /\ trusted /\ Admissions(a) < RateLimit

\* push, first part: the decision, from the cache if there is one.
PushAdmit(a, e, trusted) ==
    /\ Call(a)
    /\ LET fresh   == decided[a][e] = "none"
           verdict == IF ~fresh THEN decided[a][e]
                      ELSE IF Rules(a, trusted) THEN "allow" ELSE "deny"
       IN  /\ decided' = [decided EXCEPT ![a][e] = verdict]
           /\ policyIdx' = [policyIdx EXCEPT ![a] = IF fresh THEN PolicyRead(a) ELSE @]
           /\ job' = [job EXCEPT ![a] = IF verdict = "allow"
                                        THEN [kind |-> "project", source |-> e] ELSE Idle]
    /\ UNCHANGED <<files, idx, cursor, acked, seen, own, fails, restarts>>

----------------------------------------------------------------------------
(* CollectiveShard and ShardSyncEngine *)

\* _ensure_index: how far the index reaches, read now if it is not built.
EnsureIndex(a) == IF idx[a] = NotBuilt THEN Len(shard) ELSE idx[a]

\* The contributions in an index that was read when there were n of them.
Indexed(n) == {i \in 1 .. n : i > n - WindowSize}

\* last_hash_for_agent
LastHashForAgent(a) ==
    LET mine == {i \in Indexed(EnsureIndex(a)) : shard[i].agent = a}
    IN  IF mine = {} THEN NoHash ELSE Max(mine)

\* push: the projection names the agent's last contribution.
PushProject(a) ==
    /\ job[a].kind = "project"
    /\ job' = [job EXCEPT ![a] = [kind |-> "append", source |-> job[a].source,
                                  prev |-> LastHashForAgent(a)]]
    /\ idx' = [idx EXCEPT ![a] = EnsureIndex(a)]
    /\ UNCHANGED <<calls, files, policyIdx, decided, cursor, acked, seen, own, fails, restarts>>

\* Fault seed: the index survives the process's own push.
PushAppend_KeepsIndex(a, outcome) ==
    /\ job[a].kind = "append"
    /\ shard' = Stored(shard, [agent |-> a, source |-> job[a].source, prev |-> job[a].prev],
                      outcome)
    /\ acked' = IF outcome = "ok" THEN acked \cup {Len(shard')} ELSE acked
    /\ Counted(outcome)
    /\ job' = [job EXCEPT ![a] = Idle]
    /\ UNCHANGED <<calls, policies, synclog, policyIdx, decided, idx, cursor, seen, own,
                   restarts>>

\* Fault seed: a failed append is reported as admitted.
PushAppend_AcksFailed(a, outcome) ==
    /\ job[a].kind = "append"
    /\ shard' = Stored(shard, [agent |-> a, source |-> job[a].source, prev |-> job[a].prev],
                      outcome)
    /\ idx' = [idx EXCEPT ![a] = NotBuilt]
    /\ acked' = acked \cup {Len(shard')}
    /\ Counted(outcome)
    /\ job' = [job EXCEPT ![a] = Idle]
    /\ UNCHANGED <<calls, policies, synclog, policyIdx, decided, cursor, seen, own, restarts>>

\* push: the projection is appended; only a successful append drops the index.
PushAppend(a, outcome) ==
    /\ job[a].kind = "append"
    /\ shard' = Stored(shard, [agent |-> a, source |-> job[a].source, prev |-> job[a].prev],
                      outcome)
    /\ idx' = [idx EXCEPT ![a] = IF outcome = "ok" THEN NotBuilt ELSE @]
    /\ acked' = IF outcome = "ok" THEN acked \cup {Len(shard')} ELSE acked
    /\ Counted(outcome)
    /\ job' = [job EXCEPT ![a] = Idle]
    /\ UNCHANGED <<calls, policies, synclog, policyIdx, decided, cursor, seen, own,
                   restarts>>

\* recent(limit)
Recent(n) == {i \in Indexed(n) : i > n - PullLimit}

\* Fault seed: the limit of a first pull applies to every pull.
Since_Limited(n, hash) == IF hash \in Indexed(n) THEN {i \in Recent(n) : i > hash} ELSE {}

\* since(hash): what follows it in the index, nothing when it is not there.
Since(n, hash) == IF hash \in Indexed(n) THEN {i \in Indexed(n) : i > hash} ELSE {}

\* Without a cursor the entries come newest first, and the last of them is the oldest.
PullResult(n, since) ==
    LET new == IF since = NoHash THEN Recent(n) ELSE Since(n, since)
    IN  [entries |-> new,
         last |-> IF new = {} THEN since ELSE IF since = NoHash THEN Min(new) ELSE Max(new)]

\* A pull that got something is recorded in sync_log; a failure to do so is ignored.
LogPull(a, since, result, outcome) ==
    /\ synclog' = IF result.entries = {} \/ outcome = "lost" THEN synclog
                  ELSE synclog \cup {[agent |-> a, synced |-> Cardinality(result.entries),
                                      since |-> since, last |-> result.last]}
    /\ IF result.entries = {} THEN outcome = "ok" /\ fails' = fails ELSE Counted(outcome)

\* pull(since_hash = the last hash the agent was given)
Pull(a, outcome) ==
    LET n == EnsureIndex(a)
        result == PullResult(n, cursor[a])
    IN  /\ Call(a)
        /\ idx' = [idx EXCEPT ![a] = n]
        /\ LogPull(a, cursor[a], result, outcome)
        /\ cursor' = [cursor EXCEPT ![a] = result.last]
        /\ seen' = [seen EXCEPT ![a] = @ \cup result.entries]
        /\ UNCHANGED <<shard, policies, policyIdx, decided, job, acked, own,
                       restarts>>

\* The hook of end_session: reconcile without entries and without a cursor.
SessionEndSync(a, outcome) ==
    LET n == EnsureIndex(a)
    IN  /\ Call(a)
        /\ idx' = [idx EXCEPT ![a] = n]
        /\ LogPull(a, NoHash, PullResult(n, NoHash), outcome)
        /\ UNCHANGED <<shard, policies, policyIdx, decided, cursor, job, acked,
                       seen, own, restarts>>

----------------------------------------------------------------------------
\* A process dies at any point and starts again with empty caches and no cursor.
Restart(a) ==
    /\ restarts < MaxRestarts
    /\ restarts' = restarts + 1
    /\ policyIdx' = [policyIdx EXCEPT ![a] = NotBuilt]
    /\ decided' = [decided EXCEPT ![a] = [e \in Entries |-> "none"]]
    /\ idx' = [idx EXCEPT ![a] = NotBuilt]
    /\ cursor' = [cursor EXCEPT ![a] = NoHash]
    /\ job' = [job EXCEPT ![a] = Idle]
    /\ seen' = [seen EXCEPT ![a] = {}]
    /\ UNCHANGED <<calls, files, acked, own, fails>>

Next ==
    \E a \in Agents :
      \/ \E agents \in SUBSET Agents, outcome \in Outcomes : ChangePolicy(a, agents, outcome)
      \/ \E e \in Entries, trusted \in BOOLEAN : PushAdmit(a, e, trusted)
      \/ PushProject(a)
      \/ \E outcome \in Outcomes : PushAppend(a, outcome)
      \/ \E outcome \in Outcomes : Pull(a, outcome)
      \/ \E outcome \in Outcomes : SessionEndSync(a, outcome)
      \/ Restart(a)

Spec == Init /\ [][Next]_vars

----------------------------------------------------------------------------
(* Properties *)

Jobs ==
    {Idle}
    \cup [kind : {"project"}, source : Entries]
    \cup [kind : {"append"}, source : Entries, prev : 0 .. MaxCalls]

\* Type correctness of the shards, the caches and the calls in progress; no cache is ahead
\* of the shard it was read from.
TypeOK ==
    /\ shard \in Seq(Contribution) /\ policies \in Seq(SUBSET Agents)
    /\ policyIdx \in [Agents -> NotBuilt .. Len(policies)]
    /\ decided \in [Agents -> [Entries -> {"none", "allow", "deny"}]]
    /\ idx \in [Agents -> NotBuilt .. Len(shard)]
    /\ cursor \in [Agents -> 0 .. Len(shard)]
    /\ job \in [Agents -> Jobs]
    /\ acked \subseteq DOMAIN shard
    /\ calls \in 0 .. MaxCalls /\ fails \in 0 .. MaxFails /\ restarts \in 0 .. MaxRestarts

\* agent_prev_hash: an agent's contributions form a chain.  None names an entry of another
\* agent, none passes over an admitted one, and one without a predecessor is the agent's
\* first within the index window, whatever other agents appended in between.
AgentChain ==
    \A j \in DOMAIN shard :
        LET prev == shard[j].prev
            mine == {i \in 1 .. j - 1 : shard[i].agent = shard[j].agent}
        IN  /\ prev = NoHash \/ prev \in mine
            /\ \A i \in mine \cap acked : i <= prev \/ (prev = NoHash /\ i <= j - 1 - WindowSize)

\* A reader that keeps its cursor misses nothing: from the first entry it was given to its
\* cursor it has pulled them all, and sync_log counts exactly the entries between the two
\* hashes of a record.
NothingSkipped ==
    /\ \A a \in Agents : \A i \in DOMAIN shard, j \in seen[a] :
         j <= i /\ i <= cursor[a] => i \in seen[a]
    /\ \A r \in synclog : r.since # NoHash => r.synced = r.last - r.since

\* A new decision follows a policy at least as recent as the last change the process made
\* itself: after its own revocation it admits nothing until the policy is set again.
ReadsOwnPolicy ==
    [][ \A a \in Agents, e \in Entries :
          decided[a][e] = "none" /\ decided'[a][e] = "allow"
          => \E v \in own[a] .. Len(policies) : Permits(v, a) ]_vars

\* The rate limit bounds the private entries an agent gets into the collective, with one
\* fresh allowance for each restart.
RateBound ==
    \A a \in Agents :
        Cardinality({shard[i].source : i \in {k \in DOMAIN shard : shard[k].agent = a}})
            <= RateLimit * (1 + restarts)

\* A pull with a cursor delivers every entry that follows it in the shard.
PullIsCurrent ==
    [][ \A a \in Agents :
          /\ cursor[a] # NoHash
          /\ \E outcome \in Outcomes : Pull(a, outcome)
          => \A i \in DOMAIN shard : i > cursor[a] => i \in seen'[a] ]_vars
============================================================================
