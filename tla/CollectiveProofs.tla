------------------------- MODULE CollectiveProofs -------------------------
(* Theorems about Collective, for every set of agents and entries, every    *)
(* window, limit and bound.                                                 *)
EXTENDS Collective, OrderLemmas

----------------------------------------------------------------------------
(* The inductive invariant *)

\* The agents with a push in progress.
Pushing == {a \in Agents : job[a] # Idle}

\* Every contribution, and every push in progress, is one of the calls.
CallInv ==
    /\ IsFiniteSet(Pushing)
    /\ Len(shard) + Cardinality(Pushing) <= calls

\* The predecessor prev is the agent's newest contribution as far as the index and the
\* acknowledgements of its pushes go, when n contributions precede the new one.
Follows(a, prev, n) ==
    /\ prev = NoHash \/ (prev \in 1 .. n /\ shard[prev].agent = a)
    /\ \A i \in acked : shard[i].agent = a =>
         i <= prev \/ (prev = NoHash /\ i <= n - WindowSize)

\* No process holds an index older than its own last acknowledged push, and the
\* projection it is about to append follows that push.
IndexInv ==
    \A a \in Agents :
        /\ idx[a] # NotBuilt => \A i \in acked : shard[i].agent = a => i <= idx[a]
        /\ job[a].kind = "append" => Follows(a, job[a].prev, Len(shard))

\* A process that was given nothing has seen nothing.
CursorInv ==
    /\ seen \in [Agents -> SUBSET Nat]
    /\ \A a \in Agents : cursor[a] = NoHash => seen[a] = {}

\* The process's index of the policies is as new as its own last change.
PolicyInv ==
    /\ own \in [Agents -> Nat]
    /\ \A a \in Agents :
         /\ own[a] <= Len(policies)
         /\ policyIdx[a] # NotBuilt => own[a] <= policyIdx[a]

Allowed(a) == {e \in Entries : decided[a][e] = "allow"}
Sources(a) == {shard[i].source : i \in {k \in DOMAIN shard : shard[k].agent = a}}

\* A process pushes what it was allowed, and never allows more than the limit; what it has
\* in the shard from before it was restarted is bounded by the restarts.
RateInv ==
    \A a \in Agents :
        /\ job[a] # Idle => job[a].source \in Allowed(a)
        /\ IsFiniteSet(Allowed(a)) /\ Cardinality(Allowed(a)) <= RateLimit
        /\ IsFiniteSet(Sources(a))
        /\ Cardinality(Sources(a) \ Allowed(a)) <= RateLimit * restarts

CollectiveInv ==
    /\ TypeOK /\ CallInv /\ IndexInv /\ CursorInv /\ PolicyInv /\ RateInv
    /\ AgentChain /\ NothingSkipped

----------------------------------------------------------------------------
(* Sequences, positions and caches *)

\* Storage.append adds at most one element, at the end.
LEMMA StoredGrows ==
    ASSUME NEW S, NEW s \in Seq(S), NEW x \in S, NEW outcome \in Outcomes,
           NEW t, t = Stored(s, x, outcome)
    PROVE  /\ t \in Seq(S) /\ Len(s) \in Nat /\ Len(t) \in Nat
           /\ DOMAIN s = 1 .. Len(s) /\ DOMAIN t = 1 .. Len(t)
           /\ Len(s) <= Len(t) /\ Len(t) <= Len(s) + 1
           /\ \A i \in 1 .. Len(s) : t[i] = s[i]
           /\ IF outcome = "lost" THEN t = s
              ELSE Len(t) = Len(s) + 1 /\ t[Len(s) + 1] = x
<1>1. CASE outcome = "lost"
  BY <1>1 DEF Stored
<1>2. CASE outcome # "lost"
  <2>1. t = Append(s, x)
    BY <1>2 DEF Stored
  <2>2. QED
    BY <1>2, <2>1
<1>3. QED
  BY <1>1, <1>2

\* The greatest of some positions.
LEMMA MaxPosition ==
    ASSUME NEW n \in Nat, NEW T, T \subseteq 1 .. n, T # {}
    PROVE  Max(T) \in T /\ \A j \in T : j <= Max(T)
<1> DEFINE Last(i) == i \in T /\ \A j \in T : i >= j
<1>1. PICK i \in T : \A j \in T : j <= i
  BY GreatestPosition
<1>2. \E k : Last(k)
  <2>1. \A j \in T : i >= j
    BY <1>1
  <2>2. QED
    BY <1>1, <2>1
<1>3. Last(CHOOSE k : Last(k))
  <2> HIDE DEF Last
  <2>1. QED
    BY <1>2, Zenon
<1>4. Max(T) = CHOOSE k \in T : \A j \in T : k >= j
  BY DEF Max
<1>5. Max(T) \in T /\ \A j \in T : Max(T) >= j
  BY <1>3, <1>4, Zenon
<1>6. QED
  BY <1>5

\* The least of some positions.
LEMMA MinPosition ==
    ASSUME NEW n \in Nat, NEW T, T \subseteq 1 .. n, T # {}
    PROVE  Min(T) \in T /\ \A j \in T : Min(T) <= j
<1> DEFINE First(i) == i \in T /\ \A j \in T : i =< j
<1>1. T \subseteq Nat
  OBVIOUS
<1>2. PICK i \in T : \A j \in T : ~(j < i)
  BY <1>1, LeastNat
<1>3. \E k : First(k)
  <2>1. \A j \in T : i =< j
    BY <1>1, <1>2
  <2>2. QED
    BY <1>2, <2>1
<1>4. First(CHOOSE k : First(k))
  <2> HIDE DEF First
  <2>1. QED
    BY <1>3, Zenon
<1>5. Min(T) = CHOOSE k \in T : \A j \in T : k =< j
  BY DEF Min
<1>6. Min(T) \in T /\ \A j \in T : Min(T) =< j
  BY <1>4, <1>5, Zenon
<1>7. QED
  BY <1>6

\* An index reaches no further than the shard.
LEMMA IndexReach ==
    ASSUME TypeOK, NEW a \in Agents
    PROVE  /\ EnsureIndex(a) \in 0 .. Len(shard) /\ Len(shard) \in Nat
           /\ DOMAIN shard = 1 .. Len(shard)
           /\ Indexed(EnsureIndex(a)) \subseteq 1 .. EnsureIndex(a)
           /\ Indexed(EnsureIndex(a)) \subseteq DOMAIN shard
           /\ PolicyRead(a) \in 0 .. Len(policies) /\ Len(policies) \in Nat
<1>1. Len(shard) \in Nat /\ DOMAIN shard = 1 .. Len(shard) /\ Len(policies) \in Nat
  BY DEF TypeOK
<1>2. idx[a] \in -1 .. Len(shard) /\ policyIdx[a] \in -1 .. Len(policies)
  BY DEF TypeOK, NotBuilt
<1>3. EnsureIndex(a) \in 0 .. Len(shard) /\ PolicyRead(a) \in 0 .. Len(policies)
  BY <1>1, <1>2 DEF EnsureIndex, PolicyRead, NotBuilt
<1>4. Indexed(EnsureIndex(a)) \subseteq 1 .. EnsureIndex(a)
  BY DEF Indexed
<1>5. QED
  BY <1>1, <1>3, <1>4

\* What a pull returns, and where it leaves the cursor.
LEMMA PullType ==
    ASSUME TypeOK, NEW n \in 0 .. Len(shard), NEW since \in 0 .. Len(shard)
    PROVE  LET result == PullResult(n, since)
           IN  /\ result.entries \subseteq 1 .. n
               /\ result.last \in 0 .. Len(shard)
               /\ result.entries = {} => result.last = since
               /\ result.entries # {} /\ since = NoHash =>
                    result.last \in 1 .. n /\ \A i \in result.entries : result.last <= i
               /\ result.entries # {} /\ since # NoHash =>
                    /\ result.entries = since + 1 .. n /\ result.last = n
<1> USE CollectiveAssumption
<1> DEFINE new == IF since = NoHash THEN Recent(n) ELSE Since(n, since)
           result == PullResult(n, since)
<1>1. Len(shard) \in Nat /\ n \in Nat
  BY DEF TypeOK
<1>2. /\ result.entries = new
      /\ result.last = IF new = {} THEN since ELSE IF since = NoHash THEN Min(new) ELSE Max(new)
  BY DEF PullResult
<1>3. new \subseteq 1 .. n
  BY DEF Recent, Since, Indexed
<1>4. CASE new = {}
  BY <1>2, <1>3, <1>4
<1>5. CASE new # {} /\ since = NoHash
  <2> HIDE DEF new, result
  <2>1. Min(new) \in new /\ \A j \in new : Min(new) <= j
    BY <1>1, <1>3, <1>5, MinPosition
  <2>2. result.last = Min(new)
    BY <1>2, <1>5
  <2>3. result.last \in 1 .. n /\ result.last \in 0 .. Len(shard)
    <3>1. result.last \in 1 .. n
      BY <1>3, <2>1, <2>2, Zenon
    <3>2. QED
      BY <1>1, <3>1
  <2>4. \A i \in result.entries : result.last <= i
    BY <1>2, <2>1, <2>2
  <2>5. result.entries \subseteq 1 .. n /\ result.entries # {}
    BY <1>2, <1>3, <1>5
  <2>6. QED
    BY <1>5, <2>3, <2>4, <2>5 DEF result
<1>6. CASE new # {} /\ since # NoHash
  <2>1. since \in Indexed(n) /\ new = {i \in Indexed(n) : i > since}
    BY <1>6 DEF Since
  <2>2. new = since + 1 .. n
    <3>1. since \in 1 .. n /\ since > n - WindowSize
      BY <2>1 DEF Indexed
    <3>2. \A i \in since + 1 .. n : i \in Indexed(n) /\ i > since
      BY <1>1, <3>1 DEF Indexed
    <3>3. \A i \in Indexed(n) : i > since => i \in since + 1 .. n
      BY <1>1, <3>1 DEF Indexed
    <3> HIDE DEF new
    <3>4. QED
      BY <2>1, <3>2, <3>3
  <2> HIDE DEF new, result
  <2>3. Max(new) \in new /\ \A j \in new : j <= Max(new)
    BY <1>1, <1>3, <1>6, MaxPosition
  <2>4. Max(new) = n
    BY <1>1, <1>6, <2>2, <2>3
  <2>5. QED
    BY <1>1, <1>2, <1>3, <1>6, <2>2, <2>4 DEF result
<1>7. QED
  BY <1>4, <1>5, <1>6

\* last_hash_for_agent gives an entry of the agent itself, or nothing.
LEMMA LastHashFollows ==
    ASSUME TypeOK, IndexInv, NEW a \in Agents
    PROVE  /\ LastHashForAgent(a) \in 0 .. Len(shard)
           /\ Follows(a, LastHashForAgent(a), Len(shard))
<1> USE CollectiveAssumption
<1> DEFINE n == EnsureIndex(a)
           mine == {i \in Indexed(n) : shard[i].agent = a}
           prev == LastHashForAgent(a)
<1>1. /\ n \in 0 .. Len(shard) /\ Len(shard) \in Nat /\ n \in Nat
      /\ Indexed(n) \subseteq 1 .. n
  BY IndexReach
<1>2. \A i \in acked : i \in 1 .. Len(shard)
  BY DEF TypeOK
<1>3. \A i \in acked : shard[i].agent = a => i <= n
  BY <1>1, <1>2 DEF IndexInv, EnsureIndex
<1>4. mine \subseteq 1 .. n
  BY <1>1
<1>5. prev = IF mine = {} THEN NoHash ELSE Max(mine)
  BY DEF LastHashForAgent
<1>6. \A i \in acked : shard[i].agent = a => i \in mine \/ i <= n - WindowSize
  BY <1>1, <1>2, <1>3 DEF Indexed
<1>7. CASE mine = {}
  <2>1. prev = NoHash
    BY <1>5, <1>7
  <2>2. \A i \in acked : shard[i].agent = a => i <= Len(shard) - WindowSize
    BY <1>1, <1>2, <1>6, <1>7
  <2> HIDE DEF prev
  <2>3. QED
    BY <1>1, <2>1, <2>2 DEF Follows, NoHash, prev
<1>8. CASE mine # {}
  <2>1. shard[Max(mine)].agent = a /\ Max(mine) > n - WindowSize
    <3>1. Max(mine) \in mine
      BY <1>1, <1>4, <1>8, MaxPosition
    <3>2. QED
      BY <3>1 DEF Indexed
  <2> HIDE DEF mine
  <2>2. Max(mine) \in 1 .. n /\ \A j \in mine : j <= Max(mine)
    BY <1>1, <1>4, <1>8, MaxPosition
  <2>3. prev = Max(mine)
    BY <1>5, <1>8
  <2>4. \A i \in acked : shard[i].agent = a => i <= Max(mine)
    BY <1>1, <1>2, <1>6, <2>1, <2>2
  <2>5. Max(mine) \in 1 .. Len(shard) /\ Max(mine) \in 0 .. Len(shard)
    BY <1>1, <2>2
  <2> HIDE DEF prev
  <2>6. QED
    BY <2>1, <2>3, <2>4, <2>5 DEF Follows, prev
<1>9. QED
  BY <1>7, <1>8

----------------------------------------------------------------------------
(* Types *)

\* Every step keeps the types, given that contributions are counted by the calls.
LEMMA TypeStep ==
    ASSUME TypeOK, CallInv, IndexInv, [Next]_vars
    PROVE  TypeOK'
<1> USE CollectiveAssumption
<1>1. /\ Len(shard) \in Nat /\ DOMAIN shard = 1 .. Len(shard) /\ Len(policies) \in Nat
      /\ Idle \in Jobs
  BY DEF TypeOK, Jobs
<1>2. ASSUME NEW outcome \in Outcomes, Counted(outcome) PROVE fails' \in 0 .. MaxFails
  BY <1>2 DEF Counted, TypeOK
<1>3. ASSUME NEW a \in Agents, Call(a) PROVE calls' \in 0 .. MaxCalls
  BY <1>3 DEF Call, TypeOK
<1>4. ASSUME NEW a \in Agents, NEW agents \in SUBSET Agents, NEW outcome \in Outcomes,
             ChangePolicy(a, agents, outcome)
      PROVE  TypeOK'
  <2>1. policies' \in Seq(SUBSET Agents) /\ Len(policies') \in Nat /\ Len(policies) <= Len(policies')
    <3>1. policies' = Stored(policies, agents, outcome) /\ policies \in Seq(SUBSET Agents)
      BY <1>4 DEF ChangePolicy, TypeOK
    <3>2. QED
      BY <1>4, <3>1, StoredGrows
  <2>2. policyIdx' \in [Agents -> NotBuilt .. Len(policies')]
    <3>1. \A b \in Agents : policyIdx[b] \in -1 .. Len(policies')
      BY <1>1, <2>1 DEF TypeOK, NotBuilt
    <3>2. policyIdx \in [Agents -> NotBuilt .. Len(policies)]
      BY DEF TypeOK
    <3>3. QED
      BY <1>4, <2>1, <3>1, <3>2 DEF ChangePolicy, NotBuilt
  <2>3. fails' \in 0 .. MaxFails /\ calls' \in 0 .. MaxCalls
    BY <1>2, <1>3, <1>4 DEF ChangePolicy
  <2>4. QED
    BY <1>4, <2>1, <2>2, <2>3 DEF ChangePolicy, TypeOK
<1>5. ASSUME NEW a \in Agents, NEW e \in Entries, NEW trusted \in BOOLEAN,
             PushAdmit(a, e, trusted)
      PROVE  TypeOK'
  <2>1. PICK verdict \in {"allow", "deny"}, v \in NotBuilt .. Len(policies) :
          /\ decided' = [decided EXCEPT ![a][e] = verdict]
          /\ policyIdx' = [policyIdx EXCEPT ![a] = v]
          /\ job' = [job EXCEPT ![a] = IF verdict = "allow"
                                       THEN [kind |-> "project", source |-> e] ELSE Idle]
    <3> DEFINE fresh == decided[a][e] = "none"
               verdict == IF ~fresh THEN decided[a][e]
                          ELSE IF Rules(a, trusted) THEN "allow" ELSE "deny"
               v == IF fresh THEN PolicyRead(a) ELSE policyIdx[a]
    <3>1. verdict \in {"allow", "deny"}
      BY <1>5 DEF TypeOK
    <3>2. v \in NotBuilt .. Len(policies)
      BY <1>1, <1>5, IndexReach DEF TypeOK, NotBuilt
    <3>3. /\ decided' = [decided EXCEPT ![a][e] = verdict]
          /\ policyIdx' = [policyIdx EXCEPT ![a] = v]
          /\ job' = [job EXCEPT ![a] = IF verdict = "allow"
                                       THEN [kind |-> "project", source |-> e] ELSE Idle]
      BY <1>5 DEF PushAdmit, TypeOK
    <3> HIDE DEF verdict, v
    <3>4. QED
      BY <3>1, <3>2, <3>3
  <2>2. job' \in [Agents -> Jobs]
    <3>1. [kind |-> "project", source |-> e] \in Jobs
      BY <1>5 DEF Jobs
    <3>2. QED
      BY <1>1, <1>5, <2>1, <3>1 DEF TypeOK
  <2>3. decided' \in [Agents -> [Entries -> {"none", "allow", "deny"}]]
    <3>1. decided[a] \in [Entries -> {"none", "allow", "deny"}]
      BY <1>5 DEF TypeOK
    <3>2. [decided[a] EXCEPT ![e] = verdict] \in [Entries -> {"none", "allow", "deny"}]
      BY <1>5, <3>1
    <3>3. QED
      BY <1>5, <2>1, <3>2 DEF TypeOK
  <2>4. policyIdx' \in [Agents -> NotBuilt .. Len(policies)]
    BY <1>5, <2>1 DEF TypeOK
  <2>5. calls' \in 0 .. MaxCalls
    BY <1>3, <1>5 DEF PushAdmit
  <2>6. UNCHANGED <<files, idx, cursor, acked, fails, restarts>>
    BY <1>5 DEF PushAdmit
  <2>7. QED
    BY <2>2, <2>3, <2>4, <2>5, <2>6 DEF TypeOK, files
<1>6. ASSUME NEW a \in Agents, PushProject(a) PROVE TypeOK'
  <2>1. LastHashForAgent(a) \in 0 .. Len(shard)
    BY <1>6, LastHashFollows
  <2>2. Len(shard) <= MaxCalls
    <3>1. Cardinality(Pushing) \in Nat
      BY FS_CardinalityType DEF CallInv
    <3>2. QED
      BY <1>1, <3>1 DEF CallInv, TypeOK
  <2>3. job[a].source \in Entries
    BY <1>6 DEF PushProject, TypeOK, Jobs, Idle
  <2>4. [kind |-> "append", source |-> job[a].source, prev |-> LastHashForAgent(a)] \in Jobs
    BY <1>1, <2>1, <2>2, <2>3 DEF Jobs
  <2>5. job' \in [Agents -> Jobs]
    BY <1>6, <2>4 DEF PushProject, TypeOK
  <2>6. idx' \in [Agents -> NotBuilt .. Len(shard)]
    <3>1. idx' = [idx EXCEPT ![a] = EnsureIndex(a)]
      BY <1>6 DEF PushProject
    <3>2. EnsureIndex(a) \in NotBuilt .. Len(shard)
      BY <1>1, <1>6, IndexReach DEF NotBuilt
    <3>3. QED
      BY <3>1, <3>2 DEF TypeOK
  <2>7. UNCHANGED <<calls, files, policyIdx, decided, cursor, acked, fails, restarts>>
    BY <1>6 DEF PushProject
  <2>8. QED
    BY <2>5, <2>6, <2>7 DEF TypeOK, files
<1>7. ASSUME NEW a \in Agents, NEW outcome \in Outcomes, PushAppend(a, outcome)
      PROVE  TypeOK'
  <2> DEFINE c == [agent |-> a, source |-> job[a].source, prev |-> job[a].prev]
  <2>1. c \in Contribution
    BY <1>7 DEF PushAppend, TypeOK, Jobs, Idle, Contribution
  <2>2. shard' = Stored(shard, c, outcome) /\ shard \in Seq(Contribution)
    BY <1>7 DEF PushAppend, TypeOK
  <2> HIDE DEF c
  <2>3. /\ shard' \in Seq(Contribution) /\ Len(shard') \in Nat /\ DOMAIN shard' = 1 .. Len(shard')
        /\ Len(shard) <= Len(shard') /\ (outcome # "lost" => Len(shard') = Len(shard) + 1)
    BY <1>7, <2>1, <2>2, StoredGrows
  <2>4. DOMAIN shard \subseteq DOMAIN shard'
    <3>1. Len(shard) \in Nat /\ Len(shard') \in Nat /\ Len(shard) <= Len(shard')
      BY <1>1, <2>3, Zenon
    <3>2. 1 .. Len(shard) \subseteq 1 .. Len(shard')
      BY <3>1
    <3>3. QED
      BY <1>1, <2>3, <3>2, ZenonT(40)
  <2>5. acked' \subseteq DOMAIN shard'
    <3>1. outcome = "ok" => Len(shard') \in DOMAIN shard'
      BY <1>1, <2>3
    <3>2. QED
      BY <1>7, <2>4, <3>1 DEF PushAppend, TypeOK
  <2>6. idx' \in [Agents -> NotBuilt .. Len(shard')] /\ cursor \in [Agents -> 0 .. Len(shard')]
    <3>1. \A b \in Agents : idx[b] \in -1 .. Len(shard') /\ cursor[b] \in 0 .. Len(shard')
      <4>1. \A b \in Agents : idx[b] \in -1 .. Len(shard) /\ cursor[b] \in 0 .. Len(shard)
        BY DEF TypeOK, NotBuilt
      <4>2. Len(shard) \in Nat /\ Len(shard') \in Nat /\ Len(shard) <= Len(shard')
        BY <1>1, <2>3
      <4>3. QED
        BY <4>1, <4>2
    <3>2. idx \in [Agents -> NotBuilt .. Len(shard)] /\ cursor \in [Agents -> 0 .. Len(shard)]
      BY DEF TypeOK
    <3>3. cursor \in [Agents -> 0 .. Len(shard')]
      BY <3>1, <3>2
    <3>4. idx' \in [Agents -> NotBuilt .. Len(shard')]
      <4>1. PICK v \in -1 .. Len(shard') : idx' = [idx EXCEPT ![a] = v]
        <5>1. -1 \in -1 .. Len(shard') /\ idx[a] \in -1 .. Len(shard')
          <6>1. Len(shard') \in Nat /\ a \in Agents
            BY <1>7, <2>3, Zenon
          <6>2. QED
            BY <3>1, <6>1
        <5>2. QED
          BY <1>7, <5>1, Zenon DEF PushAppend, NotBuilt
      <4>2. QED
        BY <3>1, <3>2, <4>1 DEF NotBuilt
    <3>5. QED
      BY <3>3, <3>4
  <2>7. job' \in [Agents -> Jobs] /\ fails' \in 0 .. MaxFails
    BY <1>1, <1>2, <1>7 DEF PushAppend, TypeOK
  <2>8. UNCHANGED <<calls, policies, policyIdx, decided, cursor, restarts>>
    BY <1>7 DEF PushAppend
  <2>9. QED
    BY <2>3, <2>5, <2>6, <2>7, <2>8, Zenon DEF TypeOK
<1>8. ASSUME NEW a \in Agents, NEW outcome \in Outcomes,
             Pull(a, outcome) \/ SessionEndSync(a, outcome)
      PROVE  TypeOK'
  <2> DEFINE n == EnsureIndex(a)
  <2>1. idx' = [idx EXCEPT ![a] = n] /\ n \in NotBuilt .. Len(shard) /\ n \in 0 .. Len(shard)
    BY <1>1, <1>8, IndexReach DEF Pull, SessionEndSync, NotBuilt
  <2>2. calls' \in 0 .. MaxCalls
    BY <1>3, <1>8 DEF Pull, SessionEndSync
  <2>3. fails' \in 0 .. MaxFails
    <3>1. fails' = fails \/ Counted(outcome)
      BY <1>8 DEF Pull, SessionEndSync, LogPull
    <3>2. QED
      BY <1>2, <1>8, <3>1 DEF TypeOK
  <2>4. cursor' \in [Agents -> 0 .. Len(shard)]
    <3>1. CASE SessionEndSync(a, outcome)
      BY <3>1 DEF SessionEndSync, TypeOK
    <3>2. CASE Pull(a, outcome)
      <4>1. cursor[a] \in 0 .. Len(shard)
        BY <1>8 DEF TypeOK
      <4>2. PullResult(n, cursor[a]).last \in 0 .. Len(shard)
        BY <2>1, <4>1, PullType
      <4>3. cursor' = [cursor EXCEPT ![a] = PullResult(n, cursor[a]).last]
        BY <3>2 DEF Pull
      <4>4. QED
        BY <4>2, <4>3 DEF TypeOK
    <3>3. QED
      BY <1>8, <3>1, <3>2
  <2>5. UNCHANGED <<shard, policies, policyIdx, decided, job, acked, restarts>>
    BY <1>8 DEF Pull, SessionEndSync
  <2> HIDE DEF n
  <2>6. idx' \in [Agents -> NotBuilt .. Len(shard)]
    BY <1>8, <2>1 DEF TypeOK
  <2>7. QED
    BY <2>2, <2>3, <2>4, <2>5, <2>6 DEF TypeOK
<1>9. ASSUME NEW a \in Agents, Restart(a) PROVE TypeOK'
  <2>1. /\ policyIdx' \in [Agents -> NotBuilt .. Len(policies)]
        /\ idx' \in [Agents -> NotBuilt .. Len(shard)]
        /\ cursor' \in [Agents -> 0 .. Len(shard)]
    BY <1>1, <1>9 DEF Restart, TypeOK, NotBuilt, NoHash
  <2>2. decided' \in [Agents -> [Entries -> {"none", "allow", "deny"}]]
    BY <1>9 DEF Restart, TypeOK
  <2>3. job' \in [Agents -> Jobs] /\ restarts' \in 0 .. MaxRestarts
    BY <1>1, <1>9 DEF Restart, TypeOK
  <2>4. UNCHANGED <<calls, files, acked, fails>>
    BY <1>9 DEF Restart
  <2>5. QED
    BY <2>1, <2>2, <2>3, <2>4 DEF TypeOK, files
<1>10. ASSUME UNCHANGED vars PROVE TypeOK'
  BY <1>10 DEF vars, files, caches, TypeOK
<1>11. QED
  BY <1>4, <1>5, <1>6, <1>7, <1>8, <1>9, <1>10 DEF Next

----------------------------------------------------------------------------
(* Contributions and calls *)

\* What an append does to the shard and to its ghosts.
LEMMA AppendFacts ==
    ASSUME TypeOK, NEW a \in Agents, NEW outcome \in Outcomes, PushAppend(a, outcome)
    PROVE  /\ job[a].kind = "append" /\ job[a] # Idle /\ job[a].source \in Entries
           /\ job[a].prev \in Nat
           /\ Len(shard) \in Nat /\ DOMAIN shard = 1 .. Len(shard)
           /\ Len(shard') \in Nat /\ DOMAIN shard' = 1 .. Len(shard')
           /\ Len(shard) <= Len(shard') /\ Len(shard') <= Len(shard) + 1
           /\ \A i \in 1 .. Len(shard) : shard'[i] = shard[i]
           /\ Len(shard') = Len(shard) + 1 =>
                shard'[Len(shard) + 1]
                  = [agent |-> a, source |-> job[a].source, prev |-> job[a].prev]
           /\ \/ acked' = acked
              \/ Len(shard') = Len(shard) + 1 /\ acked' = acked \cup {Len(shard) + 1}
                   /\ idx' = [idx EXCEPT ![a] = NotBuilt]
           /\ idx' = idx \/ idx' = [idx EXCEPT ![a] = NotBuilt]
           /\ job' = [job EXCEPT ![a] = Idle]
<1> DEFINE c == [agent |-> a, source |-> job[a].source, prev |-> job[a].prev]
<1>1. /\ job[a].kind = "append" /\ job[a] # Idle /\ job[a].source \in Entries
      /\ job[a].prev \in Nat
  BY CollectiveAssumption DEF PushAppend, TypeOK, Jobs, Idle
<1>2. c \in Contribution
  BY <1>1 DEF Contribution
<1>3. shard' = Stored(shard, c, outcome) /\ shard \in Seq(Contribution)
  BY DEF PushAppend, TypeOK
<1> HIDE DEF c
<1>4. /\ Len(shard) \in Nat /\ DOMAIN shard = 1 .. Len(shard)
      /\ Len(shard') \in Nat /\ DOMAIN shard' = 1 .. Len(shard')
      /\ Len(shard) <= Len(shard') /\ Len(shard') <= Len(shard) + 1
      /\ \A i \in 1 .. Len(shard) : shard'[i] = shard[i]
  <2>1. /\ Len(shard) \in Nat /\ DOMAIN shard = 1 .. Len(shard)
        /\ Len(shard') \in Nat /\ DOMAIN shard' = 1 .. Len(shard')
        /\ Len(shard) <= Len(shard') /\ Len(shard') <= Len(shard) + 1
    BY <1>2, <1>3, StoredGrows
  <2>2. \A i \in 1 .. Len(shard) : shard'[i] = shard[i]
    <3>1. CASE outcome = "lost"
      BY <1>3, <3>1 DEF Stored
    <3>2. CASE outcome # "lost"
      BY <1>2, <1>3, <3>2 DEF Stored
    <3>3. QED
      BY <3>1, <3>2
  <2>3. QED
    BY <2>1, <2>2
<1>5. outcome # "lost" => Len(shard') = Len(shard) + 1 /\ shard'[Len(shard) + 1] = c
  BY <1>2, <1>3, StoredGrows
<1>6. outcome = "lost" => shard' = shard
  BY <1>3 DEF Stored
<1>7. Len(shard') = Len(shard) + 1 => shard'[Len(shard) + 1] = c
  BY <1>4, <1>5, <1>6
<1>8. /\ \/ acked' = acked
         \/ Len(shard') = Len(shard) + 1 /\ acked' = acked \cup {Len(shard) + 1}
              /\ idx' = [idx EXCEPT ![a] = NotBuilt]
      /\ idx' = idx \/ idx' = [idx EXCEPT ![a] = NotBuilt]
  <2>1. CASE outcome = "ok"
    BY <1>5, <2>1 DEF PushAppend
  <2>2. CASE outcome # "ok"
    <3>1. idx' = idx /\ acked' = acked
      BY <2>2 DEF PushAppend, TypeOK
    <3>2. QED
      BY <3>1
  <2>3. QED
    BY <2>1, <2>2
<1>9. job' = [job EXCEPT ![a] = Idle]
  BY DEF PushAppend
<1>10. QED
  BY <1>1, <1>4, <1>7, <1>8, <1>9, Zenon DEF c

\* Only push appends to the shard.
LEMMA ShardSame ==
    ASSUME [Next]_vars
    PROVE  \/ UNCHANGED <<shard, acked>>
           \/ \E a \in Agents, outcome \in Outcomes : PushAppend(a, outcome)
BY DEF Next, ChangePolicy, PushAdmit, PushProject, Pull, SessionEndSync, Restart, vars, files

\* The pushes in progress are counted by the calls.
LEMMA CallStep ==
    ASSUME TypeOK, CallInv, [Next]_vars
    PROVE  CallInv'
<1> USE CollectiveAssumption
<1>1. /\ Len(shard) \in Nat /\ calls \in Nat /\ IsFiniteSet(Pushing)
      /\ Cardinality(Pushing) \in Nat /\ Len(shard) + Cardinality(Pushing) <= calls
  BY FS_CardinalityType DEF TypeOK, CallInv
<1>2. ASSUME UNCHANGED <<shard, job>>, calls' = calls \/ calls' = calls + 1
      PROVE  CallInv'
  <2>1. Pushing' = Pushing
    BY <1>2 DEF Pushing
  <2>2. QED
    BY <1>1, <1>2, <2>1 DEF CallInv
<1>3. ASSUME NEW a \in Agents, NEW e \in Entries, NEW trusted \in BOOLEAN,
             PushAdmit(a, e, trusted)
      PROVE  CallInv'
  <2>1. calls' = calls + 1 /\ UNCHANGED shard /\ a \notin Pushing
    BY <1>3 DEF PushAdmit, Call, files, Pushing
  <2>2. PICK j : job' = [job EXCEPT ![a] = j]
    BY <1>3 DEF PushAdmit
  <2>3. Pushing' = Pushing \/ Pushing' = Pushing \cup {a}
    <3>1. \A b \in Agents : b # a => job'[b] = job[b]
      BY <2>2 DEF TypeOK
    <3>2. \A b \in Agents : b # a => (b \in Pushing' <=> b \in Pushing)
      BY <3>1 DEF Pushing
    <3>3. Pushing' \subseteq Agents /\ Pushing \subseteq Agents
      BY DEF Pushing
    <3>4. CASE a \in Pushing'
      BY <3>2, <3>3, <3>4
    <3>5. CASE a \notin Pushing'
      BY <2>1, <3>2, <3>3, <3>5
    <3>6. QED
      BY <3>4, <3>5
  <2>4. /\ IsFiniteSet(Pushing \cup {a}) /\ Cardinality(Pushing \cup {a}) \in Nat
        /\ Cardinality(Pushing \cup {a}) <= Cardinality(Pushing) + 1
    BY <1>1, AddOne
  <2>5. CASE Pushing' = Pushing
    BY <1>1, <2>1, <2>5 DEF CallInv
  <2>6. CASE Pushing' = Pushing \cup {a}
    <3>1. Cardinality(Pushing') <= Cardinality(Pushing) + 1 /\ Cardinality(Pushing') \in Nat
      BY <2>4, <2>6
    <3>2. Len(shard) + Cardinality(Pushing') <= calls'
      BY <1>1, <2>1, <3>1
    <3>3. QED
      BY <2>1, <2>4, <2>6, <3>2 DEF CallInv
  <2>7. QED
    BY <2>3, <2>5, <2>6
<1>4. ASSUME NEW a \in Agents, PushProject(a) PROVE CallInv'
  <2>1. UNCHANGED <<shard, calls>>
    BY <1>4 DEF PushProject, files
  <2>2. PICK j : job' = [job EXCEPT ![a] = j] /\ j.kind = "append" /\ job[a].kind = "project"
    BY <1>4 DEF PushProject
  <2>3. \A b \in Agents : job'[b] # Idle <=> job[b] # Idle
    BY <2>2 DEF TypeOK, Idle
  <2>4. Pushing' = Pushing
    BY <2>3 DEF Pushing
  <2>5. QED
    BY <1>1, <2>1, <2>4 DEF CallInv
<1>5. ASSUME NEW a \in Agents, job' = [job EXCEPT ![a] = Idle]
      PROVE  /\ Pushing' = Pushing \ {a} /\ IsFiniteSet(Pushing')
             /\ Cardinality(Pushing') \in Nat
             /\ Cardinality(Pushing') <= Cardinality(Pushing)
             /\ job[a] # Idle => Cardinality(Pushing') = Cardinality(Pushing) - 1
  <2>1. \A b \in Agents : job'[b] # Idle <=> b # a /\ job[b] # Idle
    BY <1>5 DEF TypeOK
  <2>2. Pushing' = Pushing \ {a}
    BY <2>1 DEF Pushing
  <2>3. /\ IsFiniteSet(Pushing \ {a})
        /\ Cardinality(Pushing \ {a}) = IF a \in Pushing THEN Cardinality(Pushing) - 1
                                        ELSE Cardinality(Pushing)
    BY <1>1, FS_RemoveElement
  <2>4. Cardinality(Pushing \ {a}) \in Nat
    BY <2>3, FS_CardinalityType
  <2>5. job[a] # Idle => a \in Pushing
    BY <1>5 DEF Pushing
  <2>6. QED
    BY <1>1, <2>2, <2>3, <2>4, <2>5
<1>6. ASSUME NEW a \in Agents, NEW outcome \in Outcomes, PushAppend(a, outcome)
      PROVE  CallInv'
  <2>1. /\ job' = [job EXCEPT ![a] = Idle] /\ job[a] # Idle
        /\ Len(shard') \in Nat /\ Len(shard') <= Len(shard) + 1
    BY <1>6, AppendFacts
  <2>2. calls' = calls
    BY <1>6 DEF PushAppend
  <2>3. /\ IsFiniteSet(Pushing') /\ Cardinality(Pushing') \in Nat
        /\ Cardinality(Pushing') = Cardinality(Pushing) - 1
    BY <1>5, <1>6, <2>1
  <2>4. Len(shard') + Cardinality(Pushing') <= calls'
    BY <1>1, <2>1, <2>2, <2>3
  <2>5. QED
    BY <2>3, <2>4 DEF CallInv
<1>7. ASSUME NEW a \in Agents, Restart(a) PROVE CallInv'
  <2>1. job' = [job EXCEPT ![a] = Idle] /\ UNCHANGED <<shard, calls>>
    BY <1>7 DEF Restart, files
  <2>2. /\ IsFiniteSet(Pushing') /\ Cardinality(Pushing') \in Nat
        /\ Cardinality(Pushing') <= Cardinality(Pushing)
    BY <1>5, <1>7, <2>1
  <2>3. Len(shard') + Cardinality(Pushing') <= calls'
    BY <1>1, <2>1, <2>2
  <2>4. QED
    BY <2>2, <2>3 DEF CallInv
<1>8. ASSUME NEW a \in Agents, NEW outcome \in Outcomes,
             Pull(a, outcome) \/ SessionEndSync(a, outcome)
      PROVE  CallInv'
  BY <1>2, <1>8 DEF Pull, SessionEndSync, Call
<1>9. ASSUME NEW a \in Agents, NEW agents \in SUBSET Agents, NEW outcome \in Outcomes,
             ChangePolicy(a, agents, outcome)
      PROVE  CallInv'
  BY <1>2, <1>9 DEF ChangePolicy, Call
<1>10. ASSUME UNCHANGED vars PROVE CallInv'
  BY <1>2, <1>10 DEF vars, files
<1>11. QED
  BY <1>3, <1>4, <1>6, <1>7, <1>8, <1>9, <1>10 DEF Next

----------------------------------------------------------------------------
(* Indexes and predecessors *)

\* A step that leaves the shard alone may drop an index or read it again.
LEMMA IndexFrame ==
    ASSUME TypeOK, IndexInv, UNCHANGED <<shard, acked>>,
           \A b \in Agents : idx'[b] \in {idx[b], NotBuilt, EnsureIndex(b)},
           \A b \in Agents : job'[b].kind = "append" =>
             job'[b] = job[b] \/ Follows(b, job'[b].prev, Len(shard))
    PROVE  IndexInv'
<1>1. Len(shard) \in Nat /\ \A i \in acked : i \in 1 .. Len(shard)
  BY DEF TypeOK
<1>2. ASSUME NEW b \in Agents, idx'[b] # NotBuilt, NEW i \in acked, shard[i].agent = b
      PROVE  i <= idx'[b]
  <2>1. CASE idx[b] = NotBuilt
    BY <1>1, <1>2, <2>1 DEF EnsureIndex
  <2>2. CASE idx[b] # NotBuilt
    BY <1>2, <2>2 DEF EnsureIndex, IndexInv
  <2>3. QED
    BY <2>1, <2>2
<1>3. ASSUME NEW b \in Agents, job'[b].kind = "append"
      PROVE  Follows(b, job'[b].prev, Len(shard))
  BY <1>3 DEF IndexInv
<1>4. \A b \in Agents : job'[b].kind = "append" => Follows(b, job[b].prev, Len(shard))'
  BY <1>3 DEF Follows
<1>5. QED
  BY <1>2, <1>4 DEF IndexInv

\* Indexes stay as new as the process's own acknowledged pushes.
LEMMA IndexStep ==
    ASSUME TypeOK, IndexInv, [Next]_vars
    PROVE  IndexInv'
<1> USE CollectiveAssumption
<1>1. ASSUME NEW a \in Agents, NEW outcome \in Outcomes, PushAppend(a, outcome)
      PROVE  IndexInv'
  <2>1. /\ Len(shard) \in Nat /\ Len(shard') \in Nat /\ Len(shard) <= Len(shard')
        /\ \A i \in 1 .. Len(shard) : shard'[i] = shard[i]
        /\ job' = [job EXCEPT ![a] = Idle]
        /\ idx' = idx \/ idx' = [idx EXCEPT ![a] = NotBuilt]
    BY <1>1, AppendFacts
  <2>2. \A i \in acked : i \in 1 .. Len(shard) /\ shard'[i] = shard[i]
    BY <2>1 DEF TypeOK
  <2>3. \/ acked' = acked
        \/ /\ acked' = acked \cup {Len(shard) + 1} /\ idx'[a] = NotBuilt
           /\ shard'[Len(shard) + 1].agent = a
    <3>1. \/ acked' = acked
          \/ /\ acked' = acked \cup {Len(shard) + 1} /\ idx' = [idx EXCEPT ![a] = NotBuilt]
             /\ shard'[Len(shard) + 1]
                  = [agent |-> a, source |-> job[a].source, prev |-> job[a].prev]
      BY <1>1, AppendFacts
    <3>2. QED
      BY <1>1, <3>1 DEF TypeOK
  <2>4. ASSUME NEW b \in Agents, idx'[b] # NotBuilt, NEW i \in acked', shard'[i].agent = b
        PROVE  i <= idx'[b]
    <3>1. idx'[b] = idx[b]
      BY <2>1, <2>4 DEF TypeOK
    <3>2. i \in acked
      BY <2>3, <2>4
    <3>3. QED
      BY <2>2, <2>4, <3>1, <3>2 DEF IndexInv
  <2>5. ASSUME NEW b \in Agents, job'[b].kind = "append"
        PROVE  Follows(b, job[b].prev, Len(shard))'
    <3>1. b # a /\ job'[b] = job[b]
      BY <1>1, <2>1, <2>5 DEF TypeOK, Idle
    <3>2. Follows(b, job[b].prev, Len(shard))
      BY <2>5, <3>1 DEF IndexInv
    <3>3. \/ job[b].prev = NoHash
          \/ job[b].prev \in 1 .. Len(shard') /\ shard'[job[b].prev].agent = b
      BY <2>1, <3>2 DEF Follows
    <3>4. ASSUME NEW i \in acked', shard'[i].agent = b
          PROVE  i <= job[b].prev \/ (job[b].prev = NoHash /\ i <= Len(shard') - WindowSize)
      <4>1. i \in acked /\ shard[i].agent = b /\ i \in 1 .. Len(shard)
        BY <2>2, <2>3, <3>1, <3>4
      <4>2. i <= job[b].prev \/ (job[b].prev = NoHash /\ i <= Len(shard) - WindowSize)
        BY <3>2, <4>1 DEF Follows
      <4>3. QED
        BY <2>1, <4>1, <4>2
    <3>5. QED
      BY <3>1, <3>3, <3>4 DEF Follows
  <2>6. QED
    BY <2>4, <2>5 DEF IndexInv
<1>2. ASSUME NEW a \in Agents, PushProject(a) PROVE IndexInv'
  <2>1. UNCHANGED <<shard, acked>> /\ idx' = [idx EXCEPT ![a] = EnsureIndex(a)]
    BY <1>2 DEF PushProject, files
  <2>2. job' = [job EXCEPT ![a] = [kind |-> "append", source |-> job[a].source,
                                   prev |-> LastHashForAgent(a)]]
    BY <1>2 DEF PushProject
  <2>3. Follows(a, LastHashForAgent(a), Len(shard))
    BY <1>2, LastHashFollows
  <2>4. \A b \in Agents : idx'[b] \in {idx[b], NotBuilt, EnsureIndex(b)}
    BY <2>1 DEF TypeOK
  <2>5. ASSUME NEW b \in Agents
        PROVE  job'[b] = job[b] \/ Follows(b, job'[b].prev, Len(shard))
    <3>1. CASE b = a
      <4>1. job'[b].prev = LastHashForAgent(a)
        BY <2>2, <3>1 DEF TypeOK
      <4>2. QED
        BY <2>3, <3>1, <4>1
    <3>2. CASE b # a
      BY <2>2, <2>5, <3>2 DEF TypeOK
    <3>3. QED
      BY <3>1, <3>2
  <2>6. QED
    BY <2>1, <2>4, <2>5, IndexFrame
<1>3. ASSUME NEW a \in Agents, NEW e \in Entries, NEW trusted \in BOOLEAN,
             PushAdmit(a, e, trusted)
      PROVE  IndexInv'
  <2>1. UNCHANGED <<shard, acked, idx>>
    BY <1>3 DEF PushAdmit, files
  <2>2. PICK j : job' = [job EXCEPT ![a] = j] /\ j.kind # "append"
    <3>1. \/ job' = [job EXCEPT ![a] = [kind |-> "project", source |-> e]]
          \/ job' = [job EXCEPT ![a] = Idle]
      BY <1>3 DEF PushAdmit
    <3>2. [kind |-> "project", source |-> e].kind # "append" /\ Idle.kind # "append"
      BY DEF Idle
    <3>3. QED
      BY <3>1, <3>2, Zenon
  <2>3. \A b \in Agents : job'[b].kind = "append" => job'[b] = job[b]
    BY <2>2 DEF TypeOK
  <2>4. QED
    BY <2>1, <2>3, IndexFrame
<1>4. ASSUME NEW a \in Agents, NEW outcome \in Outcomes,
             Pull(a, outcome) \/ SessionEndSync(a, outcome)
      PROVE  IndexInv'
  <2>1. UNCHANGED <<shard, acked, job>> /\ idx' = [idx EXCEPT ![a] = EnsureIndex(a)]
    BY <1>4 DEF Pull, SessionEndSync
  <2>2. \A b \in Agents : idx'[b] \in {idx[b], NotBuilt, EnsureIndex(b)}
    BY <2>1 DEF TypeOK
  <2>3. QED
    BY <2>1, <2>2, IndexFrame
<1>5. ASSUME NEW a \in Agents, Restart(a) PROVE IndexInv'
  <2>1. /\ UNCHANGED <<shard, acked>> /\ idx' = [idx EXCEPT ![a] = NotBuilt]
        /\ job' = [job EXCEPT ![a] = Idle]
    BY <1>5 DEF Restart, files
  <2>2. \A b \in Agents : idx'[b] \in {idx[b], NotBuilt, EnsureIndex(b)}
    BY <2>1 DEF TypeOK
  <2>3. \A b \in Agents : job'[b].kind = "append" => job'[b] = job[b]
    BY <2>1 DEF TypeOK, Idle
  <2>4. QED
    BY <2>1, <2>2, <2>3, IndexFrame
<1>6. ASSUME UNCHANGED <<shard, acked, job, idx>> PROVE IndexInv'
  BY <1>6, IndexFrame
<1>7. ASSUME NEW a \in Agents, NEW agents \in SUBSET Agents, NEW outcome \in Outcomes,
             ChangePolicy(a, agents, outcome)
      PROVE  IndexInv'
  BY <1>6, <1>7 DEF ChangePolicy
<1>8. ASSUME UNCHANGED vars PROVE IndexInv'
  BY <1>6, <1>8 DEF vars, files, caches
<1>9. QED
  BY <1>1, <1>2, <1>3, <1>4, <1>5, <1>7, <1>8 DEF Next

\* Every agent's contributions stay a chain.
LEMMA ChainStep ==
    ASSUME TypeOK, IndexInv, AgentChain, [Next]_vars
    PROVE  AgentChain'
<1> USE CollectiveAssumption
<1>1. CASE UNCHANGED <<shard, acked>>
  BY <1>1 DEF AgentChain
<1>2. ASSUME NEW a \in Agents, NEW outcome \in Outcomes, PushAppend(a, outcome)
      PROVE  AgentChain'
  <2>1. /\ Len(shard) \in Nat /\ DOMAIN shard = 1 .. Len(shard)
        /\ Len(shard') \in Nat /\ DOMAIN shard' = 1 .. Len(shard')
        /\ Len(shard) <= Len(shard') /\ Len(shard') <= Len(shard) + 1
        /\ \A i \in 1 .. Len(shard) : shard'[i] = shard[i]
        /\ job[a].kind = "append"
    BY <1>2, AppendFacts
  <2>2. acked \subseteq 1 .. Len(shard) /\ acked' \subseteq acked \cup {Len(shard) + 1}
    <3>1. acked' = acked \/ acked' = acked \cup {Len(shard) + 1}
      BY <1>2, AppendFacts
    <3>2. QED
      BY <2>1, <3>1 DEF TypeOK
  <2>3. SUFFICES ASSUME NEW j \in DOMAIN shard'
                 PROVE  LET prev == shard'[j].prev
                            mine == {i \in 1 .. j - 1 : shard'[i].agent = shard'[j].agent}
                        IN  /\ prev = NoHash \/ prev \in mine
                            /\ \A i \in mine \cap acked' :
                                 i <= prev \/ (prev = NoHash /\ i <= j - 1 - WindowSize)
    BY DEF AgentChain
  <2>4. CASE j \in 1 .. Len(shard)
    <3> DEFINE prev == shard[j].prev
               mine == {i \in 1 .. j - 1 : shard[i].agent = shard[j].agent}
    <3>1. /\ prev = NoHash \/ prev \in mine
          /\ \A i \in mine \cap acked : i <= prev \/ (prev = NoHash /\ i <= j - 1 - WindowSize)
      BY <2>1, <2>4 DEF AgentChain
    <3>2. \A i \in 1 .. j - 1 : i \in 1 .. Len(shard) /\ i # Len(shard) + 1
      BY <2>1, <2>4
    <3>3. shard'[j] = shard[j]
      BY <2>1, <2>4
    <3>4. mine = {i \in 1 .. j - 1 : shard'[i].agent = shard'[j].agent}
      BY <2>1, <3>2, <3>3
    <3>5. mine \cap acked' \subseteq mine \cap acked
      BY <2>2, <3>2
    <3>6. QED
      BY <3>1, <3>3, <3>4, <3>5
  <2>5. CASE j = Len(shard) + 1
    <3>1. Len(shard') = Len(shard) + 1
      <4>1. j \in 1 .. Len(shard')
        BY <2>1, <2>3
      <4>2. Len(shard) \in Nat /\ Len(shard') \in Nat /\ Len(shard') <= Len(shard) + 1
        BY <2>1
      <4>3. QED
        BY <2>5, <4>1, <4>2
    <3>2. shard'[j].agent = a /\ shard'[j].prev = job[a].prev
      <4>1. shard'[Len(shard) + 1]
              = [agent |-> a, source |-> job[a].source, prev |-> job[a].prev]
        BY <1>2, <3>1, AppendFacts
      <4>2. QED
        BY <2>5, <4>1
    <3>3. Follows(a, job[a].prev, Len(shard))
      BY <1>2, <2>1 DEF IndexInv
    <3>4. j - 1 = Len(shard)
      BY <2>1, <2>5
    <3> DEFINE mine == {i \in 1 .. j - 1 : shard'[i].agent = shard'[j].agent}
    <3>5. mine = {i \in 1 .. Len(shard) : shard[i].agent = a}
      BY <2>1, <3>2, <3>4
    <3>6. mine \cap acked' \subseteq acked
      BY <2>1, <2>2, <3>5
    <3>7. job[a].prev = NoHash \/ job[a].prev \in mine
      BY <3>3, <3>5 DEF Follows
    <3>8. \A i \in mine \cap acked' :
            i <= job[a].prev \/ (job[a].prev = NoHash /\ i <= j - 1 - WindowSize)
      BY <3>3, <3>4, <3>5, <3>6 DEF Follows
    <3> HIDE DEF mine
    <3>9. QED
      BY <3>2, <3>7, <3>8 DEF mine
  <2>6. QED
    BY <2>1, <2>3, <2>4, <2>5
<1>3. QED
  BY <1>1, <1>2, ShardSame

----------------------------------------------------------------------------
(* Readers *)

\* sync_log counts the entries between the two hashes of a record.
LEMMA LogCounts ==
    ASSUME TypeOK, NothingSkipped, NEW a \in Agents, NEW n \in 0 .. Len(shard),
           NEW since \in 0 .. Len(shard), NEW outcome,
           LogPull(a, since, PullResult(n, since), outcome)
    PROVE  \A r \in synclog' : r.since # NoHash => r.synced = r.last - r.since
<1> DEFINE result == PullResult(n, since)
           rec == [agent |-> a, synced |-> Cardinality(result.entries), since |-> since,
                   last |-> result.last]
<1>1. \A r \in synclog : r.since # NoHash => r.synced = r.last - r.since
  BY DEF NothingSkipped
<1>2. CASE synclog' = synclog
  BY <1>1, <1>2
<1>3. CASE result.entries # {} /\ synclog' = synclog \cup {rec}
  <2>1. ASSUME since # NoHash
        PROVE  rec.synced = rec.last - rec.since
    <3>1. result.entries = since + 1 .. n /\ result.last = n
      BY <1>3, <2>1, PullType
    <3>2. Len(shard) \in Nat
      BY DEF TypeOK
    <3>3. since + 1 \in Int /\ n \in Int /\ since \in Int
      BY <3>2
    <3>4. Cardinality(since + 1 .. n) = IF since + 1 > n THEN 0 ELSE n - (since + 1) + 1
      BY <3>3, FS_Interval
    <3>5. ~(since + 1 > n)
      BY <1>3, <3>1, <3>3
    <3>6. Cardinality(result.entries) = n - since
      BY <3>1, <3>3, <3>4, <3>5
    <3> HIDE DEF result
    <3>7. QED
      BY <3>1, <3>6
  <2>2. rec.since = since
    OBVIOUS
  <2> HIDE DEF rec
  <2>3. QED
    BY <1>1, <1>3, <2>1, <2>2
<1>4. QED
  BY <1>2, <1>3 DEF LogPull

\* A reader that keeps its cursor goes on missing nothing.
LEMMA ReaderStep ==
    ASSUME TypeOK, CursorInv, NothingSkipped, [Next]_vars
    PROVE  CursorInv' /\ NothingSkipped'
<1> USE CollectiveAssumption
<1> DEFINE Gapless(b) == \A i \in DOMAIN shard, j \in seen[b] :
                           j <= i /\ i <= cursor[b] => i \in seen[b]
<1>1. /\ Len(shard) \in Nat /\ DOMAIN shard = 1 .. Len(shard)
      /\ \A b \in Agents : cursor[b] \in 0 .. Len(shard) /\ seen[b] \subseteq Nat
      /\ \A b \in Agents : Gapless(b)
  BY DEF TypeOK, CursorInv, NothingSkipped
<1>2. ASSUME NEW a \in Agents, NEW outcome \in Outcomes, PushAppend(a, outcome)
      PROVE  CursorInv' /\ NothingSkipped'
  <2>1. UNCHANGED <<synclog, cursor, seen>>
    BY <1>2 DEF PushAppend
  <2>2. DOMAIN shard' = 1 .. Len(shard') /\ Len(shard') \in Nat
    BY <1>2, AppendFacts
  <2>3. ASSUME NEW b \in Agents, NEW i \in DOMAIN shard', NEW j \in seen[b],
               j <= i, i <= cursor[b]
        PROVE  i \in seen[b]
    <3>1. i \in 1 .. Len(shard') /\ cursor[b] \in 0 .. Len(shard)
      BY <1>1, <2>2, <2>3
    <3>2. i \in DOMAIN shard
      BY <1>1, <2>2, <2>3, <3>1
    <3>3. QED
      BY <1>1, <2>3, <3>2
  <2>4. QED
    BY <2>1, <2>3 DEF CursorInv, NothingSkipped
<1>3. ASSUME NEW a \in Agents, NEW outcome \in Outcomes, Pull(a, outcome)
      PROVE  CursorInv' /\ NothingSkipped'
  <2> DEFINE n == EnsureIndex(a)
             since == cursor[a]
             new == PullResult(n, since).entries
             last == PullResult(n, since).last
  <2>1. /\ cursor' = [cursor EXCEPT ![a] = last] /\ seen' = [seen EXCEPT ![a] = @ \cup new]
        /\ LogPull(a, since, PullResult(n, since), outcome) /\ UNCHANGED shard
    BY <1>3 DEF Pull
  <2>2. n \in 0 .. Len(shard) /\ since \in 0 .. Len(shard)
    BY <1>1, <1>3, IndexReach
  <2>3. /\ new \subseteq 1 .. n /\ last \in 0 .. Len(shard)
        /\ new = {} => last = since
        /\ new # {} /\ since = NoHash => last \in 1 .. n /\ \A i \in new : last <= i
        /\ new # {} /\ since # NoHash => new = since + 1 .. n /\ last = n
    BY <2>2, PullType
  <2>4. \A r \in synclog' : r.since # NoHash => r.synced = r.last - r.since
    BY <1>3, <2>1, <2>2, LogCounts
  <2> HIDE DEF n, new, last, since
  <2>5. /\ \A b \in Agents : b # a => cursor'[b] = cursor[b] /\ seen'[b] = seen[b]
        /\ cursor'[a] = last /\ seen'[a] = seen[a] \cup new
    BY <1>3, <2>1 DEF TypeOK, CursorInv
  <2>6. new \subseteq Nat
    BY <1>1, <2>2, <2>3
  <2>7. seen' \in [Agents -> SUBSET Nat]
    BY <1>3, <2>1, <2>6 DEF CursorInv
  <2>8. last = NoHash => seen[a] \cup new = {}
    <3>1. CASE new = {}
      BY <1>3, <2>3, <3>1 DEF CursorInv, since
    <3>2. CASE new # {}
      BY <1>1, <2>2, <2>3, <3>2 DEF NoHash
    <3>3. QED
      BY <3>1, <3>2
  <2>9. CursorInv'
    BY <2>5, <2>7, <2>8 DEF CursorInv
  <2>10. ASSUME NEW i \in DOMAIN shard, NEW j \in seen[a] \cup new, j <= i, i <= last
         PROVE  i \in seen[a] \cup new
    <3>1. i \in Nat /\ j \in Nat
      <4>1. i \in 1 .. Len(shard)
        BY <1>1, <2>10
      <4>2. i \in Nat
        BY <1>1, <4>1
      <4>3. j \in Nat
        BY <1>1, <1>3, <2>6, <2>10
      <4>4. QED
        BY <4>2, <4>3
    <3>2. CASE new = {}
      <4>1. j \in seen[a] /\ i <= cursor[a]
        BY <2>3, <2>10, <3>2 DEF since
      <4>2. QED
        BY <1>1, <1>3, <2>10, <4>1
    <3>3. CASE new # {} /\ since = NoHash
      <4>1. seen[a] = {}
        BY <1>3, <3>3 DEF CursorInv, since
      <4>2. j \in new /\ last <= j
        BY <2>3, <2>10, <3>3, <4>1
      <4>3. last \in Nat
        BY <1>1, <2>3
      <4>4. i = j
        BY <2>10, <3>1, <4>2, <4>3
      <4>5. QED
        BY <4>2, <4>4
    <3>4. CASE new # {} /\ since # NoHash
      <4>1. new = since + 1 .. n /\ last = n /\ since \in Nat /\ n \in Nat
        BY <1>1, <2>2, <2>3, <3>4
      <4>2. CASE i <= since
        <5>1. j \in seen[a]
          BY <2>10, <3>1, <4>1, <4>2
        <5>2. QED
          BY <1>1, <1>3, <2>10, <4>2, <5>1 DEF since
      <4>3. CASE ~(i <= since)
        BY <2>10, <3>1, <4>1, <4>3
      <4>4. QED
        BY <4>2, <4>3
    <3>5. QED
      BY <3>2, <3>3, <3>4
  <2>11. ASSUME NEW b \in Agents, NEW i \in DOMAIN shard, NEW j \in seen'[b],
                j <= i, i <= cursor'[b]
         PROVE  i \in seen'[b]
    <3>1. CASE b = a
      BY <2>5, <2>10, <2>11, <3>1
    <3>2. CASE b # a
      BY <1>1, <2>5, <2>11, <3>2
    <3>3. QED
      BY <3>1, <3>2
  <2>12. NothingSkipped'
    BY <2>1, <2>4, <2>11 DEF NothingSkipped
  <2>13. QED
    BY <2>9, <2>12
<1>4. ASSUME NEW a \in Agents, NEW outcome \in Outcomes, SessionEndSync(a, outcome)
      PROVE  CursorInv' /\ NothingSkipped'
  <2>1. /\ UNCHANGED <<shard, cursor, seen>>
        /\ LogPull(a, NoHash, PullResult(EnsureIndex(a), NoHash), outcome)
    BY <1>4 DEF SessionEndSync
  <2>2. EnsureIndex(a) \in 0 .. Len(shard) /\ NoHash \in 0 .. Len(shard)
    BY <1>1, <1>4, IndexReach DEF NoHash
  <2>3. \A r \in synclog' : r.since # NoHash => r.synced = r.last - r.since
    BY <1>4, <2>1, <2>2, LogCounts
  <2>4. QED
    BY <2>1, <2>3 DEF CursorInv, NothingSkipped
<1>5. ASSUME NEW a \in Agents, Restart(a) PROVE CursorInv' /\ NothingSkipped'
  <2>1. /\ UNCHANGED <<shard, synclog>> /\ cursor' = [cursor EXCEPT ![a] = NoHash]
        /\ seen' = [seen EXCEPT ![a] = {}]
    BY <1>5 DEF Restart, files
  <2>2. /\ \A b \in Agents : b # a => cursor'[b] = cursor[b] /\ seen'[b] = seen[b]
        /\ seen'[a] = {} /\ seen' \in [Agents -> SUBSET Nat]
    BY <1>5, <2>1 DEF TypeOK, CursorInv
  <2>3. CursorInv'
    BY <2>2 DEF CursorInv
  <2>4. \A b \in Agents : \A i \in DOMAIN shard, j \in seen'[b] :
          j <= i /\ i <= cursor'[b] => i \in seen'[b]
    BY <1>1, <2>2
  <2>5. QED
    BY <2>1, <2>3, <2>4 DEF NothingSkipped
<1>6. ASSUME UNCHANGED <<shard, synclog, cursor, seen>> PROVE CursorInv' /\ NothingSkipped'
  BY <1>6 DEF CursorInv, NothingSkipped
<1>7. ASSUME NEW a \in Agents, NEW e \in Entries, NEW trusted \in BOOLEAN,
             PushAdmit(a, e, trusted)
      PROVE  CursorInv' /\ NothingSkipped'
  BY <1>6, <1>7 DEF PushAdmit, files
<1>8. ASSUME NEW a \in Agents, PushProject(a) PROVE CursorInv' /\ NothingSkipped'
  BY <1>6, <1>8 DEF PushProject, files
<1>9. ASSUME NEW a \in Agents, NEW agents \in SUBSET Agents, NEW outcome \in Outcomes,
             ChangePolicy(a, agents, outcome)
      PROVE  CursorInv' /\ NothingSkipped'
  BY <1>6, <1>9 DEF ChangePolicy
<1>10. ASSUME UNCHANGED vars PROVE CursorInv' /\ NothingSkipped'
  BY <1>6, <1>10 DEF vars, files
<1>11. QED
  BY <1>2, <1>3, <1>4, <1>5, <1>7, <1>8, <1>9, <1>10 DEF Next

----------------------------------------------------------------------------
(* Policies *)

\* No process falls behind a policy change of its own.
LEMMA PolicyStep ==
    ASSUME TypeOK, PolicyInv, [Next]_vars
    PROVE  PolicyInv'
<1>1. /\ Len(policies) \in Nat /\ own \in [Agents -> Nat]
      /\ policyIdx \in [Agents -> NotBuilt .. Len(policies)]
      /\ \A b \in Agents : own[b] <= Len(policies) /\ own[b] \in Nat
      /\ \A b \in Agents : policyIdx[b] # NotBuilt => own[b] <= policyIdx[b]
  BY DEF TypeOK, PolicyInv
<1>2. ASSUME NEW a \in Agents, NEW agents \in SUBSET Agents, NEW outcome \in Outcomes,
             ChangePolicy(a, agents, outcome)
      PROVE  PolicyInv'
  <2>1. Len(policies') \in Nat /\ Len(policies) <= Len(policies')
    <3>1. policies' = Stored(policies, agents, outcome) /\ policies \in Seq(SUBSET Agents)
      BY <1>2 DEF ChangePolicy, TypeOK
    <3>2. QED
      BY <1>2, <3>1, StoredGrows, ZenonT(40)
  <2>2. CASE outcome = "ok"
    <3>1. /\ policyIdx' = [policyIdx EXCEPT ![a] = NotBuilt]
          /\ own' = [own EXCEPT ![a] = Len(policies')]
      BY <1>2, <2>2 DEF ChangePolicy
    <3>2. own' \in [Agents -> Nat]
      BY <1>1, <2>1, <3>1
    <3>3. ASSUME NEW b \in Agents
          PROVE  /\ own'[b] <= Len(policies')
                 /\ policyIdx'[b] # NotBuilt => own'[b] <= policyIdx'[b]
      BY <1>1, <2>1, <3>1, <3>3
    <3>4. QED
      BY <3>2, <3>3 DEF PolicyInv
  <2>3. CASE outcome # "ok"
    <3>1. policyIdx' = policyIdx /\ own' = own
      BY <1>1, <1>2, <2>3 DEF ChangePolicy
    <3>2. \A b \in Agents : own[b] <= Len(policies')
      BY <1>1, <2>1
    <3>3. QED
      BY <1>1, <3>1, <3>2 DEF PolicyInv
  <2>4. QED
    BY <2>2, <2>3
<1>3. ASSUME NEW a \in Agents, NEW e \in Entries, NEW trusted \in BOOLEAN,
             PushAdmit(a, e, trusted)
      PROVE  PolicyInv'
  <2>1. /\ UNCHANGED <<policies, own>>
        /\ \/ policyIdx' = policyIdx
           \/ policyIdx' = [policyIdx EXCEPT ![a] = PolicyRead(a)]
    BY <1>1, <1>3 DEF PushAdmit, files
  <2>2. own[a] <= PolicyRead(a)
    BY <1>1, <1>3 DEF PolicyRead
  <2>3. \A b \in Agents : policyIdx'[b] # NotBuilt => own[b] <= policyIdx'[b]
    BY <1>1, <2>1, <2>2
  <2>4. QED
    BY <1>1, <2>1, <2>3 DEF PolicyInv
<1>4. ASSUME NEW a \in Agents, Restart(a) PROVE PolicyInv'
  <2>1. UNCHANGED <<policies, own>> /\ policyIdx' = [policyIdx EXCEPT ![a] = NotBuilt]
    BY <1>4 DEF Restart, files
  <2>2. \A b \in Agents : policyIdx'[b] # NotBuilt => own[b] <= policyIdx'[b]
    BY <1>1, <2>1
  <2>3. QED
    BY <1>1, <2>1, <2>2 DEF PolicyInv
<1>5. ASSUME UNCHANGED <<policies, policyIdx, own>> PROVE PolicyInv'
  BY <1>5 DEF PolicyInv
<1>6. QED
  BY <1>2, <1>3, <1>4, <1>5 DEF Next, PushProject, PushAppend, Pull, SessionEndSync, vars,
                                files, caches

\* A decision that admits an entry follows the policy it was read from.
LEMMA AdmitFollowsPolicy ==
    ASSUME TypeOK, PolicyInv, [Next]_vars, NEW b \in Agents, NEW x \in Entries,
           decided[b][x] = "none", decided'[b][x] = "allow"
    PROVE  \E v \in own[b] .. Len(policies) : Permits(v, b)
<1>1. PICK a \in Agents, e \in Entries, trusted \in BOOLEAN : PushAdmit(a, e, trusted)
  <2>1. ASSUME NEW a \in Agents, Restart(a) PROVE FALSE
    <3>1. /\ decided \in [Agents -> [Entries -> {"none", "allow", "deny"}]]
          /\ decided' = [decided EXCEPT ![a] = [e \in Entries |-> "none"]]
      BY <2>1 DEF TypeOK, Restart
    <3>2. decided'[b] = decided[b] \/ decided'[b] = [e \in Entries |-> "none"]
      BY <2>1, <3>1
    <3>3. QED
      BY <3>2
  <2>2. ASSUME decided' = decided PROVE FALSE
    BY <2>2
  <2>3. QED
    BY <2>1, <2>2 DEF Next, ChangePolicy, PushProject, PushAppend, Pull, SessionEndSync, vars,
                      caches
<1>2. /\ decided \in [Agents -> [Entries -> {"none", "allow", "deny"}]]
  BY DEF TypeOK
<1> DEFINE verdict == IF decided[a][e] # "none" THEN decided[a][e]
                      ELSE IF Rules(a, trusted) THEN "allow" ELSE "deny"
<1>3. decided' = [decided EXCEPT ![a][e] = verdict]
  BY <1>1 DEF PushAdmit
<1>4. a = b /\ e = x
  <2> HIDE DEF verdict
  <2>1. a = b
    BY <1>1, <1>2, <1>3
  <2>2. decided'[a] = [decided[a] EXCEPT ![e] = verdict]
    BY <1>1, <1>2, <1>3
  <2>3. decided[a] \in [Entries -> {"none", "allow", "deny"}]
    BY <1>1, <1>2
  <2>4. e = x
    BY <2>1, <2>2, <2>3
  <2>5. QED
    BY <2>1, <2>4
<1>5. verdict = "allow"
  <2> HIDE DEF verdict
  <2>1. decided'[a] = [decided[a] EXCEPT ![e] = verdict]
    BY <1>1, <1>2, <1>3
  <2>2. decided[a] \in [Entries -> {"none", "allow", "deny"}]
    BY <1>1, <1>2
  <2>3. QED
    BY <1>1, <1>4, <2>1, <2>2
<1>6. Permits(PolicyRead(a), a)
  BY <1>4, <1>5 DEF Rules
<1>7. own[a] \in Nat /\ PolicyRead(a) \in own[a] .. Len(policies)
  <2>1. PolicyRead(a) \in 0 .. Len(policies) /\ Len(policies) \in Nat
    BY <1>1, IndexReach
  <2>2. own[a] \in Nat /\ own[a] <= Len(policies)
        /\ (policyIdx[a] # NotBuilt => own[a] <= policyIdx[a])
    BY <1>1 DEF PolicyInv
  <2>3. own[a] <= PolicyRead(a)
    BY <2>2 DEF PolicyRead
  <2>4. QED
    BY <2>1, <2>2, <2>3
<1>8. QED
  BY <1>4, <1>6, <1>7

----------------------------------------------------------------------------
(* The rate limit *)

\* A finite set is no larger than what lies outside another one, and that one, together.
LEMMA SplitBound ==
    ASSUME NEW S, NEW A, IsFiniteSet(S), IsFiniteSet(A)
    PROVE  /\ IsFiniteSet(S \ A) /\ Cardinality(S) \in Nat
           /\ Cardinality(S \ A) \in Nat /\ Cardinality(A) \in Nat
           /\ Cardinality(S) <= Cardinality(S \ A) + Cardinality(A)
<1>1. (S \ A) \in SUBSET S
  OBVIOUS
<1>2. IsFiniteSet(S \ A)
  BY <1>1, FS_Subset
<1>3. /\ Cardinality(S) \in Nat /\ Cardinality(S \ A) \in Nat /\ Cardinality(A) \in Nat
  BY <1>2, FS_CardinalityType
<1>4. /\ IsFiniteSet((S \ A) \cup A)
      /\ Cardinality((S \ A) \cup A)
           = Cardinality(S \ A) + Cardinality(A) - Cardinality((S \ A) \cap A)
  BY <1>2, FS_Union
<1>5. (S \ A) \cap A = {}
  OBVIOUS
<1>6. Cardinality((S \ A) \cap A) = 0
  BY <1>5, FS_EmptySet
<1>7. S \in SUBSET ((S \ A) \cup A)
  OBVIOUS
<1>8. Cardinality(S) <= Cardinality((S \ A) \cup A)
  BY <1>4, <1>7, FS_Subset
<1>9. QED
  BY <1>2, <1>3, <1>4, <1>6, <1>8

\* What RateInv says of one agent.
Rated(a) ==
    /\ job[a] # Idle => job[a].source \in Allowed(a)
    /\ IsFiniteSet(Allowed(a)) /\ Cardinality(Allowed(a)) <= RateLimit
    /\ IsFiniteSet(Sources(a))
    /\ Cardinality(Sources(a) \ Allowed(a)) <= RateLimit * restarts

\* The bound only grows with the restarts.
LEMMA AllowanceGrows ==
    ASSUME NEW L \in Nat, NEW n \in Nat
    PROVE  L * n \in Nat /\ L * (n + 1) = L * n + L
<1>1. L * (n + 1) = L * n + L
  BY SMT
<1>2. L * n \in Nat
  BY SMT
<1>3. QED
  BY <1>1, <1>2

\* What an agent's contributions, decisions and call do not change keeps its bound.
LEMMA RateFrame ==
    ASSUME TypeOK, NEW b \in Agents, Rated(b),
           Sources(b)' = Sources(b), Allowed(b)' = Allowed(b),
           \/ job'[b] = Idle
           \/ job[b] # Idle /\ job'[b].source = job[b].source,
           restarts' = restarts \/ restarts' = restarts + 1
    PROVE  Rated(b)'
<1>1. /\ IsFiniteSet(Allowed(b)) /\ IsFiniteSet(Sources(b))
      /\ Cardinality(Allowed(b)) <= RateLimit
      /\ Cardinality(Sources(b) \ Allowed(b)) <= RateLimit * restarts
      /\ job[b] # Idle => job[b].source \in Allowed(b)
  BY DEF Rated
<1>2. Cardinality(Sources(b) \ Allowed(b)) \in Nat
  BY <1>1, SplitBound
<1>3. RateLimit \in Nat /\ restarts \in Nat
  BY CollectiveAssumption DEF TypeOK
<1>4. RateLimit * restarts \in Nat /\ RateLimit * (restarts + 1) = RateLimit * restarts + RateLimit
  BY <1>3, AllowanceGrows
<1>5. Cardinality(Sources(b) \ Allowed(b)) <= RateLimit * restarts'
  <2>1. CASE restarts' = restarts
    BY <1>1, <2>1
  <2>2. CASE restarts' = restarts + 1
    BY <1>1, <1>2, <1>3, <1>4, <2>2
  <2>3. QED
    BY <2>1, <2>2
<1>6. job'[b] # Idle => job'[b].source \in Allowed(b)
  BY <1>1
<1>7. QED
  BY <1>1, <1>5, <1>6 DEF Rated

\* Where the shard stays as it is, so do the sources an agent has in it; where the cache
\* of the decisions does, so does what it allows.
LEMMA RateSame ==
    ASSUME NEW b \in Agents
    PROVE  /\ shard' = shard => Sources(b)' = Sources(b)
           /\ decided'[b] = decided[b] => Allowed(b)' = Allowed(b)
BY DEF Sources, Allowed

\* An append adds the source of the push in progress to the sources of its agent.
LEMMA AppendSources ==
    ASSUME TypeOK, NEW a \in Agents, NEW outcome \in Outcomes, PushAppend(a, outcome),
           NEW b \in Agents
    PROVE  \/ Sources(b)' = Sources(b)
           \/ b = a /\ Sources(b)' = Sources(b) \cup {job[a].source}
<1> DEFINE c == [agent |-> a, source |-> job[a].source, prev |-> job[a].prev]
           n == Len(shard)
<1>1. /\ n \in Nat /\ DOMAIN shard = 1 .. n
      /\ Len(shard') \in Nat /\ DOMAIN shard' = 1 .. Len(shard')
      /\ n <= Len(shard') /\ Len(shard') <= n + 1
      /\ \A i \in 1 .. n : shard'[i] = shard[i]
      /\ Len(shard') = n + 1 => shard'[n + 1] = c
  BY AppendFacts
<1>2. c.agent = a /\ c.source = job[a].source
  OBVIOUS
<1> HIDE DEF c, n
<1>3. CASE Len(shard') = n
  <2>1. \A i \in 1 .. n : shard'[i] = shard[i]
    BY <1>1, Zenon
  <2>2. DOMAIN shard' = 1 .. n /\ DOMAIN shard = 1 .. n
    BY <1>1, <1>3
  <2>3. Sources(b)' = Sources(b)
    BY <2>1, <2>2 DEF Sources
  <2>4. QED
    BY <2>3
<1>4. CASE Len(shard') = n + 1
  <2>1. DOMAIN shard' = 1 .. n + 1 /\ DOMAIN shard = 1 .. n /\ shard'[n + 1] = c
    BY <1>1, <1>4
  <2>2. \A i \in 1 .. n + 1 : i \in 1 .. n \/ i = n + 1
    <3>1. n \in Nat
      BY <1>1, Zenon
    <3>2. QED
      BY <3>1
  <2>3. \A i \in 1 .. n : i \in 1 .. n + 1 /\ shard'[i] = shard[i]
    BY <1>1
  <2>4. n + 1 \in 1 .. n + 1
    BY <1>1
  <2>5. ASSUME NEW x \in Sources(b)'
        PROVE  x \in Sources(b) \/ (b = a /\ x = job[a].source)
    <3>1. PICK i \in 1 .. n + 1 : shard'[i].agent = b /\ x = shard'[i].source
      BY <2>1, <2>5 DEF Sources
    <3>2. CASE i = n + 1
      BY <1>2, <2>1, <3>1, <3>2
    <3>3. CASE i \in 1 .. n
      BY <2>1, <2>3, <3>1, <3>3 DEF Sources
    <3>4. QED
      BY <2>2, <3>1, <3>2, <3>3
  <2>6. ASSUME NEW x \in Sources(b)
        PROVE  x \in Sources(b)'
    <3>1. PICK i \in 1 .. n : shard[i].agent = b /\ x = shard[i].source
      BY <2>1, <2>6 DEF Sources
    <3>2. QED
      BY <2>1, <2>3, <3>1 DEF Sources
  <2>7. b = a => job[a].source \in Sources(b)'
    BY <1>2, <2>1, <2>4 DEF Sources
  <2>8. CASE b = a
    <3>1. Sources(b)' = Sources(b) \cup {job[a].source}
      BY <2>5, <2>6, <2>7, <2>8
    <3>2. QED
      BY <2>8, <3>1
  <2>9. CASE b # a
    <3>1. Sources(b)' = Sources(b)
      BY <2>5, <2>6, <2>9, Zenon
    <3>2. QED
      BY <3>1
  <2>10. QED
    BY <2>8, <2>9
<1>5. Len(shard') = n \/ Len(shard') = n + 1
  <2>1. n \in Nat /\ Len(shard') \in Nat /\ n <= Len(shard') /\ Len(shard') <= n + 1
    BY <1>1, Zenon
  <2>2. QED
    BY <2>1
<1>6. QED
  BY <1>3, <1>4, <1>5

\* No process allows, or has in the shard, more than the limit and its restarts give it.
LEMMA RateStep ==
    ASSUME TypeOK, RateInv, [Next]_vars
    PROVE  RateInv'
<1>1. \A b \in Agents : Rated(b)
  BY DEF RateInv, Rated
<1>2. /\ decided \in [Agents -> [Entries -> {"none", "allow", "deny"}]]
      /\ job \in [Agents -> Jobs] /\ restarts \in Nat /\ RateLimit \in Nat
  BY CollectiveAssumption DEF TypeOK
<1>3. SUFFICES \A b \in Agents : Rated(b)'
  BY DEF RateInv, Rated
<1>4. ASSUME UNCHANGED <<shard, decided, job, restarts>> PROVE \A b \in Agents : Rated(b)'
  <2>1. ASSUME NEW b \in Agents PROVE Rated(b)'
    <3>1. Sources(b)' = Sources(b) /\ Allowed(b)' = Allowed(b)
      BY <1>4, <2>1, RateSame
    <3>2. QED
      BY <1>1, <1>4, <2>1, <3>1 DEF Rated
  <2>2. QED
    BY <2>1
<1>5. ASSUME NEW a \in Agents, PushProject(a) PROVE \A b \in Agents : Rated(b)'
  <2>1. /\ UNCHANGED <<shard, decided, restarts>> /\ job[a].kind = "project"
        /\ job' = [job EXCEPT ![a] = [kind |-> "append", source |-> job[a].source,
                                      prev |-> LastHashForAgent(a)]]
    BY <1>5 DEF PushProject, files
  <2>2. job[a] # Idle
    BY <2>1 DEF Idle
  <2>3. ASSUME NEW b \in Agents PROVE Rated(b)'
    <3>1. Sources(b)' = Sources(b) /\ Allowed(b)' = Allowed(b)
      BY <2>1, <2>3, RateSame
    <3>2. job'[b] = job[b] \/ (job[b] # Idle /\ job'[b].source = job[b].source)
      <4>1. CASE b = a
        BY <1>2, <1>5, <2>1, <2>2, <4>1
      <4>2. CASE b # a
        BY <1>2, <2>1, <4>2
      <4>3. QED
        BY <4>1, <4>2
    <3>3. job'[b] = Idle \/ (job[b] # Idle /\ job'[b].source = job[b].source)
      BY <3>2
    <3>4. QED
      BY <1>1, <2>1, <2>3, <3>1, <3>3, RateFrame
  <2>4. QED
    BY <2>3
<1>6. ASSUME NEW a \in Agents, NEW outcome \in Outcomes, PushAppend(a, outcome)
      PROVE  \A b \in Agents : Rated(b)'
  <2>1. UNCHANGED <<decided, restarts>> /\ job' = [job EXCEPT ![a] = Idle]
    BY <1>6 DEF PushAppend
  <2>2. job[a] # Idle
    BY <1>6, AppendFacts
  <2>3. ASSUME NEW b \in Agents PROVE Rated(b)'
    <3>1. Allowed(b)' = Allowed(b)
      BY <2>1, <2>3, RateSame
    <3>2. job'[b] = Idle \/ job'[b] = job[b]
      BY <1>2, <2>1, <2>3
    <3>3. CASE Sources(b)' = Sources(b)
      BY <1>1, <2>1, <2>3, <3>1, <3>2, <3>3, RateFrame
    <3>4. CASE b = a /\ Sources(b)' = Sources(b) \cup {job[a].source}
      <4>1. Rated(b) /\ job[a].source \in Allowed(b)
        BY <1>1, <2>2, <2>3, <3>4 DEF Rated
      <4>2. Sources(b)' \ Allowed(b) = Sources(b) \ Allowed(b)
        BY <3>4, <4>1
      <4>3. IsFiniteSet(Sources(b)')
        <5>1. IsFiniteSet(Sources(b))
          BY <4>1 DEF Rated
        <5>2. IsFiniteSet(Sources(b) \cup {job[a].source})
          BY <5>1, AddOne
        <5>3. QED
          BY <3>4, <5>2
      <4>4. job'[b] = Idle
        BY <1>2, <2>1, <2>3, <3>4
      <4>5. QED
        BY <2>1, <3>1, <4>1, <4>2, <4>3, <4>4 DEF Rated
    <3>5. QED
      BY <1>6, <2>3, <3>3, <3>4, AppendSources
  <2>4. QED
    BY <2>3
<1>7. ASSUME NEW a \in Agents, Restart(a) PROVE \A b \in Agents : Rated(b)'
  <2>1. /\ shard' = shard /\ restarts' = restarts + 1 /\ job' = [job EXCEPT ![a] = Idle]
        /\ decided' = [decided EXCEPT ![a] = [e \in Entries |-> "none"]]
    BY <1>7 DEF Restart, files
  <2>2. ASSUME NEW b \in Agents, b # a PROVE Rated(b)'
    <3>1. decided'[b] = decided[b] /\ job'[b] = job[b]
      BY <1>2, <2>1, <2>2
    <3>2. Sources(b)' = Sources(b) /\ Allowed(b)' = Allowed(b)
      BY <2>1, <2>2, <3>1, RateSame
    <3>3. job'[b] = Idle \/ (job[b] # Idle /\ job'[b].source = job[b].source)
      BY <3>1
    <3>4. QED
      BY <1>1, <2>1, <2>2, <3>2, <3>3, RateFrame
  <2>3. Rated(a)'
    <3>1. Allowed(a)' = {}
      <4>1. decided'[a] = [e \in Entries |-> "none"]
        BY <1>2, <1>7, <2>1
      <4>2. QED
        BY <4>1 DEF Allowed
    <3>2. Sources(a)' = Sources(a)
      BY <1>7, <2>1, RateSame
    <3>3. job'[a] = Idle
      BY <1>2, <1>7, <2>1
    <3>4. /\ IsFiniteSet(Sources(a)) /\ IsFiniteSet(Allowed(a))
          /\ Cardinality(Allowed(a)) <= RateLimit
          /\ Cardinality(Sources(a) \ Allowed(a)) <= RateLimit * restarts
      BY <1>1, <1>7 DEF Rated
    <3>5. /\ Cardinality(Sources(a)) \in Nat /\ Cardinality(Sources(a) \ Allowed(a)) \in Nat
          /\ Cardinality(Allowed(a)) \in Nat
          /\ Cardinality(Sources(a)) <= Cardinality(Sources(a) \ Allowed(a))
                                        + Cardinality(Allowed(a))
      BY <3>4, SplitBound
    <3>6. /\ RateLimit * restarts \in Nat
          /\ RateLimit * (restarts + 1) = RateLimit * restarts + RateLimit
      BY <1>2, AllowanceGrows
    <3>7. Cardinality(Sources(a)) <= RateLimit * restarts'
      BY <1>2, <2>1, <3>4, <3>5, <3>6
    <3>8. Sources(a)' \ Allowed(a)' = Sources(a)
      BY <3>1, <3>2
    <3>9. IsFiniteSet({}) /\ Cardinality({}) = 0
      BY FS_EmptySet
    <3>10. IsFiniteSet(Allowed(a)') /\ Cardinality(Allowed(a)') <= RateLimit
      BY <1>2, <3>1, <3>9
    <3>11. QED
      BY <3>2, <3>3, <3>4, <3>7, <3>8, <3>10 DEF Rated
  <2>4. QED
    BY <2>2, <2>3
<1>8. ASSUME NEW a \in Agents, NEW e \in Entries, NEW trusted \in BOOLEAN,
             PushAdmit(a, e, trusted)
      PROVE  \A b \in Agents : Rated(b)'
  <2> DEFINE verdict == IF decided[a][e] # "none" THEN decided[a][e]
                        ELSE IF Rules(a, trusted) THEN "allow" ELSE "deny"
  <2>1. /\ UNCHANGED <<shard, restarts>> /\ decided' = [decided EXCEPT ![a][e] = verdict]
        /\ job' = [job EXCEPT ![a] = IF verdict = "allow"
                                     THEN [kind |-> "project", source |-> e] ELSE Idle]
        /\ job[a] = Idle
    BY <1>8 DEF PushAdmit, files, Call
  <2>2. \/ verdict = decided[a][e]
        \/ verdict = "deny" /\ decided[a][e] = "none"
        \/ verdict = "allow" /\ decided[a][e] = "none"
             /\ Cardinality(Allowed(a)) < RateLimit
    <3>1. Rules(a, trusted) => Cardinality(Allowed(a)) < RateLimit
      BY DEF Rules, Admissions, Allowed
    <3>2. QED
      BY <3>1
  <2> HIDE DEF verdict
  <2>3. ASSUME NEW b \in Agents, b # a PROVE Rated(b)'
    <3>1. decided'[b] = decided[b] /\ job'[b] = job[b]
      BY <1>2, <2>1, <2>3
    <3>2. Sources(b)' = Sources(b) /\ Allowed(b)' = Allowed(b)
      BY <2>1, <2>3, <3>1, RateSame
    <3>3. job'[b] = Idle \/ (job[b] # Idle /\ job'[b].source = job[b].source)
      BY <3>1
    <3>4. QED
      BY <1>1, <2>1, <2>3, <3>2, <3>3, RateFrame
  <2>4. Rated(a)'
    <3>1. /\ decided'[a] = [decided[a] EXCEPT ![e] = verdict]
          /\ decided[a] \in [Entries -> {"none", "allow", "deny"}]
      BY <1>2, <1>8, <2>1
    <3>2. /\ decided'[a][e] = verdict
          /\ \A x \in Entries : x # e => decided'[a][x] = decided[a][x]
      BY <1>8, <3>1
    <3>3. Allowed(a)' = {x \in Entries : decided'[a][x] = "allow"}
      BY DEF Allowed
    <3>4. Sources(a)' = Sources(a)
      BY <1>8, <2>1, RateSame
    <3>5. /\ job'[a] = IF verdict = "allow" THEN [kind |-> "project", source |-> e] ELSE Idle
      BY <1>2, <1>8, <2>1
    <3>6. job'[a] # Idle => job'[a].source \in Allowed(a)'
      BY <1>8, <3>2, <3>3, <3>5
    <3>7. /\ IsFiniteSet(Sources(a)) /\ IsFiniteSet(Allowed(a))
          /\ Cardinality(Allowed(a)) <= RateLimit
          /\ Cardinality(Sources(a) \ Allowed(a)) <= RateLimit * restarts
      BY <1>1, <1>8 DEF Rated
    <3>8. CASE \/ verdict = decided[a][e]
               \/ verdict = "deny" /\ decided[a][e] = "none"
      <4>1. \A x \in Entries : decided'[a][x] = "allow" <=> decided[a][x] = "allow"
        BY <3>2, <3>8
      <4>2. Allowed(a)' = Allowed(a)
        BY <3>3, <4>1 DEF Allowed
      <4>3. QED
        BY <2>1, <3>4, <3>6, <3>7, <4>2 DEF Rated
    <3>9. CASE verdict = "allow" /\ Cardinality(Allowed(a)) < RateLimit
      <4>1. \A x \in Entries : decided'[a][x] = "allow" <=> (decided[a][x] = "allow" \/ x = e)
        BY <3>2, <3>9
      <4>2. Allowed(a)' = Allowed(a) \cup {e}
        BY <1>8, <3>3, <4>1 DEF Allowed
      <4>3. /\ IsFiniteSet(Allowed(a) \cup {e}) /\ Cardinality(Allowed(a)) \in Nat
            /\ Cardinality(Allowed(a) \cup {e}) \in Nat
            /\ Cardinality(Allowed(a) \cup {e}) <= Cardinality(Allowed(a)) + 1
        BY <3>7, AddOne
      <4>4. Cardinality(Allowed(a) \cup {e}) <= RateLimit
        BY <1>2, <3>9, <4>3
      <4>5. IsFiniteSet(Sources(a) \ Allowed(a))
        BY <3>7, SplitBound
      <4>6. (Sources(a) \ (Allowed(a) \cup {e})) \in SUBSET (Sources(a) \ Allowed(a))
        OBVIOUS
      <4>7. /\ IsFiniteSet(Sources(a) \ (Allowed(a) \cup {e}))
            /\ Cardinality(Sources(a) \ (Allowed(a) \cup {e}))
                 <= Cardinality(Sources(a) \ Allowed(a))
        BY <4>5, <4>6, FS_Subset
      <4>8. /\ Cardinality(Sources(a) \ (Allowed(a) \cup {e})) \in Nat
            /\ Cardinality(Sources(a) \ Allowed(a)) \in Nat
        BY <4>5, <4>7, FS_CardinalityType
      <4>9. RateLimit * restarts \in Nat
        BY <1>2, AllowanceGrows
      <4>10. Cardinality(Sources(a) \ (Allowed(a) \cup {e})) <= RateLimit * restarts
        BY <3>7, <4>7, <4>8, <4>9
      <4>11. QED
        BY <2>1, <3>4, <3>6, <3>7, <4>2, <4>3, <4>4, <4>10 DEF Rated
    <3>10. QED
      BY <2>2, <3>8, <3>9, Zenon
  <2>5. QED
    BY <2>3, <2>4
<1>9. QED
  BY <1>4, <1>5, <1>6, <1>7, <1>8 DEF Next, ChangePolicy, Pull, SessionEndSync, vars, files,
                                      caches

----------------------------------------------------------------------------
(* The theorems *)

\* The invariant holds at the start.
LEMMA CollectiveStart ==
    ASSUME Init
    PROVE  CollectiveInv
<1> USE CollectiveAssumption
<1>1. Len(shard) = 0 /\ DOMAIN shard = {} /\ shard \in Seq(Contribution)
  BY DEF Init
<1>2. policies \in Seq(SUBSET Agents) /\ Len(policies) \in Nat
  <2>1. Agents \in SUBSET Agents
    OBVIOUS
  <2>2. policies = <<>> \/ policies = <<Agents>>
    BY DEF Init
  <2>3. ASSUME NEW S, NEW x \in S PROVE <<x>> \in Seq(S) /\ Len(<<x>>) \in Nat
    OBVIOUS
  <2>4. <<Agents>> \in Seq(SUBSET Agents) /\ Len(<<Agents>>) \in Nat
    BY <2>1, <2>3, Zenon
  <2>5. CASE policies = <<>>
    BY <2>5
  <2>6. CASE policies = <<Agents>>
    BY <2>4, <2>6, Zenon
  <2>7. QED
    BY <2>2, <2>5, <2>6
<1>3. TypeOK
  BY <1>1, <1>2 DEF Init, TypeOK, Jobs, NotBuilt, NoHash
<1>4. CallInv
  <2>1. Pushing = {}
    BY DEF Init, Pushing
  <2>2. QED
    BY <1>1, <2>1, FS_EmptySet DEF Init, CallInv
<1>5. IndexInv
  BY DEF Init, IndexInv, Idle
<1>6. CursorInv
  BY DEF Init, CursorInv
<1>7. PolicyInv
  BY <1>2 DEF Init, PolicyInv
<1>8. RateInv
  <2>1. \A a \in Agents : Allowed(a) = {}
    BY DEF Init, Allowed
  <2>2. \A a \in Agents : Sources(a) = {}
    BY <1>1 DEF Sources
  <2>3. RateLimit * restarts = 0
    BY DEF Init
  <2>4. \A a \in Agents : job[a] = Idle
    BY DEF Init
  <2>5. QED
    BY <2>1, <2>2, <2>3, <2>4, FS_EmptySet DEF RateInv
<1>9. AgentChain /\ NothingSkipped
  BY <1>1 DEF Init, AgentChain, NothingSkipped
<1>10. QED
  BY <1>3, <1>4, <1>5, <1>6, <1>7, <1>8, <1>9 DEF CollectiveInv

\* Every step keeps it.
LEMMA CollectiveStep ==
    ASSUME CollectiveInv, [Next]_vars
    PROVE  CollectiveInv'
BY TypeStep, CallStep, IndexStep, ChainStep, ReaderStep, PolicyStep, RateStep
DEF CollectiveInv

\* The invariant, for every behaviour.
THEOREM CollectiveInvariant == Spec => []CollectiveInv
<1>1. Init => CollectiveInv
  BY CollectiveStart
<1>2. CollectiveInv /\ [Next]_vars => CollectiveInv'
  BY CollectiveStep
<1>3. QED
  BY <1>1, <1>2, PTL DEF Spec

\* SovereigntyPolicy, NeutralOrchestrator, CollectiveShard and ShardSyncEngine keep their
\* shards, caches and cursors well formed: no index and no cursor is ahead of the shard.
THEOREM CollectiveTypes == Spec => []TypeOK
<1>1. CollectiveInv => TypeOK
  BY DEF CollectiveInv
<1>2. QED
  BY <1>1, CollectiveInvariant, PTL

\* ShardSyncEngine.push: whatever other agents append between the projection and the
\* append, and whichever appends fail, the agent_prev_hash of a contribution passes over
\* none of its agent's admitted contributions and names none of another agent.
THEOREM ContributionsChained == Spec => []AgentChain
<1>1. CollectiveInv => AgentChain
  BY DEF CollectiveInv
<1>2. QED
  BY <1>1, CollectiveInvariant, PTL

\* ShardSyncEngine.pull: a reader that passes on the last hash it was given leaves no gap,
\* for every window, limit and interleaving, and sync_log counts what it was given.
THEOREM ReadersMissNothing == Spec => []NothingSkipped
<1>1. CollectiveInv => NothingSkipped
  BY DEF CollectiveInv
<1>2. QED
  BY <1>1, CollectiveInvariant, PTL

\* RateLimitRule over the cache of NeutralOrchestrator: the private entries an agent has in
\* the collective are bounded by one allowance for each life of its process.
THEOREM AdmissionsBounded == Spec => []RateBound
<1>1. ASSUME CollectiveInv
      PROVE  RateBound
  <2>1. ASSUME NEW a \in Agents
        PROVE  Cardinality(Sources(a)) <= RateLimit * (1 + restarts)
    <3>1. /\ IsFiniteSet(Sources(a)) /\ IsFiniteSet(Allowed(a))
          /\ Cardinality(Allowed(a)) <= RateLimit
          /\ Cardinality(Sources(a) \ Allowed(a)) <= RateLimit * restarts
      BY <1>1, <2>1 DEF CollectiveInv, RateInv
    <3>2. /\ Cardinality(Sources(a)) \in Nat /\ Cardinality(Sources(a) \ Allowed(a)) \in Nat
          /\ Cardinality(Allowed(a)) \in Nat
          /\ Cardinality(Sources(a)) <= Cardinality(Sources(a) \ Allowed(a))
                                        + Cardinality(Allowed(a))
      BY <3>1, SplitBound
    <3>3. RateLimit \in Nat /\ restarts \in Nat
      BY <1>1, CollectiveAssumption DEF CollectiveInv, TypeOK
    <3>4. /\ RateLimit * restarts \in Nat
          /\ RateLimit * (restarts + 1) = RateLimit * restarts + RateLimit
      BY <3>3, AllowanceGrows
    <3>5. 1 + restarts = restarts + 1
      BY <3>3
    <3>6. QED
      BY <3>1, <3>2, <3>3, <3>4, <3>5
  <2>2. QED
    BY <2>1 DEF RateBound, Sources
<1>2. QED
  BY <1>1, CollectiveInvariant, PTL

\* NeutralOrchestrator.evaluate over SovereigntyPolicy.allows: a new decision never follows
\* a policy older than the last change the process made itself.
THEOREM OwnPolicyRead == Spec => ReadsOwnPolicy
<1> DEFINE A == \A a \in Agents, e \in Entries :
                  decided[a][e] = "none" /\ decided'[a][e] = "allow"
                  => \E v \in own[a] .. Len(policies) : Permits(v, a)
<1>1. CollectiveInv /\ [Next]_vars => [A]_vars
  BY AdmitFollowsPolicy DEF CollectiveInv
<1>2. ReadsOwnPolicy <=> [][A]_vars
  BY PTL DEF ReadsOwnPolicy
<1>3. QED
  BY <1>1, <1>2, CollectiveInvariant, PTL DEF Spec
=============================================================================
