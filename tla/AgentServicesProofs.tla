------------------------ MODULE AgentServicesProofs ------------------------
(* Theorems about the services of MCAgentServices, for every value of the   *)
(* constants it declares.                                                   *)
EXTENDS MCAgentServices, OrderLemmas

-----------------------------------------------------------------------------
(* Identity: revocation and the past.                                       *)

\* Lines of the identity_registry shard and of the identity shard.
RegistryLines == [event: {"register", "revoke"}, owner: Owners, at: Nat]
IdentityLines == [event: Identity!ChangeEvents \cup {"genesis"}, skills: SUBSET Skills,
                  version: Nat, at: Nat]
Scores == [score: {"none", "zero", "aged", "base"}, at: Nat]

IdentityTypes ==
  /\ rlog \in Seq(RegistryLines)
  /\ ridx \in [Procs -> Int]
  /\ deep \in [Procs -> Scores]
  /\ told \in [Procs -> Nat]
  /\ ilog \in Seq(IdentityLines)
  /\ version \in [Procs -> Nat]
  /\ itime \in Nat

\* A process that revoked remembers a revocation, and unless somebody has
\* registered the agent since, it has no score cached and no index from before.
Forgotten(p) ==
  /\ told[p] # 0 => told[p] \in 1..Len(rlog) /\ rlog[told[p]].event = "revoke"
  /\ ridx[p] # Identity!NoIdx => ridx[p] \in 0..Len(rlog)
  /\ told[p] # 0 /\ (\A i \in told[p]..Len(rlog) : rlog[i].event # "register")
       => deep[p] = Identity!NoDeep /\ (ridx[p] # Identity!NoIdx => told[p] <= ridx[p])

\* The moments that are over are as the log says now.
PastHeld == past = [t \in 1..itime |-> Identity!ReplayIdentity(t - 1)]

\* The inductive invariant of the identity records.
IdentityInv == IdentityTypes /\ (\A p \in Procs : Forgotten(p)) /\ PastHeld

\* No event, no process, no time.
LEMMA IdentityStarts == Identity!IrInit => IdentityInv
<1> SUFFICES ASSUME Identity!IrInit PROVE IdentityInv
  OBVIOUS
<1>1. /\ rlog = <<>> /\ ridx = [p \in Procs |-> Identity!NoIdx]
      /\ deep = [p \in Procs |-> Identity!NoDeep] /\ told = [p \in Procs |-> 0] /\ ilog = <<>>
      /\ version = [p \in Procs |-> 0] /\ past = <<>> /\ itime = 0
  BY DEF Identity!IrInit
<1>2. Identity!NoDeep \in Scores /\ Identity!NoIdx \in Int
  BY DEF Identity!NoDeep, Scores, Identity!NoIdx
<1>3. IdentityTypes
  BY <1>1, <1>2 DEF IdentityTypes
<1>4. \A p \in Procs : Forgotten(p)
  BY <1>1 DEF Forgotten
<1>5. PastHeld
  BY <1>1 DEF PastHeld
<1>6. QED
  BY <1>3, <1>4, <1>5 DEF IdentityInv

\* An entry written now does not change what replay reads of an earlier time.
LEMMA EarlierUnchanged ==
    ASSUME ilog \in Seq(IdentityLines), itime \in Nat, NEW t \in Nat, t < itime,
           NEW e \in IdentityLines, e.at = itime, ilog' = Append(ilog, e)
    PROVE  Identity!ReplayIdentity(t)' = Identity!ReplayIdentity(t)
<1> DEFINE P == {j \in 1..Len(ilog) : ilog[j].at <= t}
           Q == {j \in 1..Len(ilog') : ilog'[j].at <= t}
<1>1. /\ Len(ilog) \in Nat /\ Len(ilog') = Len(ilog) + 1 /\ ilog'[Len(ilog) + 1] = e
      /\ \A j \in 1..Len(ilog) : ilog'[j] = ilog[j]
  OBVIOUS
<1>2. ~(e.at <= t)
  OBVIOUS
<1>3. P = Q
  <2>1. \A j \in 1..Len(ilog') : j \in 1..Len(ilog) \/ j = Len(ilog) + 1
    BY <1>1
  <2>2. \A j \in 1..Len(ilog) : j \in 1..Len(ilog')
    BY <1>1
  <2>3. QED
    BY <2>1, <2>2, <1>1, <1>2
<1>4. [i \in P |-> ilog[i]] = [i \in Q |-> ilog'[i]]
  BY <1>1, <1>3
<1>5. Identity!UpTo(t)' = Identity!UpTo(t)
  BY <1>4 DEF Identity!UpTo
<1>6. QED
  BY <1>5 DEF Identity!ReplayIdentity

\* So the past stays as it was recorded.
LEMMA PastKept ==
    ASSUME IdentityTypes, PastHeld, UNCHANGED <<past, itime>>,
           \/ UNCHANGED ilog
           \/ \E e \in IdentityLines : e.at = itime /\ ilog' = Append(ilog, e)
    PROVE  PastHeld'
<1>1. \A t \in 1..itime : Identity!ReplayIdentity(t - 1)' = Identity!ReplayIdentity(t - 1)
  <2>1. CASE UNCHANGED ilog
    BY <2>1 DEF Identity!ReplayIdentity, Identity!UpTo
  <2>2. CASE \E e \in IdentityLines : e.at = itime /\ ilog' = Append(ilog, e)
    <3>1. ASSUME NEW t \in 1..itime
          PROVE  t - 1 \in Nat /\ t - 1 < itime
      BY DEF IdentityTypes
    <3>2. QED
      BY <2>2, <3>1, EarlierUnchanged DEF IdentityTypes
  <2>3. QED
    BY <2>1, <2>2
<1>2. QED
  BY <1>1 DEF PastHeld

\* A process that revoked the agent, and has seen no registration since, reads
\* the revocation and trusts nobody.
LEMMA NobodyTrusted ==
    ASSUME IdentityTypes, NEW p \in Procs, Forgotten(p), told[p] # 0,
           \A i \in told[p]..Len(rlog) : rlog[i].event # "register"
    PROVE  /\ Identity!Resolve(p) = "none" /\ Identity!TrustScore(p) = "zero"
           /\ Identity!DeepTrustScore(p) = "zero"
<1> DEFINE n == Identity!Indexed(p)
           regs == {i \in 1..n : rlog[i].event = "register"}
<1>1. Len(rlog) \in Nat /\ told[p] \in 1..Len(rlog) /\ rlog[told[p]].event = "revoke"
  BY DEF Forgotten, IdentityTypes
<1>2. n \in Nat /\ n <= Len(rlog) /\ told[p] <= n
  BY <1>1 DEF Forgotten, Identity!Indexed
<1>3. \A i \in regs : i \in Nat /\ i < told[p]
  BY <1>1, <1>2
<1>4. Identity!Rec(p).revoked
  <2>1. CASE regs = {}
    BY <2>1 DEF Identity!Rec, Identity!Folded, Identity!NoRec
  <2>2. CASE regs # {}
    <3> DEFINE r == Identity!Max(regs)
    <3>1. \E i \in regs : \A j \in regs : i >= j
      <4>1. \E i \in regs : \A j \in regs : j <= i
        BY <2>2, <1>2, GreatestPosition
      <4>2. QED
        BY <4>1, <1>3
    <3>2. r \in regs
      BY <3>1, Zenon DEF Identity!Max
    <3>3. r \in Nat /\ told[p] \in r + 1..n
      BY <3>2, <1>1, <1>2, <1>3
    <3> HIDE DEF r
    <3>4. \E i \in r + 1..n : rlog[i].event = "revoke"
      BY <3>3, <1>1
    <3>5. Identity!Rec(p) = [owner |-> rlog[r].owner, at |-> rlog[r].at,
                             revoked |-> \E i \in r + 1..n : rlog[i].event = "revoke"]
      BY <2>2 DEF Identity!Rec, Identity!Folded, r
    <3>6. QED
      BY <3>4, <3>5
  <2>3. QED
    BY <2>1, <2>2
<1>5. deep[p] = Identity!NoDeep
  BY DEF Forgotten
<1>6. QED
  BY <1>4, <1>5 DEF Identity!Resolve, Identity!TrustScore, Identity!DeepTrustScore

\* An event more in the registry, written by another process or one that
\* dropped its index, leaves Forgotten as it was.
LEMMA StillForgotten ==
    ASSUME IdentityTypes, NEW p \in Procs, Forgotten(p), NEW e \in RegistryLines,
           rlog' = Append(rlog, e), told'[p] = told[p], deep'[p] = deep[p],
           ridx'[p] \in {ridx[p], Identity!NoIdx}
    PROVE  Forgotten(p)'
<1>1. /\ Len(rlog) \in Nat /\ Len(rlog') = Len(rlog) + 1
      /\ \A i \in 1..Len(rlog) : rlog'[i] = rlog[i]
  BY DEF IdentityTypes
<1>2. told[p] # 0 => told[p] \in 1..Len(rlog) /\ rlog[told[p]].event = "revoke"
  BY DEF Forgotten
<1>3. told'[p] # 0 => told'[p] \in 1..Len(rlog') /\ rlog'[told'[p]].event = "revoke"
  BY <1>1, <1>2
<1>4. ridx'[p] # Identity!NoIdx => ridx'[p] \in 0..Len(rlog')
  BY <1>1 DEF Forgotten
<1>5. ASSUME told'[p] # 0, \A i \in told'[p]..Len(rlog') : rlog'[i].event # "register"
      PROVE  deep'[p] = Identity!NoDeep /\ (ridx'[p] # Identity!NoIdx => told'[p] <= ridx'[p])
  <2>1. \A i \in told[p]..Len(rlog) : i \in 1..Len(rlog) /\ i \in told'[p]..Len(rlog')
    BY <1>1, <1>2, <1>5
  <2>2. \A i \in told[p]..Len(rlog) : rlog[i].event # "register"
    BY <2>1, <1>1, <1>5
  <2>3. QED
    BY <2>2, <1>5 DEF Forgotten
<1>6. QED
  BY <1>3, <1>4, <1>5 DEF Forgotten

\* A step that leaves the registry and a process alone leaves Forgotten alone.
LEMMA ForgottenAlone ==
    ASSUME NEW p \in Procs, Forgotten(p), UNCHANGED rlog,
           told'[p] = told[p], deep'[p] = deep[p], ridx'[p] = ridx[p]
    PROVE  Forgotten(p)'
BY DEF Forgotten

\* Every step of the identity services keeps the invariant.
LEMMA IdentitySteps ==
    ASSUME IdentityInv, Identity!IrNext
    PROVE  IdentityInv'
<1>t. IdentityTypes /\ (\A p \in Procs : Forgotten(p)) /\ PastHeld
  BY DEF IdentityInv
<1>y. /\ rlog \in Seq(RegistryLines) /\ ridx \in [Procs -> Int] /\ deep \in [Procs -> Scores]
      /\ told \in [Procs -> Nat] /\ ilog \in Seq(IdentityLines) /\ version \in [Procs -> Nat]
      /\ itime \in Nat /\ Len(rlog) \in Nat
  BY <1>t DEF IdentityTypes
<1>n. Identity!NoDeep \in Scores /\ Identity!NoIdx \in Int
  BY DEF Identity!NoDeep, Scores, Identity!NoIdx
<1>i. \A p \in Procs : Identity!Indexed(p) \in 0..Len(rlog)
  BY <1>t, <1>y DEF Identity!Indexed, Forgotten
<1>1. CASE Identity!ITick
  <2>1. /\ itime' = itime + 1 /\ past' = Append(past, Identity!ReplayIdentity(itime))
        /\ UNCHANGED <<rlog, ridx, deep, told, ilog, version>>
    BY <1>1 DEF Identity!ITick
  <2>2. IdentityTypes'
    BY <2>1, <1>y DEF IdentityTypes
  <2>3. \A p \in Procs : Forgotten(p)'
    BY <2>1, <1>t, ForgottenAlone
  <2>4. PastHeld'
    <3> DEFINE n == itime
               f == [t \in 1..n |-> Identity!ReplayIdentity(t - 1)]
               g == [t \in 1..(n + 1) |-> Identity!ReplayIdentity(t - 1)]
               S == {g[t] : t \in 1..(n + 1)}
    <3>1. past = f /\ n \in Nat
      BY <1>t, <1>y DEF PastHeld
    <3>2. f \in Seq(S) /\ Len(f) = n /\ g \in Seq(S) /\ Len(g) = n + 1
      <4>1. \A t \in 1..n : t \in 1..(n + 1) /\ f[t] = g[t]
        BY <3>1
      <4>2. f \in [1..n -> S] /\ g \in [1..(n + 1) -> S]
        BY <4>1
      <4> HIDE DEF f, g, S
      <4>3. QED
        BY <4>2, <3>1
    <3>3. g[n + 1] = Identity!ReplayIdentity(n)
      <4>1. n + 1 \in 1..(n + 1) /\ (n + 1) - 1 = n
        BY <3>1
      <4>2. QED
        BY <4>1
    <3>4. g[n + 1] \in S
      BY <3>1
    <3>5. \A t \in 1..n : f[t] = g[t]
      BY <3>1
    <3> HIDE DEF f, g, S
    <3>6. Append(f, g[n + 1]) = g
      BY <3>1, <3>2, <3>4, <3>5
    <3>7. past' = g
      BY <2>1, <3>1, <3>3, <3>6
    <3>8. \A t \in 1..(n + 1) : Identity!ReplayIdentity(t - 1)' = Identity!ReplayIdentity(t - 1)
      BY <2>1 DEF Identity!ReplayIdentity, Identity!UpTo
    <3>9. QED
      BY <2>1, <3>7, <3>8 DEF g, PastHeld
  <2>5. QED
    BY <2>2, <2>3, <2>4 DEF IdentityInv
<1>2. ASSUME NEW p \in Procs, Identity!ReadTrust(p)
      PROVE  IdentityInv'
  <2> DEFINE d == IF deep[p] # Identity!NoDeep /\ itime - deep[p].at < DeepTtl THEN deep[p]
                  ELSE IF Identity!TrustScore(p) = "zero" THEN deep[p]
                  ELSE [score |-> Identity!TrustScore(p), at |-> itime]
  <2>1. /\ ridx' = [ridx EXCEPT ![p] = Identity!Indexed(p)]
        /\ deep' = [deep EXCEPT ![p] = d]
        /\ UNCHANGED <<rlog, told, ilog, version, past, itime>>
    BY <1>2 DEF Identity!ReadTrust
  <2>2. Identity!TrustScore(p) \in {"zero", "aged", "base"}
    BY DEF Identity!TrustScore
  <2>3. d \in Scores
    <3>1. [score |-> Identity!TrustScore(p), at |-> itime] \in Scores
      BY <2>2, <1>y DEF Scores
    <3>2. QED
      BY <3>1, <1>y, <1>2
  <2>4. deep[p] = Identity!NoDeep /\ Identity!TrustScore(p) = "zero" => d = Identity!NoDeep
    OBVIOUS
  <2> HIDE DEF d
  <2>5. IdentityTypes'
    BY <2>1, <2>3, <1>y, <1>i DEF IdentityTypes
  <2>6. ASSUME NEW q \in Procs
        PROVE  Forgotten(q)'
    <3>1. CASE q # p
      BY <3>1, <2>1, <1>t, <1>y, ForgottenAlone
    <3>2. CASE q = p
      <4>1. ridx'[p] = Identity!Indexed(p) /\ deep'[p] = d /\ told'[p] = told[p] /\ rlog' = rlog
        BY <2>1, <1>y, <1>2
      <4>2. Forgotten(p) /\ ridx'[p] \in 0..Len(rlog)
        BY <4>1, <1>t, <1>i, <1>2
      <4>3. ASSUME told[p] # 0, \A i \in told[p]..Len(rlog) : rlog[i].event # "register"
            PROVE  d = Identity!NoDeep /\ told[p] <= ridx'[p]
        <5>1. Identity!TrustScore(p) = "zero"
          BY <4>2, <4>3, <1>t, <1>2, NobodyTrusted
        <5>2. deep[p] = Identity!NoDeep /\ (ridx[p] # Identity!NoIdx => told[p] <= ridx[p])
              /\ told[p] <= Len(rlog)
          BY <4>2, <4>3, <1>y DEF Forgotten
        <5>3. told[p] <= Identity!Indexed(p)
          BY <5>2 DEF Identity!Indexed
        <5>4. QED
          BY <5>1, <5>2, <5>3, <4>1, <2>4
      <4>4. Forgotten(p)'
        BY <4>1, <4>2, <4>3 DEF Forgotten
      <4>5. QED
        BY <3>2, <4>4
    <3>3. QED
      BY <3>1, <3>2
  <2>7. PastHeld'
    BY <2>1, <1>t, PastKept
  <2>8. QED
    BY <2>5, <2>6, <2>7 DEF IdentityInv
<1>3. ASSUME NEW p \in Procs, Identity!IRestart(p)
      PROVE  IdentityInv'
  <2>1. /\ ridx' = [ridx EXCEPT ![p] = Identity!NoIdx] /\ deep' = [deep EXCEPT ![p] = Identity!NoDeep]
        /\ version' = [version EXCEPT ![p] = 0] /\ UNCHANGED <<rlog, told, ilog, past, itime>>
    BY <1>3 DEF Identity!IRestart
  <2>2. IdentityTypes'
    BY <2>1, <1>y, <1>n DEF IdentityTypes
  <2>3. ASSUME NEW q \in Procs
        PROVE  Forgotten(q)'
    <3>1. CASE q # p
      BY <3>1, <2>1, <1>t, <1>y, ForgottenAlone
    <3>2. CASE q = p
      <4>1. ridx'[q] = Identity!NoIdx /\ deep'[q] = Identity!NoDeep
        BY <3>2, <2>1, <1>y, <1>3
      <4>2. QED
        BY <4>1, <2>1, <1>t DEF Forgotten
    <3>3. QED
      BY <3>1, <3>2
  <2>4. PastHeld'
    BY <2>1, <1>t, PastKept
  <2>5. QED
    BY <2>2, <2>3, <2>4 DEF IdentityInv
<1>4. ASSUME NEW p \in Procs, NEW owner \in Owners, Identity!Register(p, owner)
      PROVE  IdentityInv'
  <2> DEFINE e == [event |-> "register", owner |-> owner, at |-> itime]
  <2>1. /\ rlog' = Append(rlog, e) /\ ridx' = [ridx EXCEPT ![p] = Identity!NoIdx]
        /\ UNCHANGED <<deep, told, ilog, version, past, itime>>
    BY <1>4 DEF Identity!Register
  <2>2. e \in RegistryLines
    BY <1>4, <1>y DEF RegistryLines
  <2> HIDE DEF e
  <2>3. IdentityTypes'
    BY <2>1, <2>2, <1>y, <1>n DEF IdentityTypes
  <2>4. ASSUME NEW q \in Procs
        PROVE  Forgotten(q)'
    <3>1. ridx'[q] \in {ridx[q], Identity!NoIdx}
      BY <2>1, <2>4, <1>y
    <3>2. QED
      BY <3>1, <2>1, <2>2, <2>4, <1>t, StillForgotten
  <2>5. PastHeld'
    BY <2>1, <1>t, PastKept
  <2>6. QED
    BY <2>3, <2>4, <2>5 DEF IdentityInv
<1>5. ASSUME NEW p \in Procs, NEW owner \in Owners, Identity!Revoke(p, owner)
      PROVE  IdentityInv'
  <2> DEFINE e == [event |-> "revoke", owner |-> owner, at |-> itime]
  <2>0. UNCHANGED <<ilog, version, past, itime>>
    BY <1>5 DEF Identity!Revoke
  <2>e. e \in RegistryLines /\ e.event = "revoke"
    BY <1>5, <1>y DEF RegistryLines
  <2>p. PastHeld'
    BY <2>0, <1>t, PastKept
  <2>1. CASE /\ rlog' = Append(rlog, e) /\ Identity!AfterRevoke(p)
             /\ told' = [told EXCEPT ![p] = Len(rlog) + 1]
    <3> HIDE DEF e
    <3>1. /\ ridx' = [ridx EXCEPT ![p] = Identity!NoIdx] /\ deep' = [deep EXCEPT ![p] = Identity!NoDeep]
      BY <2>1 DEF Identity!AfterRevoke
    <3>2. IdentityTypes'
      BY <2>0, <2>1, <2>e, <3>1, <1>y, <1>n DEF IdentityTypes
    <3>3. ASSUME NEW q \in Procs
          PROVE  Forgotten(q)'
      <4>1. CASE q # p
        <5>1. told'[q] = told[q] /\ deep'[q] = deep[q] /\ ridx'[q] = ridx[q]
          BY <4>1, <3>1, <3>3, <2>1, <1>y
        <5>2. QED
          BY <5>1, <3>3, <2>1, <2>e, <1>t, StillForgotten
      <4>2. CASE q = p
        <5>1. told'[q] = Len(rlog) + 1 /\ deep'[q] = Identity!NoDeep /\ ridx'[q] = Identity!NoIdx
          BY <4>2, <3>1, <2>1, <1>y, <1>5
        <5>2. Len(rlog') = Len(rlog) + 1 /\ rlog'[Len(rlog) + 1] = e /\ Len(rlog) + 1 \in 1..Len(rlog')
          BY <2>1, <2>e, <1>y
        <5>3. QED
          BY <5>1, <5>2, <2>e DEF Forgotten
      <4>3. QED
        BY <4>1, <4>2
    <3>4. QED
      BY <3>2, <3>3, <2>p DEF IdentityInv
  <2>2. CASE ridx' = [ridx EXCEPT ![p] = Identity!Indexed(p)] /\ UNCHANGED <<rlog, deep, told>>
    <3>1. IdentityTypes'
      BY <2>0, <2>2, <1>y, <1>i DEF IdentityTypes
    <3>2. ASSUME NEW q \in Procs
          PROVE  Forgotten(q)'
      <4>1. CASE q # p
        BY <4>1, <2>2, <1>t, <1>y, ForgottenAlone
      <4>2. CASE q = p
        <5>1. ridx'[q] = Identity!Indexed(q) /\ Identity!Indexed(q) \in 0..Len(rlog) /\ Forgotten(q)
          BY <4>2, <2>2, <1>t, <1>y, <1>i, <1>5
        <5>2. QED
          BY <5>1, <2>2, <1>y DEF Forgotten, Identity!Indexed
      <4>3. QED
        BY <4>1, <4>2
    <3>3. QED
      BY <3>1, <3>2, <2>p DEF IdentityInv
  <2>3. QED
    BY <1>5, <2>1, <2>2 DEF Identity!Revoke
<1>6. ASSUME NEW e \in IdentityLines, e.at = itime, ilog' = Append(ilog, e),
             version' \in [Procs -> Nat], UNCHANGED <<rlog, ridx, deep, told, past, itime>>
      PROVE  IdentityInv'
  <2>1. IdentityTypes'
    BY <1>6, <1>y DEF IdentityTypes
  <2>2. \A q \in Procs : Forgotten(q)'
    BY <1>6, <1>t, ForgottenAlone
  <2>3. PastHeld'
    BY <1>6, <1>t, PastKept
  <2>4. QED
    BY <2>1, <2>2, <2>3 DEF IdentityInv
<1>7. ASSUME NEW p \in Procs, NEW s \in Skills, Identity!CreateGenesis(p, {s})
      PROVE  IdentityInv'
  <2> DEFINE e == [event |-> "genesis", skills |-> {s}, version |-> 1, at |-> itime]
  <2>1. /\ ilog' = Append(ilog, e) /\ version' = [version EXCEPT ![p] = 1]
        /\ UNCHANGED <<rlog, ridx, deep, told, past, itime>>
    BY <1>7 DEF Identity!CreateGenesis
  <2>2. e \in IdentityLines /\ e.at = itime
    BY <1>7, <1>y DEF IdentityLines
  <2>3. version' \in [Procs -> Nat]
    BY <2>1, <1>y
  <2> HIDE DEF e
  <2>4. QED
    BY <2>1, <2>2, <2>3, <1>6
<1>8. ASSUME NEW p \in Procs, NEW s \in Skills, NEW event \in Identity!ChangeEvents,
             Identity!AppendEvent(p, event, {s})
      PROVE  IdentityInv'
  <2> DEFINE e == [event |-> event, skills |-> {s}, version |-> version[p] + 1, at |-> itime]
  <2>1. /\ ilog' = Append(ilog, e) /\ version' = [version EXCEPT ![p] = @ + 1]
        /\ UNCHANGED <<rlog, ridx, deep, told, past, itime>>
    BY <1>8 DEF Identity!AppendEvent
  <2>2. version[p] + 1 \in Nat
    BY <1>8, <1>y
  <2>3. e \in IdentityLines /\ e.at = itime
    BY <2>2, <1>8, <1>y DEF IdentityLines
  <2>4. version' \in [Procs -> Nat]
    BY <2>1, <2>2, <1>y
  <2> HIDE DEF e
  <2>5. QED
    BY <2>1, <2>3, <2>4, <1>6
<1>9. QED
  BY <1>1, <1>2, <1>3, <1>4, <1>5, <1>7, <1>8, Zenon DEF Identity!IrNext

\* What the invariant is for.
LEMMA IdentityHolds ==
    ASSUME IdentityInv
    PROVE  Identity!OwnRevocationHolds /\ Identity!PastIsFixed
<1>1. Identity!OwnRevocationHolds
  BY NobodyTrusted DEF IdentityInv, Identity!OwnRevocationHolds
<1>2. Identity!PastIsFixed
  <2>1. itime \in Nat /\ past = [t \in 1..itime |-> Identity!ReplayIdentity(t - 1)]
    BY DEF IdentityInv, IdentityTypes, PastHeld
  <2>2. DOMAIN past = 1..itime
    BY <2>1
  <2>3. Len(past) = itime
    BY <2>1
  <2>4. QED
    BY <2>1, <2>3 DEF Identity!PastIsFixed
<1>3. QED
  BY <1>1, <1>2

\* The identity services do not notice the steps of the others.
LEMMA IdentityAlone ==
    ASSUME IdentityInv, UNCHANGED identityVars
    PROVE  IdentityInv'
<1>1. UNCHANGED <<rlog, ridx, deep, told, ilog, version, past, itime>>
  BY DEF identityVars
<1>2. IdentityTypes'
  BY <1>1 DEF IdentityInv, IdentityTypes
<1>3. \A p \in Procs : Forgotten(p)'
  BY <1>1, ForgottenAlone DEF IdentityInv
<1>4. PastHeld'
  BY <1>1, PastKept DEF IdentityInv
<1>5. QED
  BY <1>2, <1>3, <1>4 DEF IdentityInv

-----------------------------------------------------------------------------
(* Keys: revocation and the chain of the key history.                       *)

Links == Nat \X {"active"}
KeyEntries == [key: Nat, status: {"active", "retired", "revoked"}, prev: Seq(Links), hash: Seq(Links)]
SigningObjects == [up: BOOLEAN, hist: Seq(KeyEntries), key: Nat,
                   job: {"none", "seed", "pub", "record"}, new: Nat]

KeyTypes ==
  /\ seed \in [key: Nat, form: {"none", "raw", "legacy", "salted", "torn"}]
  /\ pub \in Nat \cup {Keys!TornKey}
  /\ hist \in Seq(KeyEntries)
  /\ proc \in [Signers -> SigningObjects]
  /\ keys \in Nat

\* The object of the one process holds the history of the file.
InStep == \A p \in Signers : IF proc[p].up THEN proc[p].hist = hist ELSE proc[p] = Keys!Down

\* The inductive invariant of the keys.
KeysInv ==
  /\ KeyTypes /\ InStep
  /\ Keys!VerifyChain(hist)
  /\ \A key \in revoked : Keys!IsRevoked(hist, key)
  /\ \A s \in signed : ~s[2]

\* A stopped process.
LEMMA DownType == Keys!Down \in SigningObjects /\ ~Keys!Down.up /\ Keys!Down.hist = <<>>
<1>1. <<>> \in Seq(KeyEntries) /\ Keys!NoKey \in Nat
  BY DEF Keys!NoKey
<1>2. QED
  BY <1>1 DEF Keys!Down, SigningObjects

\* No history, and a keypair of an older version or none.
LEMMA KeysStart == Keys!AkInit => KeysInv
<1> SUFFICES ASSUME Keys!AkInit PROVE KeysInv
  OBVIOUS
<1>1. /\ hist = <<>> /\ proc = [p \in Signers |-> Keys!Down] /\ revoked = {} /\ signed = {}
      /\ \/ seed = Keys!NoSeed /\ pub = Keys!NoKey /\ keys = 0
         \/ \E form \in {"raw", "legacy"} : seed = [key |-> 1, form |-> form] /\ pub = 1 /\ keys = 1
  BY DEF Keys!AkInit
<1>2. KeyTypes
  BY <1>1, DownType DEF KeyTypes, Keys!NoSeed, Keys!NoKey
<1>3. InStep
  BY <1>1, DownType DEF InStep
<1>4. Keys!VerifyChain(hist)
  BY <1>1 DEF Keys!VerifyChain
<1>5. QED
  BY <1>1, <1>2, <1>3, <1>4 DEF KeysInv

\* Changing the status of entries leaves the chain and the revoked keys, as
\* long as nothing that was revoked gets another status.
LEMMA StatusChange ==
    ASSUME NEW H \in Seq(KeyEntries), NEW G \in Seq(KeyEntries), Len(G) = Len(H),
           \A i \in 1..Len(H) : /\ G[i].key = H[i].key /\ G[i].prev = H[i].prev /\ G[i].hash = H[i].hash
                                /\ H[i].status = "revoked" => G[i].status = "revoked",
           Keys!VerifyChain(H)
    PROVE  Keys!VerifyChain(G) /\ \A k : Keys!IsRevoked(H, k) => Keys!IsRevoked(G, k)
<1>1. Keys!VerifyChain(G)
  <2>1. ASSUME NEW i \in 1..Len(G)
        PROVE  LET prev == IF i = 1 THEN <<>> ELSE G[i - 1].hash IN
               G[i].prev = prev /\ G[i].hash = Keys!EntryHash(G[i].key, "active", prev)
    <3>1. i \in 1..Len(H) /\ (i # 1 => i - 1 \in 1..Len(H))
      OBVIOUS
    <3>2. LET prev == IF i = 1 THEN <<>> ELSE H[i - 1].hash IN
          H[i].prev = prev /\ H[i].hash = Keys!EntryHash(H[i].key, "active", prev)
      BY <3>1 DEF Keys!VerifyChain, Keys!ChainStatus
    <3>3. QED
      BY <3>1, <3>2
  <2>2. QED
    BY <2>1 DEF Keys!VerifyChain, Keys!ChainStatus
<1>2. QED
  BY <1>1 DEF Keys!IsRevoked

\* record_key keeps the chain and every revocation.
LEMMA RecordKeeps ==
    ASSUME NEW H \in Seq(KeyEntries), NEW k0 \in Nat, Keys!VerifyChain(H)
    PROVE  /\ Keys!RecordKey(H, k0) \in Seq(KeyEntries) /\ Keys!VerifyChain(Keys!RecordKey(H, k0))
           /\ \A k : Keys!IsRevoked(H, k) => Keys!IsRevoked(Keys!RecordKey(H, k0), k)
<1>1. CASE Keys!ActiveKey(H) = k0
  BY <1>1 DEF Keys!RecordKey
<1>2. CASE Keys!ActiveKey(H) # k0
  <2> DEFINE n == Len(H)
             G == [i \in 1..n |-> IF H[i].status = "active" THEN [H[i] EXCEPT !.status = "retired"] ELSE H[i]]
             h == Keys!LastHash(H)
             e == [key |-> k0, status |-> "active", prev |-> h, hash |-> Keys!EntryHash(k0, "active", h)]
  <2>1. n \in Nat /\ \A i \in 1..n : H[i] \in KeyEntries
    OBVIOUS
  <2>2. \A i \in 1..n : /\ G[i] \in KeyEntries
                        /\ G[i].key = H[i].key /\ G[i].prev = H[i].prev /\ G[i].hash = H[i].hash
                        /\ H[i].status = "revoked" => G[i].status = "revoked"
    <3>1. ASSUME NEW i \in 1..n
          PROVE  /\ G[i] \in KeyEntries
                 /\ G[i].key = H[i].key /\ G[i].prev = H[i].prev /\ G[i].hash = H[i].hash
                 /\ H[i].status = "revoked" => G[i].status = "revoked"
      <4>1. G[i] = IF H[i].status = "active" THEN [H[i] EXCEPT !.status = "retired"] ELSE H[i]
        BY <3>1
      <4>2. QED
        BY <4>1, <3>1, <2>1 DEF KeyEntries
    <3>2. QED
      BY <3>1
  <2>3. G \in Seq(KeyEntries) /\ Len(G) = n
    <3>1. G \in [1..n -> KeyEntries]
      BY <2>2
    <3> HIDE DEF G, n
    <3>2. QED
      BY <3>1, <2>1
  <2>4. Keys!RecordKey(H, k0) = Append(G, e)
    BY <1>2 DEF Keys!RecordKey
  <2> HIDE DEF G
  <2>5. Keys!VerifyChain(G) /\ \A k : Keys!IsRevoked(H, k) => Keys!IsRevoked(G, k)
    BY <2>2, <2>3, StatusChange
  <2>6. h \in Seq(Links) /\ h = IF n = 0 THEN <<>> ELSE G[n].hash
    <3>1. CASE H = <<>>
      <4>1. h = <<>> /\ n = 0
        BY <3>1 DEF Keys!LastHash
      <4>2. QED
        BY <4>1
    <3>2. CASE H # <<>>
      <4>1. n # 0 /\ n \in 1..n
        BY <3>2, <2>1
      <4>2. h = H[n].hash
        BY <3>2 DEF Keys!LastHash, Keys!Last
      <4>3. H[n] \in KeyEntries
        BY <4>1, <2>1
      <4>4. H[n].hash \in Seq(Links)
        BY <4>3 DEF KeyEntries
      <4>5. QED
        BY <4>1, <4>2, <4>4, <2>2
    <3>3. QED
      BY <3>1, <3>2
  <2> HIDE DEF h
  <2>7. e \in KeyEntries /\ e.prev = h /\ e.key = k0 /\ e.hash = Keys!EntryHash(k0, "active", h)
    <3> DEFINE eh == Keys!EntryHash(k0, "active", h)
    <3>1. <<k0, "active">> \in Links
      BY DEF Links
    <3>2. eh \in Seq(Links)
      BY <3>1, <2>6 DEF Keys!EntryHash
    <3> HIDE DEF eh
    <3>3. [key |-> k0, status |-> "active", prev |-> h, hash |-> eh] \in KeyEntries
      BY <3>2, <2>6 DEF KeyEntries
    <3>4. QED
      BY <3>3 DEF eh
  <2> HIDE DEF e
  <2> DEFINE A == Append(G, e)
  <2>8. /\ A \in Seq(KeyEntries) /\ Len(A) = n + 1 /\ A[n + 1] = e
        /\ \A i \in 1..n : A[i] = G[i]
    BY <2>1, <2>3, <2>7
  <2> HIDE DEF A, n
  <2>9. Keys!VerifyChain(A)
    <3>1. ASSUME NEW i \in 1..(n + 1)
          PROVE  LET prev == IF i = 1 THEN <<>> ELSE A[i - 1].hash IN
                 A[i].prev = prev /\ A[i].hash = Keys!EntryHash(A[i].key, "active", prev)
      <4>1. CASE i \in 1..n
        <5>1. A[i] = G[i] /\ (i # 1 => i - 1 \in 1..n /\ A[i - 1] = G[i - 1]) /\ i \in 1..Len(G)
          BY <4>1, <2>1, <2>3, <2>8
        <5>2. LET prev == IF i = 1 THEN <<>> ELSE G[i - 1].hash IN
              G[i].prev = prev /\ G[i].hash = Keys!EntryHash(G[i].key, "active", prev)
          BY <5>1, <2>5 DEF Keys!VerifyChain, Keys!ChainStatus
        <5>3. QED
          BY <5>1, <5>2
      <4>2. CASE i = n + 1
        <5>1. A[i] = e /\ (i = 1 <=> n = 0) /\ i - 1 = n /\ (n # 0 => n \in 1..n /\ A[n] = G[n])
          BY <4>2, <2>1, <2>8
        <5>2. h = IF i = 1 THEN <<>> ELSE A[i - 1].hash
          BY <5>1, <2>6
        <5>3. QED
          BY <5>1, <5>2, <2>7
      <4>3. QED
        BY <4>1, <4>2, <3>1, <2>1
    <3>2. QED
      BY <3>1, <2>8 DEF Keys!VerifyChain, Keys!ChainStatus
  <2>10. \A k : Keys!IsRevoked(G, k) => Keys!IsRevoked(A, k)
    <3>1. \A i \in 1..Len(G) : i \in 1..Len(A) /\ A[i] = G[i]
      BY <2>1, <2>3, <2>8
    <3>2. QED
      BY <3>1 DEF Keys!IsRevoked
  <2>11. QED
    BY <2>4, <2>5, <2>8, <2>9, <2>10 DEF A
<1>3. QED
  BY <1>1, <1>2

\* revoke_key keeps the chain and every revocation, and adds its own.
LEMMA RevokeKeeps ==
    ASSUME NEW H \in Seq(KeyEntries), NEW k0, Keys!VerifyChain(H),
           \E i \in 1..Len(H) : H[i].key = k0
    PROVE  /\ Keys!Revoked(H, k0) \in Seq(KeyEntries) /\ Keys!VerifyChain(Keys!Revoked(H, k0))
           /\ Keys!IsRevoked(Keys!Revoked(H, k0), k0)
           /\ \A k : Keys!IsRevoked(H, k) => Keys!IsRevoked(Keys!Revoked(H, k0), k)
<1> DEFINE n == Len(H)
           G == [i \in 1..n |-> IF H[i].key = k0 THEN [H[i] EXCEPT !.status = "revoked"] ELSE H[i]]
<1>1. n \in Nat /\ \A i \in 1..n : H[i] \in KeyEntries
  OBVIOUS
<1>2. Keys!Revoked(H, k0) = G
  BY DEF Keys!Revoked
<1>3. \A i \in 1..n : /\ G[i] \in KeyEntries
                      /\ G[i].key = H[i].key /\ G[i].prev = H[i].prev /\ G[i].hash = H[i].hash
                      /\ H[i].status = "revoked" \/ H[i].key = k0 => G[i].status = "revoked"
  <2>1. ASSUME NEW i \in 1..n
        PROVE  /\ G[i] \in KeyEntries
               /\ G[i].key = H[i].key /\ G[i].prev = H[i].prev /\ G[i].hash = H[i].hash
               /\ H[i].status = "revoked" \/ H[i].key = k0 => G[i].status = "revoked"
    <3>1. G[i] = IF H[i].key = k0 THEN [H[i] EXCEPT !.status = "revoked"] ELSE H[i]
      BY <2>1
    <3>2. QED
      BY <3>1, <2>1, <1>1 DEF KeyEntries
  <2>2. QED
    BY <2>1
<1>4. G \in Seq(KeyEntries) /\ Len(G) = n
  <2>1. G \in [1..n -> KeyEntries]
    BY <1>3
  <2> HIDE DEF G, n
  <2>2. QED
    BY <2>1, <1>1
<1> HIDE DEF G
<1>5. Keys!VerifyChain(G) /\ \A k : Keys!IsRevoked(H, k) => Keys!IsRevoked(G, k)
  BY <1>3, <1>4, StatusChange
<1>6. Keys!IsRevoked(G, k0)
  BY <1>3, <1>4 DEF Keys!IsRevoked
<1>7. QED
  BY <1>2, <1>4, <1>5, <1>6

\* The one process changes its object and leaves the history alone.
LEMMA ObjectMoves ==
    ASSUME KeysInv, NEW p \in Signers, NEW o \in SigningObjects,
           proc' = [proc EXCEPT ![p] = o], UNCHANGED <<hist, revoked>>,
           IF o.up THEN o.hist = hist ELSE o = Keys!Down,
           seed' \in [key: Nat, form: {"none", "raw", "legacy", "salted", "torn"}],
           pub' \in Nat \cup {Keys!TornKey}, keys' \in Nat, \A s \in signed' : ~s[2]
    PROVE  KeysInv'
<1>1. proc \in [Signers -> SigningObjects] /\ hist \in Seq(KeyEntries)
  BY DEF KeysInv, KeyTypes
<1>2. \A q \in Signers : proc'[q] = o
  BY <1>1, OneSigner
<1>3. KeyTypes'
  BY <1>1 DEF KeyTypes
<1>4. InStep'
  BY <1>2 DEF InStep
<1>5. QED
  BY <1>3, <1>4 DEF KeysInv

\* The one process writes a new history to the file and to its object.
LEMMA HistoryMoves ==
    ASSUME KeysInv, NEW p \in Signers, NEW o \in SigningObjects, o.up,
           proc' = [proc EXCEPT ![p] = o], hist' = o.hist, Keys!VerifyChain(o.hist),
           \A k : Keys!IsRevoked(hist, k) => Keys!IsRevoked(o.hist, k),
           \A k \in revoked' : k \in revoked \/ Keys!IsRevoked(o.hist, k),
           seed' \in [key: Nat, form: {"none", "raw", "legacy", "salted", "torn"}],
           pub' \in Nat \cup {Keys!TornKey}, keys' \in Nat, UNCHANGED signed
    PROVE  KeysInv'
<1>1. proc \in [Signers -> SigningObjects]
  BY DEF KeysInv, KeyTypes
<1>2. \A q \in Signers : proc'[q] = o
  BY <1>1, OneSigner
<1>3. hist' \in Seq(KeyEntries)
  BY DEF SigningObjects
<1>4. KeyTypes'
  BY <1>1, <1>3 DEF KeyTypes
<1>5. InStep'
  BY <1>2 DEF InStep
<1>6. \A k \in revoked' : Keys!IsRevoked(hist', k)
  BY DEF KeysInv
<1>7. QED
  BY <1>4, <1>5, <1>6 DEF KeysInv

\* Every step of the signing services keeps the invariant.
LEMMA KeysSteps ==
    ASSUME KeysInv, Keys!AkNext
    PROVE  KeysInv'
<1> DEFINE Seeds == [key: Nat, form: {"none", "raw", "legacy", "salted", "torn"}]
<1>y. /\ seed \in Seeds /\ pub \in Nat \cup {Keys!TornKey} /\ hist \in Seq(KeyEntries)
      /\ proc \in [Signers -> SigningObjects] /\ keys \in Nat
      /\ Keys!VerifyChain(hist) /\ \A s \in signed : ~s[2]
  BY DEF KeysInv, KeyTypes
<1>u. /\ \A p \in Signers : proc[p].up => proc[p].hist = hist
      /\ \A p \in Signers : proc[p].job # "none" => proc[p].up
      /\ \A p \in Signers : /\ proc[p] \in SigningObjects /\ proc[p].key \in Nat /\ proc[p].new \in Nat
                            /\ proc[p].up \in BOOLEAN
  BY <1>y DEF KeysInv, InStep, Keys!Down, SigningObjects
<1>z. Keys!NoKey \in Nat /\ seed.key \in Nat
  BY <1>y DEF Keys!NoKey
<1>1. ASSUME NEW p \in Signers, Keys!New(p)
      PROVE  KeysInv'
  <2> DEFINE o == [Keys!Down EXCEPT !.up = TRUE, !.hist = hist]
  <2>1. proc' = [proc EXCEPT ![p] = o] /\ UNCHANGED <<seed, pub, hist, keys, revoked, signed>>
    BY <1>1 DEF Keys!New
  <2>2. o \in SigningObjects /\ o.up /\ o.hist = hist
    BY <1>y, DownType DEF SigningObjects
  <2> HIDE DEF o
  <2>3. QED
    BY <2>1, <2>2, <1>y, ObjectMoves
<1>2. ASSUME NEW p \in Signers, Keys!Reuse(p)
      PROVE  KeysInv'
  <2> DEFINE readable == seed.form \in {"raw", "legacy", "salted"}
             k0 == Keys!GetPublicKey(IF readable THEN seed.key ELSE proc[p].key)
             H == IF k0 = Keys!NoKey THEN proc[p].hist ELSE Keys!RecordKey(proc[p].hist, k0)
             k1 == IF readable THEN seed.key ELSE proc[p].key
             o == [proc[p] EXCEPT !.key = k1, !.hist = H]
  <2>1. /\ proc[p].up
        /\ proc' = [proc EXCEPT ![p].key = IF readable THEN seed.key ELSE @, ![p].hist = H]
        /\ seed' \in IF readable THEN {seed, [seed EXCEPT !.form = "salted"]} ELSE {seed}
        /\ hist' = IF H = proc[p].hist THEN hist ELSE H
        /\ UNCHANGED <<pub, keys, revoked, signed>>
    BY <1>2 DEF Keys!Reuse, Keys!Free
  <2>2. k1 \in Nat /\ k0 \in Nat
    BY <1>y, <1>u, <1>z, <1>2 DEF Keys!GetPublicKey, Keys!TornKey, Keys!NoKey
  <2>3. seed' \in Seeds
    BY <2>1, <1>y
  <2> HIDE DEF k0, k1, readable
  <2>4. proc[p].hist = hist
    BY <2>1, <1>u, <1>2
  <2>5. /\ H \in Seq(KeyEntries) /\ Keys!VerifyChain(H)
        /\ \A k : Keys!IsRevoked(hist, k) => Keys!IsRevoked(H, k)
    BY <2>2, <2>4, <1>y, RecordKeeps
  <2> HIDE DEF H
  <2>6. proc' = [proc EXCEPT ![p] = o] /\ hist' = H
    BY <2>1, <2>4, <1>y, <1>2 DEF k1
  <2>7. o \in SigningObjects /\ o.up /\ o.hist = H
    BY <2>1, <2>2, <2>5, <1>u, <1>2 DEF SigningObjects
  <2> HIDE DEF o
  <2>8. QED
    BY <2>1, <2>3, <2>5, <2>6, <2>7, <1>y, HistoryMoves
<1>3. ASSUME NEW p \in Signers, Keys!WriteSeed(p)
      PROVE  KeysInv'
  <2> DEFINE o == [proc[p] EXCEPT !.job = "pub"]
  <2>1. /\ proc[p].job = "seed" /\ seed' = [key |-> proc[p].new, form |-> "salted"]
        /\ proc' = [proc EXCEPT ![p].job = "pub"] /\ UNCHANGED <<pub, hist, keys, revoked, signed>>
    BY <1>3 DEF Keys!WriteSeed
  <2>2. proc' = [proc EXCEPT ![p] = o]
    BY <2>1, <1>y, <1>3
  <2>3. o \in SigningObjects /\ o.up /\ o.hist = hist
    BY <2>1, <1>u, <1>3 DEF SigningObjects
  <2>4. seed' \in Seeds
    BY <2>1, <1>u, <1>3
  <2> HIDE DEF o
  <2>5. QED
    BY <2>1, <2>2, <2>3, <2>4, <1>y, ObjectMoves
<1>4. ASSUME NEW p \in Signers, Keys!WritePub(p)
      PROVE  KeysInv'
  <2> DEFINE o == [proc[p] EXCEPT !.job = "record", !.key = proc[p].new]
  <2>1. /\ proc[p].job = "pub" /\ pub' = proc[p].new
        /\ proc' = [proc EXCEPT ![p].job = "record", ![p].key = proc[p].new]
        /\ UNCHANGED <<seed, hist, keys, revoked, signed>>
    BY <1>4 DEF Keys!WritePub
  <2>2. proc' = [proc EXCEPT ![p] = o]
    BY <2>1, <1>y, <1>4
  <2>3. o \in SigningObjects /\ o.up /\ o.hist = hist
    BY <2>1, <1>u, <1>4 DEF SigningObjects
  <2>4. pub' \in Nat \cup {Keys!TornKey}
    BY <2>1, <1>u, <1>4
  <2> HIDE DEF o
  <2>5. QED
    BY <2>1, <2>2, <2>3, <2>4, <1>y, ObjectMoves
<1>5. ASSUME NEW p \in Signers, Keys!RecordNew(p)
      PROVE  KeysInv'
  <2> DEFINE H == Keys!RecordKey(proc[p].hist, proc[p].new)
             o == [proc[p] EXCEPT !.job = "none", !.hist = H]
  <2>1. /\ proc[p].job = "record" /\ hist' = H
        /\ proc' = [proc EXCEPT ![p].job = "none", ![p].hist = H]
        /\ UNCHANGED <<seed, pub, keys, revoked, signed>>
    BY <1>5 DEF Keys!RecordNew
  <2>2. proc[p].up /\ proc[p].hist = hist /\ proc[p].new \in Nat
    BY <2>1, <1>u, <1>5
  <2>3. /\ H \in Seq(KeyEntries) /\ Keys!VerifyChain(H)
        /\ \A k : Keys!IsRevoked(hist, k) => Keys!IsRevoked(H, k)
    BY <2>2, <1>y, RecordKeeps
  <2> HIDE DEF H
  <2>4. proc' = [proc EXCEPT ![p] = o]
    BY <2>1, <1>y, <1>5
  <2>5. o \in SigningObjects /\ o.up /\ o.hist = H
    BY <2>2, <2>3, <1>u, <1>5 DEF SigningObjects
  <2> HIDE DEF o
  <2>6. QED
    BY <2>1, <2>3, <2>4, <2>5, <1>y, HistoryMoves
<1>6. ASSUME NEW p \in Signers, Keys!SignEntry(p)
      PROVE  KeysInv'
  <2> DEFINE k1 == IF seed.form \in {"raw", "legacy", "salted"} THEN seed.key ELSE proc[p].key
             o == [proc[p] EXCEPT !.key = proc'[p].key]
  <2>1. /\ proc[p].up /\ UNCHANGED <<pub, hist, keys, revoked>>
        /\ \/ UNCHANGED <<seed, proc>>
           \/ Keys!LoadKeypair(p)
        /\ \/ UNCHANGED signed
           \/ /\ ~Keys!IsRevoked(proc[p].hist, proc'[p].key)
              /\ signed' = signed \cup {<<proc'[p].key, proc'[p].key \in revoked>>}
    BY <1>6 DEF Keys!SignEntry, Keys!Free
  <2>2. seed' \in Seeds /\ proc'[p].key \in Nat /\ proc' = [proc EXCEPT ![p] = o]
    <3>1. CASE UNCHANGED <<seed, proc>>
      <4>1. o = proc[p]
        BY <3>1, <1>u, <1>6 DEF SigningObjects
      <4>2. QED
        BY <4>1, <3>1, <1>y, <1>u, <1>6
    <3>2. CASE Keys!LoadKeypair(p)
      <4>1. /\ proc' = [proc EXCEPT ![p].key = k1] /\ seed' \in {seed, [seed EXCEPT !.form = "salted"]}
        BY <3>2, <1>y DEF Keys!LoadKeypair
      <4>2. k1 \in Nat
        BY <1>u, <1>z, <1>6
      <4> HIDE DEF k1
      <4>3. proc'[p].key = k1
        BY <4>1, <1>y, <1>u, <1>6 DEF SigningObjects
      <4>4. QED
        BY <4>1, <4>2, <4>3, <1>y, <1>6
    <3>3. QED
      BY <3>1, <3>2, <2>1
  <2>3. o \in SigningObjects /\ o.up /\ o.hist = hist
    BY <2>1, <2>2, <1>u, <1>6 DEF SigningObjects
  <2>4. \A s \in signed' : ~s[2]
    <3>1. CASE UNCHANGED signed
      BY <3>1, <1>y
    <3>2. CASE /\ ~Keys!IsRevoked(proc[p].hist, proc'[p].key)
               /\ signed' = signed \cup {<<proc'[p].key, proc'[p].key \in revoked>>}
      <4>1. proc'[p].key \notin revoked
        BY <3>2, <2>1, <1>u, <1>6 DEF KeysInv
      <4>2. (proc'[p].key \in revoked) = FALSE
        BY <4>1
      <4>3. signed' = signed \cup {<<proc'[p].key, FALSE>>}
        BY <4>2, <3>2, Zenon
      <4>4. ASSUME NEW k PROVE ~<<k, FALSE>>[2]
        OBVIOUS
      <4>5. \A s \in signed : ~s[2]
        BY <1>y
      <4>6. QED
        BY <4>3, <4>4, <4>5, Zenon
    <3>3. QED
      BY <3>1, <3>2, <2>1
  <2> HIDE DEF o
  <2>5. QED
    BY <2>1, <2>2, <2>3, <2>4, <1>y, ObjectMoves
<1>7. ASSUME NEW p \in Signers, Keys!KCrash(p)
      PROVE  KeysInv'
  <2>1. /\ proc' = [proc EXCEPT ![p] = Keys!Down] /\ UNCHANGED <<hist, keys, revoked, signed>>
        /\ seed' \in {seed, [key |-> Keys!NoKey, form |-> "torn"]} /\ pub' \in {pub, Keys!TornKey}
    BY <1>7 DEF Keys!KCrash
  <2>2. seed' \in Seeds /\ pub' \in Nat \cup {Keys!TornKey}
    BY <2>1, <1>y, <1>z
  <2>3. QED
    BY <2>1, <2>2, <1>y, DownType, ObjectMoves
<1>8. ASSUME NEW p \in Signers, NEW force \in BOOLEAN, Keys!GenerateBegin(p, force)
      PROVE  KeysInv'
  <2> DEFINE n == keys + 1
             o == [proc[p] EXCEPT !.job = "seed", !.new = n]
  <2>1. /\ proc[p].up /\ keys' = n /\ proc' = [proc EXCEPT ![p].job = "seed", ![p].new = n]
        /\ UNCHANGED <<seed, pub, hist, revoked, signed>>
    BY <1>8 DEF Keys!GenerateBegin, Keys!Free
  <2>2. n \in Nat
    BY <1>y
  <2> HIDE DEF n
  <2>3. proc' = [proc EXCEPT ![p] = o]
    BY <2>1, <1>y, <1>8
  <2>4. o \in SigningObjects /\ o.up /\ o.hist = hist
    BY <2>1, <2>2, <1>u, <1>8 DEF SigningObjects
  <2> HIDE DEF o
  <2>5. QED
    BY <2>1, <2>2, <2>3, <2>4, <1>y, ObjectMoves
<1>9. ASSUME NEW p \in Signers, NEW k0 \in 1..MaxKeys, Keys!RevokeKey(p, k0)
      PROVE  KeysInv'
  <2> DEFINE H == Keys!Revoked(proc[p].hist, k0)
             k1 == IF proc[p].key = k0 THEN Keys!NoKey ELSE proc[p].key
             o == [proc[p] EXCEPT !.hist = H, !.key = k1]
  <2>1. /\ proc[p].up /\ \E i \in 1..Len(proc[p].hist) : proc[p].hist[i].key = k0
        /\ hist' = H
        /\ proc' = [proc EXCEPT ![p].hist = H, ![p].key = IF @ = k0 THEN Keys!NoKey ELSE @]
        /\ revoked' = revoked \cup {k0} /\ UNCHANGED <<seed, pub, keys, signed>>
    BY <1>9 DEF Keys!RevokeKey, Keys!Free
  <2>2. proc[p].hist = hist /\ k1 \in Nat
    BY <2>1, <1>u, <1>z, <1>9
  <2>3. /\ H \in Seq(KeyEntries) /\ Keys!VerifyChain(H) /\ Keys!IsRevoked(H, k0)
        /\ \A k : Keys!IsRevoked(hist, k) => Keys!IsRevoked(H, k)
    BY <2>1, <2>2, <1>y, RevokeKeeps
  <2> HIDE DEF H
  <2>4. proc' = [proc EXCEPT ![p] = o]
    BY <2>1, <1>y, <1>9
  <2> HIDE DEF k1
  <2>5. o \in SigningObjects /\ o.up /\ o.hist = H
    BY <2>1, <2>2, <2>3, <1>u, <1>9 DEF SigningObjects
  <2> HIDE DEF o
  <2>6. \A k \in revoked' : k \in revoked \/ Keys!IsRevoked(H, k)
    BY <2>1, <2>3
  <2>7. QED
    BY <2>1, <2>3, <2>4, <2>5, <2>6, <1>y, HistoryMoves
<1>10. QED
  BY <1>1, <1>2, <1>3, <1>4, <1>5, <1>6, <1>7, <1>8, <1>9, Zenon DEF Keys!AkNext

\* The signing services do not notice the steps of the others.
LEMMA KeysAlone ==
    ASSUME KeysInv, UNCHANGED keysVars
    PROVE  KeysInv'
BY DEF keysVars, KeysInv, KeyTypes, InStep

\* What the invariant is for.
LEMMA KeysHold ==
    ASSUME KeysInv
    PROVE  Keys!RevocationHolds /\ Keys!HistoryVerifies
<1>1. Keys!VerifyChain(<<>>)
  BY DEF Keys!VerifyChain
<1>2. QED
  BY <1>1, DownType DEF KeysInv, InStep, Keys!RevocationHolds, Keys!HistoryVerifies

\* signing.py, identity/: for any number of keys, agents, events, restarts and
\* crashes, a revoked key stays revoked and never signs again and the key
\* history verifies, with one signing process at a time; and for any number
\* of processes, one that revoked an agent gives it no trust until somebody
\* registers it again, and a moment that is over never changes.
THEOREM KeysAndIdentityHold == Spec => []KeysAndIdentity
<1> DEFINE Inv == KeysInv /\ IdentityInv
<1>1. Init => Inv
  BY KeysStart, IdentityStarts DEF Init
<1>2. ASSUME Inv, [Next]_<<part, keysVars, identityVars, exchangeVars, policyVars,
                     lanesVars, recallVars, dashboardVars, tracesVars, statsVars, gatewayVars>>
      PROVE  Inv'
  <2>1. UNCHANGED keysVars => KeysInv'
    BY <1>2, KeysAlone
  <2>2. Keys!AkNext => KeysInv'
    BY <1>2, KeysSteps
  <2>3. UNCHANGED identityVars => IdentityInv'
    BY <1>2, IdentityAlone
  <2>4. Identity!IrNext => IdentityInv'
    BY <1>2, IdentitySteps
  <2>5. /\ UNCHANGED keysVars \/ Keys!AkNext
        /\ UNCHANGED identityVars \/ Identity!IrNext
    BY <1>2, Zenon DEF Next
  <2>6. QED
    BY <2>1, <2>2, <2>3, <2>4, <2>5
<1>3. Inv => KeysAndIdentity
  BY KeysHold, IdentityHolds DEF KeysAndIdentity
<1>4. QED
  BY <1>1, <1>2, <1>3, PTL DEF Spec

-----------------------------------------------------------------------------
(* Exchange: receipts answer dispatches.                                    *)

Dispatches == [hash: Nat \X Tasks, entry: Nat, target: Workers, params: Tasks]
WorkEntries == [id: Nat, for: Nat, hash: Seq(Nat)]
Drafts == [id: Nat \ {0}, ehash: Seq(Nat), count: Nat, dispatch: SUBSET (Nat \X Tasks)]

\* A dispatch hash tells the position of its dispatch; work is for a dispatch
\* that was made, or for none.
ExchangeTypes ==
  /\ dispatched \in Seq(Dispatches)
  /\ \A i \in 1..Len(dispatched) : dispatched[i].hash = <<i, dispatched[i].params>>
  /\ work \in [Workers -> Seq(WorkEntries)]
  /\ \A w \in Workers : \A i \in 1..Len(work[w]) : work[w][i].for <= Len(dispatched)
  /\ issuing \in [Workers -> Drafts \cup {Exchange!Idle}]

\* What a worker has read of its shard for the receipt it is about to issue.
Drafted(w, j) ==
  /\ j.id \in 1..Len(work[w]) /\ j.ehash = work[w][j.id].hash
  /\ j.count \in Nat /\ j.id <= j.count /\ j.count <= Len(work[w])
  /\ j.dispatch # {} => /\ work[w][j.id].for # 0
                        /\ j.dispatch = {dispatched[work[w][j.id].for].hash}

\* A message is about an entry of its issuer's shard,
About(m) ==
  /\ m.issuer \in Workers /\ m.id \in 1..Len(work[m.issuer])
  /\ m.ehash = work[m.issuer][m.id].hash

\* with a count and a tip its issuer's shard had,
Covering(m, c) ==
  /\ c \in Nat /\ m.id <= c
  /\ \E q \in c..Len(work[m.issuer]) : m.tip = work[m.issuer][q].hash

\* though only the hash still tells the count that was sent,
Fields == {"issuer", "id", "ehash", "count", "tip", "hash"}
Sent(m) ==
  /\ Fields \subseteq DOMAIN m
  /\ About(m)
  /\ \E c \in Nat : Covering(m, c) /\ m.hash = <<m.issuer, m.id, m.ehash, m.tip, c>>
  /\ "dispatch" \in DOMAIN m => /\ work[m.issuer][m.id].for # 0
                                /\ m.dispatch = {dispatched[work[m.issuer][m.id].for].hash}

\* and a stored receipt has that count too.
Kept(m) == Sent(m) /\ m.hash = Exchange!Payload(m)

\* A receipt found to answer a dispatch does.
Answered(d, r) ==
  /\ About(r) /\ work[r.issuer][r.id].for # 0
  /\ dispatched[work[r.issuer][r.id].for] = d

\* The inductive invariant of the exchange.
ExchangeInv ==
  /\ ExchangeTypes
  /\ \A w \in Workers : issuing[w] # Exchange!Idle => Drafted(w, issuing[w])
  /\ \A m \in wire : Sent(m)
  /\ \E S : received \in Seq(S)
  /\ \A i \in 1..Len(received) : Kept(received[i])
  /\ \A pair \in accepted : Answered(pair[1], pair[2])

\* Nothing was dispatched or done.
LEMMA ExchangeStarts == Exchange!TxInit => ExchangeInv
<1> SUFFICES ASSUME Exchange!TxInit PROVE ExchangeInv
  OBVIOUS
<1>1. /\ dispatched = <<>> /\ work = [w \in Workers |-> <<>>]
      /\ issuing = [w \in Workers |-> Exchange!Idle] /\ wire = {} /\ received = <<>> /\ accepted = {}
  BY DEF Exchange!TxInit
<1>2. ExchangeTypes
  BY <1>1 DEF ExchangeTypes
<1>3. received \in Seq({})
  BY <1>1
<1>4. QED
  BY <1>1, <1>2, <1>3 DEF ExchangeInv

\* to_dict keeps the fields a receipt must have.
LEMMA DictFields ==
    ASSUME NEW r, Fields \subseteq DOMAIN r
    PROVE  /\ Fields \subseteq DOMAIN Exchange!ToDict(r)
           /\ \A f \in Fields : Exchange!ToDict(r)[f] = r[f]
           /\ "dispatch" \in DOMAIN Exchange!ToDict(r)
                => "dispatch" \in DOMAIN r /\ r["dispatch"] # {} /\ Exchange!ToDict(r)["dispatch"] = r["dispatch"]
<1>1. \A f \in Fields : f \notin Exchange!Optional
  BY DEF Fields, Exchange!Optional
<1>2. "dispatch" \in Exchange!Optional
  BY DEF Exchange!Optional
<1>3. QED
  BY <1>1, <1>2 DEF Exchange!ToDict

\* from_dict gives them back, with None for a dispatch that was left out.
LEMMA DictBack ==
    ASSUME NEW m, Fields \subseteq DOMAIN m
    PROVE  /\ Fields \subseteq DOMAIN Exchange!FromDict(m) /\ "dispatch" \in DOMAIN Exchange!FromDict(m)
           /\ \A f \in Fields : Exchange!FromDict(m)[f] = m[f]
           /\ Exchange!FromDict(m)["dispatch"] = IF "dispatch" \in DOMAIN m THEN m["dispatch"] ELSE {}
<1>1. "dispatch" \in Exchange!Optional
  BY DEF Exchange!Optional
<1>2. QED
  BY <1>1 DEF Exchange!FromDict

\* A receipt through to_dict and from_dict is the message it was.
LEMMA KeptOfSent ==
    ASSUME NEW m, Sent(m), Exchange!FromDict(m).hash = Exchange!Payload(Exchange!FromDict(m))
    PROVE  Kept(Exchange!ToDict(Exchange!FromDict(m)))
<1> DEFINE r == Exchange!FromDict(m)
           k == Exchange!ToDict(r)
<1>1. /\ Fields \subseteq DOMAIN r /\ \A f \in Fields : r[f] = m[f]
      /\ r["dispatch"] = IF "dispatch" \in DOMAIN m THEN m["dispatch"] ELSE {}
  BY DictBack DEF Sent
<1> HIDE DEF r
<1>2. /\ Fields \subseteq DOMAIN k /\ \A f \in Fields : k[f] = r[f]
      /\ "dispatch" \in DOMAIN k => r["dispatch"] # {} /\ k["dispatch"] = r["dispatch"]
  BY <1>1, DictFields
<1> HIDE DEF k
<1>3. /\ k.issuer = m.issuer /\ k.id = m.id /\ k.ehash = m.ehash /\ k.count = m.count
      /\ k.tip = m.tip /\ k.hash = m.hash
      /\ r.issuer = m.issuer /\ r.id = m.id /\ r.ehash = m.ehash /\ r.count = m.count
      /\ r.tip = m.tip /\ r.hash = m.hash
  BY <1>1, <1>2 DEF Fields
<1>4. "dispatch" \in DOMAIN k => "dispatch" \in DOMAIN m /\ k.dispatch = m.dispatch
  BY <1>1, <1>2, SMTT(30)
<1>5. Sent(k)
  BY <1>2, <1>3, <1>4, ZenonT(40) DEF Sent, About, Covering
<1>6. k.hash = Exchange!Payload(k)
  BY <1>3 DEF Exchange!Payload, r
<1>7. QED
  BY <1>5, <1>6 DEF Kept, k, r

\* Shards and dispatches only grow.
Grows ==
  /\ \A w \in Workers : /\ Len(work'[w]) \in Nat /\ Len(work[w]) \in Nat /\ Len(work[w]) <= Len(work'[w])
                        /\ \A i \in 1..Len(work[w]) : work'[w][i] = work[w][i]
  /\ Len(dispatched') \in Nat /\ Len(dispatched) \in Nat /\ Len(dispatched) <= Len(dispatched')
  /\ \A i \in 1..Len(dispatched) : dispatched'[i] = dispatched[i]

\* The dispatch of an entry, however they grow.
LEMMA SameEntry ==
    ASSUME ExchangeTypes, Grows, NEW w \in Workers, NEW i \in 1..Len(work[w])
    PROVE  /\ i \in 1..Len(work'[w]) /\ work'[w][i] = work[w][i]
           /\ work[w][i].for # 0 => dispatched'[work[w][i].for] = dispatched[work[w][i].for]
<1>1. i \in 1..Len(work'[w]) /\ work'[w][i] = work[w][i]
  BY DEF Grows
<1>2. work[w] \in Seq(WorkEntries)
  BY DEF ExchangeTypes
<1>3. work[w][i] \in WorkEntries
  BY <1>2
<1>4. work[w][i].for \in Nat /\ work[w][i].for <= Len(dispatched)
  BY <1>3 DEF ExchangeTypes, WorkEntries
<1>5. QED
  BY <1>1, <1>4 DEF Grows

\* What was read or sent stays true.
LEMMA SentStays ==
    ASSUME ExchangeTypes, Grows, NEW m
    PROVE  /\ Sent(m) => Sent(m)'
           /\ Kept(m) => Kept(m)'
           /\ \A w \in Workers : Drafted(w, m) => Drafted(w, m)'
           /\ \A d : Answered(d, m) => Answered(d, m)'
<1>1. About(m) => About(m)'
  BY SameEntry DEF About
<1>2. ASSUME About(m), NEW c, Covering(m, c)
      PROVE  Covering(m, c)'
  <2>1. PICK q \in c..Len(work[m.issuer]) : m.tip = work[m.issuer][q].hash
    BY <1>2 DEF Covering
  <2>2. m.issuer \in Workers /\ c \in Nat /\ m.id \in 1..Len(work[m.issuer]) /\ m.id <= c
    BY <1>2 DEF Covering, About
  <2>3. q \in 1..Len(work[m.issuer])
    BY <2>1, <2>2 DEF Grows
  <2>4. q \in c..Len(work'[m.issuer]) /\ work'[m.issuer][q] = work[m.issuer][q]
    BY <2>1, <2>2, <2>3, SMTT(30) DEF Grows
  <2>5. QED
    BY <2>1, <2>2, <2>4 DEF Covering
<1>3. ASSUME Sent(m)
      PROVE  Sent(m)'
  <2>1. About(m) /\ About(m)'
    BY <1>1, <1>3 DEF Sent
  <2>2. \E c \in Nat : Covering(m, c)' /\ m.hash = <<m.issuer, m.id, m.ehash, m.tip, c>>
    BY <1>2, <1>3 DEF Sent
  <2>3. "dispatch" \in DOMAIN m =>
          /\ work'[m.issuer][m.id].for # 0
          /\ m.dispatch = {dispatched'[work'[m.issuer][m.id].for].hash}
    BY <2>1, <1>3, SameEntry, ZenonT(40) DEF Sent, About
  <2>4. QED
    BY <2>1, <2>2, <2>3, <1>3 DEF Sent
<1>4. Kept(m) => Kept(m)'
  BY <1>3 DEF Kept, Exchange!Payload
<1>5. ASSUME NEW w \in Workers, Drafted(w, m)
      PROVE  Drafted(w, m)'
  <2>1. /\ m.id \in 1..Len(work[w]) /\ m.count \in Nat
        /\ m.id <= m.count /\ m.count <= Len(work[w])
    BY <1>5 DEF Drafted
  <2>2. /\ m.id \in 1..Len(work'[w]) /\ work'[w][m.id] = work[w][m.id]
        /\ work[w][m.id].for # 0 => dispatched'[work[w][m.id].for] = dispatched[work[w][m.id].for]
    BY <2>1, <1>5, SameEntry
  <2>3. m.count <= Len(work'[w])
    <3>1. Len(work[w]) <= Len(work'[w]) /\ Len(work[w]) \in Nat /\ Len(work'[w]) \in Nat
      BY <1>5 DEF Grows
    <3>2. QED
      BY <3>1, <2>1
  <2>4. QED
    BY <2>1, <2>2, <2>3, <1>5 DEF Drafted
<1>6. ASSUME NEW d, Answered(d, m)
      PROVE  Answered(d, m)'
  <2>1. About(m) /\ About(m)'
    BY <1>1, <1>6 DEF Answered
  <2>2. QED
    BY <2>1, <1>6, SameEntry DEF Answered, About
<1>7. QED
  BY <1>3, <1>4, <1>5, <1>6

\* So a step after which shards and dispatches have grown needs to account
\* only for what is new in it.
LEMMA ExchangeGrows ==
    ASSUME ExchangeInv, ExchangeTypes', Grows,
           \A w \in Workers : issuing'[w] # Exchange!Idle =>
              issuing'[w] = issuing[w] \/ Drafted(w, issuing[w])',
           \A m \in wire' : m \in wire \/ Sent(m)',
           UNCHANGED received,
           \A pair \in accepted' : pair \in accepted \/ Answered(pair[1], pair[2])'
    PROVE  ExchangeInv'
<1>t. ExchangeTypes
  BY SMTT(30) DEF ExchangeInv
<1>1. \A w \in Workers : issuing'[w] # Exchange!Idle => Drafted(w, issuing[w])'
  <2>1. ASSUME NEW w \in Workers, NEW j, issuing[w] = j, j # Exchange!Idle
        PROVE  Drafted(w, j)'
    BY <2>1, <1>t, SentStays DEF ExchangeInv
  <2>2. ASSUME NEW w \in Workers, NEW j, issuing'[w] = j, j # Exchange!Idle
        PROVE  Drafted(w, j)'
    <3>1. CASE issuing[w] = j
      BY <3>1, <2>1, <2>2
    <3>2. CASE Drafted(w, issuing[w])'
      BY <3>2, <2>2 DEF Drafted
    <3>3. QED
      BY <3>1, <3>2, <2>2
  <2>3. QED
    BY <2>2 DEF Drafted
<1>2. \A m \in wire' : Sent(m)'
  BY <1>t, SentStays DEF ExchangeInv
<1>3. \A i \in 1..Len(received') : Kept(received[i])'
  <2>1. ASSUME NEW i \in 1..Len(received), NEW m, received[i] = m
        PROVE  Kept(m)'
    BY <2>1, <1>t, SentStays DEF ExchangeInv
  <2>2. ASSUME NEW i \in 1..Len(received') PROVE Kept(received[i])'
    <3>1. ASSUME NEW m, received'[i] = m PROVE Kept(m)'
      BY <3>1, <2>1, <2>2
    <3>2. QED
      BY <3>1 DEF Kept, Sent, About, Covering, Exchange!Payload
  <2>3. QED
    BY <2>2
<1>4. \A pair \in accepted' : Answered(pair[1], pair[2])'
  BY <1>t, SentStays DEF ExchangeInv
<1>5. QED
  BY <1>1, <1>2, <1>3, <1>4 DEF ExchangeInv

\* Every step of the exchange keeps the invariant.
LEMMA ExchangeSteps ==
    ASSUME ExchangeInv, Exchange!TxNext
    PROVE  ExchangeInv'
<1>t. ExchangeTypes
  BY DEF ExchangeInv
<1>y. /\ dispatched \in Seq(Dispatches) /\ Len(dispatched) \in Nat
      /\ work \in [Workers -> Seq(WorkEntries)] /\ issuing \in [Workers -> Drafts \cup {Exchange!Idle}]
  BY <1>t DEF ExchangeTypes
<1>w. \A w \in Workers : work[w] \in Seq(WorkEntries) /\ Len(work[w]) \in Nat
  BY <1>y
<1>g. UNCHANGED <<dispatched, work>> => Grows
  BY <1>y, <1>w DEF Grows
<1>s. UNCHANGED <<dispatched, work, issuing>> => ExchangeTypes'
  BY <1>t DEF ExchangeTypes
<1>1. ASSUME NEW w \in Workers, NEW p \in Tasks, Exchange!DispatchTask(w, p)
      PROVE  ExchangeInv'
  <2> DEFINE n == Len(dispatched) + 1
             d == [hash |-> <<n, p>>, entry |-> n, target |-> w, params |-> p]
  <2>1. dispatched' = Append(dispatched, d) /\ UNCHANGED <<work, issuing, wire, received, accepted>>
    BY <1>1 DEF Exchange!DispatchTask, Exchange!CreateDispatchHash
  <2>2. n \in Nat
    BY <1>y
  <2>3. d \in Dispatches /\ d.hash = <<n, d.params>>
    BY <2>2, <1>1 DEF Dispatches
  <2> HIDE DEF d
  <2>4. /\ dispatched' \in Seq(Dispatches) /\ Len(dispatched') = n /\ dispatched'[n] = d
        /\ \A i \in 1..Len(dispatched) : dispatched'[i] = dispatched[i]
    BY <2>1, <2>3, <1>y
  <2>5. \A i \in 1..Len(dispatched') : dispatched'[i].hash = <<i, dispatched'[i].params>>
    <3>1. \A i \in 1..Len(dispatched') : i \in 1..Len(dispatched) \/ i = n
      BY <2>4, <1>y
    <3>2. QED
      BY <3>1, <2>3, <2>4, <1>t DEF ExchangeTypes
  <2>6. ASSUME NEW v \in Workers, NEW i \in 1..Len(work[v])
        PROVE  work[v][i].for <= Len(dispatched')
    <3>1. work[v][i] \in WorkEntries
      BY <2>6, <1>w
    <3>2. work[v][i].for \in Nat
      BY <3>1 DEF WorkEntries
    <3>3. work[v][i].for <= Len(dispatched)
      BY <2>6, <1>t DEF ExchangeTypes
    <3>4. QED
      BY <3>2, <3>3, <2>4, <1>y
  <2>7. ExchangeTypes'
    BY <2>1, <2>4, <2>5, <2>6, <1>y DEF ExchangeTypes
  <2>8. Grows
    BY <2>1, <2>2, <2>4, <1>y, <1>w DEF Grows
  <2>9. QED
    BY <2>1, <2>7, <2>8, ExchangeGrows
<1>2. ASSUME NEW w \in Workers, NEW d \in 0..Len(dispatched), Exchange!WorkerAppend(w, d)
      PROVE  ExchangeInv'
  <2> DEFINE q == work[w]
             e == [id |-> Len(q) + 1, for |-> d, hash |-> Append(Exchange!TipOf(q), d)]
  <2>1. /\ work' = [work EXCEPT ![w] = Append(q, e)]
        /\ UNCHANGED <<dispatched, issuing, wire, received, accepted>>
    BY <1>2 DEF Exchange!WorkerAppend
  <2>2. q \in Seq(WorkEntries) /\ Len(q) \in Nat /\ d \in Nat /\ d <= Len(dispatched)
    BY <1>2, <1>w, <1>y
  <2>3. Exchange!TipOf(q) \in Seq(Nat)
    <3>1. CASE q = <<>>
      BY <3>1 DEF Exchange!TipOf
    <3>2. CASE q # <<>>
      <4>1. q[Len(q)] \in WorkEntries
        BY <3>2, <2>2
      <4>2. q[Len(q)].hash \in Seq(Nat)
        BY <4>1 DEF WorkEntries
      <4>3. QED
        BY <4>2, <3>2 DEF Exchange!TipOf, Exchange!Last
    <3>3. QED
      BY <3>1, <3>2
  <2>4. e \in WorkEntries /\ e.for = d
    <3> DEFINE h == Append(Exchange!TipOf(q), d)
               k == Len(q) + 1
    <3>1. h \in Seq(Nat) /\ k \in Nat
      BY <2>2, <2>3
    <3> HIDE DEF h, k
    <3>2. [id |-> k, for |-> d, hash |-> h] \in WorkEntries
      BY <3>1, <2>2 DEF WorkEntries
    <3>3. QED
      BY <3>2 DEF h, k
  <2> HIDE DEF e
  <2>5. /\ Append(q, e) \in Seq(WorkEntries) /\ Len(Append(q, e)) = Len(q) + 1
        /\ Append(q, e)[Len(q) + 1] = e /\ \A i \in 1..Len(q) : Append(q, e)[i] = q[i]
    BY <2>2, <2>4
  <2>6. work' \in [Workers -> Seq(WorkEntries)] /\ work'[w] = Append(q, e)
        /\ \A v \in Workers : v # w => work'[v] = work[v]
    BY <2>1, <2>5, <1>y, <1>2
  <2>7. ASSUME NEW v \in Workers, NEW i \in 1..Len(work'[v])
        PROVE  work'[v][i].for <= Len(dispatched')
    <3>1. CASE v # w \/ i \in 1..Len(q)
      <4>1. i \in 1..Len(work[v]) /\ work'[v][i] = work[v][i]
        BY <3>1, <2>5, <2>6, <2>7
      <4>2. QED
        BY <4>1, <2>1, <2>7, <1>t DEF ExchangeTypes
    <3>2. CASE v = w /\ i \notin 1..Len(q)
      <4>1. i = Len(q) + 1
        BY <3>2, <2>2, <2>5, <2>6, <2>7
      <4>2. QED
        BY <4>1, <3>2, <2>1, <2>2, <2>4, <2>5, <2>6
    <3>3. QED
      BY <3>1, <3>2
  <2>8. ExchangeTypes'
    BY <2>1, <2>6, <2>7, <1>t DEF ExchangeTypes
  <2>9. Grows
    BY <2>1, <2>2, <2>5, <2>6, <1>y, <1>w DEF Grows
  <2>10. QED
    BY <2>1, <2>8, <2>9, ExchangeGrows
<1>3. ASSUME NEW w \in Workers, NEW i \in DOMAIN work[w],
             Exchange!IssueRead(w, i, IF work[w][i].for = 0 THEN {} ELSE {dispatched[work[w][i].for].hash})
      PROVE  ExchangeInv'
  <2> DEFINE dh == IF work[w][i].for = 0 THEN {} ELSE {dispatched[work[w][i].for].hash}
             n == Len(work[w])
             h == work[w][i].hash
             j == [id |-> i, ehash |-> h, count |-> n, dispatch |-> dh]
  <2>1. issuing' = [issuing EXCEPT ![w] = j] /\ UNCHANGED <<dispatched, work, wire, received, accepted>>
    BY <1>3 DEF Exchange!IssueRead
  <2>2. i \in 1..n /\ n \in Nat /\ work[w][i] \in WorkEntries
    BY <1>3, <1>w
  <2>3. h \in Seq(Nat) /\ work[w][i].for \in Nat /\ work[w][i].for <= Len(dispatched)
    BY <2>2, <1>3, <1>t DEF WorkEntries, ExchangeTypes
  <2>4. dh \in SUBSET (Nat \X Tasks)
    <3>1. CASE work[w][i].for = 0
      BY <3>1
    <3>2. CASE work[w][i].for # 0
      <4>1. dispatched[work[w][i].for] \in Dispatches
        BY <3>2, <2>3, <1>y
      <4>2. dispatched[work[w][i].for].hash \in Nat \X Tasks
        BY <4>1 DEF Dispatches
      <4>3. QED
        BY <4>2, <3>2
    <3>3. QED
      BY <3>1, <3>2
  <2>5. dh # {} => work[w][i].for # 0 /\ dh = {dispatched[work[w][i].for].hash}
    OBVIOUS
  <2> HIDE DEF dh
  <2>6. j \in Drafts
    <3> HIDE DEF n, h
    <3>1. i \in Nat \ {0}
      BY <2>2
    <3>2. QED
      BY <3>1, <2>2, <2>3, <2>4 DEF Drafts
  <2>7. Drafted(w, j)
    <3>1. j.id = i /\ j.ehash = h /\ j.count = n /\ j.dispatch = dh
      OBVIOUS
    <3>2. QED
      BY <3>1, <2>2, <2>5 DEF Drafted
  <2> HIDE DEF j
  <2>8. ExchangeTypes'
    BY <2>1, <2>6, <1>t DEF ExchangeTypes
  <2>9. \A v \in Workers : issuing'[v] # Exchange!Idle => issuing'[v] = issuing[v] \/ Drafted(v, issuing[v])'
    <3>1. ASSUME NEW v \in Workers, v # w
          PROVE  issuing'[v] = issuing[v]
      BY <3>1, <2>1, <1>y
    <3>2. Drafted(w, issuing[w])'
      <4>1. issuing'[w] = j
        BY <2>1, <1>y, <1>3
      <4>2. QED
        BY <4>1, <2>1, <2>7 DEF Drafted
    <3>3. QED
      BY <3>1, <3>2
  <2>10. QED
    BY <2>1, <2>8, <2>9, <1>g, ExchangeGrows
<1>4. ASSUME NEW w \in Workers, NEW s \in BOOLEAN, Exchange!IssueSend(w, s)
      PROVE  ExchangeInv'
  <2> DEFINE j == issuing[w]
             r == Exchange!NewReceipt(w, j, s)
             m == Exchange!ToDict(r)
             q == work[w]
             tip == Exchange!TipOf(q)
  <2>1. /\ j # Exchange!Idle /\ wire' = wire \cup {m} /\ issuing' = [issuing EXCEPT ![w] = Exchange!Idle]
        /\ UNCHANGED <<dispatched, work, received, accepted>>
    BY <1>4 DEF Exchange!IssueSend
  <2>2. Drafted(w, j)
    BY <2>1, <1>4 DEF ExchangeInv
  <2>3. /\ r.issuer = w /\ r.id = j.id /\ r.ehash = j.ehash /\ r.count = j.count /\ r.tip = tip
        /\ r.dispatch = j.dispatch /\ r.hash = <<w, j.id, j.ehash, tip, j.count>>
        /\ Fields \subseteq DOMAIN r
    <3> HIDE DEF j, tip
    <3>1. r = [issuer |-> w, id |-> j.id, ehash |-> j.ehash, count |-> j.count, tip |-> tip,
               hash |-> <<w, j.id, j.ehash, tip, j.count>>, dispatch |-> j.dispatch,
               sig |-> IF s THEN {<<w, <<w, j.id, j.ehash, tip, j.count>>>>} ELSE {}]
      BY DEF Exchange!NewReceipt, Exchange!Payload, Exchange!ReceiptTip, tip
    <3>2. QED
      BY <3>1 DEF Fields
  <2> HIDE DEF r
  <2>4. /\ Fields \subseteq DOMAIN m /\ \A f \in Fields : m[f] = r[f]
        /\ "dispatch" \in DOMAIN m => r["dispatch"] # {} /\ m["dispatch"] = r["dispatch"]
    BY <2>3, DictFields
  <2> HIDE DEF m
  <2>5. /\ m.issuer = w /\ m.id = j.id /\ m.ehash = j.ehash /\ m.tip = tip
        /\ m.hash = <<w, j.id, j.ehash, tip, j.count>>
        /\ "dispatch" \in DOMAIN m => j.dispatch # {} /\ m.dispatch = j.dispatch
    BY <2>3, <2>4 DEF Fields
  <2>6. Len(q) \in j.count..Len(q) /\ tip = q[Len(q)].hash
    <3>1. q # <<>> /\ j.count \in Nat /\ j.count <= Len(q) /\ Len(q) \in Nat
      BY <2>2, <1>w, <1>4 DEF Drafted
    <3>2. QED
      BY <3>1 DEF Exchange!TipOf, Exchange!Last
  <2>7. About(m) /\ Covering(m, j.count)
    BY <2>2, <2>5, <2>6, <1>4 DEF About, Covering, Drafted
  <2>8. Sent(m)
    BY <2>2, <2>4, <2>5, <2>7, SMTT(30) DEF Sent, Covering, Drafted
  <2>10. ExchangeTypes'
    BY <2>1, <1>t DEF ExchangeTypes
  <2>11. \A v \in Workers : issuing'[v] # Exchange!Idle => issuing'[v] = issuing[v]
    BY <2>1, <1>y
  <2>12. \A x \in wire' : x \in wire \/ Sent(x)'
    <3>1. ASSUME NEW x, x = m PROVE Sent(x)'
      BY <3>1, <2>8, <2>1 DEF Sent, About, Covering
    <3>2. QED
      BY <3>1, <2>1
  <2>13. QED
    BY <2>1, <2>10, <2>11, <2>12, <1>g, ExchangeGrows
<1>5. ASSUME NEW m \in wire, Exchange!ReceiveReceipt(m)
      PROVE  ExchangeInv'
  <2> DEFINE r == Exchange!FromDict(m)
             k == Exchange!ToDict(r)
  <2>1. /\ Exchange!ReceiptStatus(r) = "INTACT" /\ received' = Append(received, k)
        /\ UNCHANGED <<dispatched, work, issuing, wire, accepted>>
    BY <1>5 DEF Exchange!ReceiveReceipt, Exchange!StoreExternalReceipt
  <2>2. r.hash = Exchange!Payload(r)
    BY <2>1 DEF Exchange!ReceiptStatus
  <2>3. Kept(k)
    BY <2>2, <1>5, KeptOfSent DEF ExchangeInv
  <2> HIDE DEF k
  <2>4. PICK S : received \in Seq(S)
    BY DEF ExchangeInv
  <2>5. received \in Seq(S \cup {k})
    BY <2>4
  <2>6. /\ received' \in Seq(S \cup {k}) /\ Len(received) \in Nat /\ Len(received') = Len(received) + 1
        /\ received'[Len(received) + 1] = k
        /\ \A i \in 1..Len(received) : received'[i] = received[i]
    BY <2>1, <2>5
  <2>7. \A i \in 1..Len(received') : Kept(received'[i])
    <3>1. \A i \in 1..Len(received') : i \in 1..Len(received) \/ i = Len(received) + 1
      BY <2>6
    <3>2. QED
      BY <3>1, <2>3, <2>6 DEF ExchangeInv
  <2>8. \A i \in 1..Len(received') : Kept(received[i])'
    <3>1. ASSUME NEW i \in 1..Len(received') PROVE Kept(received[i])'
      BY <3>1, <2>1, <2>7, ZenonT(40) DEF Kept, Sent, About, Covering, Exchange!Payload
    <3>2. QED
      BY <3>1, SMTT(30)
  <2>9. \A w \in Workers : issuing'[w] # Exchange!Idle => Drafted(w, issuing[w])'
    BY <2>1 DEF ExchangeInv, Drafted
  <2>10. \A x \in wire' : Sent(x)'
    BY <2>1, SMTT(30) DEF ExchangeInv, Sent, About, Covering
  <2>11. \A pair \in accepted' : Answered(pair[1], pair[2])'
    BY <2>1 DEF ExchangeInv, Answered, About
  <2>12. QED
    BY <2>1, <2>6, <2>8, <2>9, <2>10, <2>11, <1>s DEF ExchangeInv
<1>6. ASSUME NEW m \in wire, NEW f \in GarbledFields, Exchange!Garble(m, f)
      PROVE  ExchangeInv'
  <2>1. UNCHANGED <<dispatched, work, issuing, received, accepted>>
    BY <1>6 DEF Exchange!Garble
  <2>2. \E v : wire' = wire \cup {[m EXCEPT ![f] = v]}
    BY <1>6 DEF Exchange!Garble
  <2>3. PICK v : wire' = wire \cup {[m EXCEPT ![f] = v]}
    BY <2>2
  <2>4. f \in {"count", "sig"} /\ Sent(m)
    BY <1>6, CoveredFields DEF ExchangeInv
  <2> DEFINE k == [m EXCEPT ![f] = v]
  <2>5. /\ DOMAIN k = DOMAIN m /\ k.issuer = m.issuer /\ k.id = m.id /\ k.ehash = m.ehash
        /\ k.tip = m.tip /\ k.hash = m.hash
        /\ "dispatch" \in DOMAIN m => k.dispatch = m.dispatch
    BY <2>4, SMTT(30) DEF Sent, Fields
  <2> HIDE DEF k
  <2>6. Sent(k)
    BY <2>4, <2>5 DEF Sent, About, Covering
  <2>7. \A x \in wire' : x \in wire \/ Sent(x)'
    <3>1. ASSUME NEW x, x = k PROVE Sent(x)'
      BY <3>1, <2>1, <2>6 DEF Sent, About, Covering
    <3>2. QED
      BY <3>1, <2>3 DEF k
  <2>8. QED
    BY <2>1, <2>7, <1>g, <1>s, ExchangeGrows
<1>7. ASSUME NEW i \in DOMAIN dispatched, NEW r \in Exchange!ListReceived,
             Exchange!CheckCausal(dispatched[i], r)
      PROVE  ExchangeInv'
  <2> DEFINE d == dispatched[i]
  <2>1. /\ r.dispatch = {d.hash} /\ accepted' = accepted \cup {<<d, r>>}
        /\ UNCHANGED <<dispatched, work, issuing, wire, received>>
    BY <1>7 DEF Exchange!CheckCausal, Exchange!CausalChainValid
  <2>2. PICK k \in DOMAIN received : r = Exchange!FromDict(received[k])
    BY <1>7 DEF Exchange!ListReceived
  <2>3. k \in 1..Len(received)
    BY <2>2 DEF ExchangeInv
  <2> DEFINE m == received[k]
  <2>4. Sent(m)
    BY <2>3 DEF ExchangeInv, Kept
  <2>5. /\ r = Exchange!FromDict(m) /\ Fields \subseteq DOMAIN m
    BY <2>2, <2>4 DEF Sent
  <2> HIDE DEF m
  <2>6. /\ r.issuer = m.issuer /\ r.id = m.id /\ r.ehash = m.ehash
        /\ r.dispatch = IF "dispatch" \in DOMAIN m THEN m.dispatch ELSE {}
    BY <2>5, DictBack DEF Fields
  <2>7. "dispatch" \in DOMAIN m /\ m.dispatch = {d.hash}
    BY <2>1, <2>6
  <2> DEFINE f == work[m.issuer][m.id].for
  <2>8. f # 0 /\ dispatched[f].hash = d.hash /\ About(m)
    BY <2>4, <2>7 DEF Sent
  <2>9. f \in 1..Len(dispatched) /\ i \in 1..Len(dispatched)
    <3>1. m.issuer \in Workers /\ m.id \in 1..Len(work[m.issuer])
      BY <2>8 DEF About
    <3>2. work[m.issuer][m.id] \in WorkEntries
      BY <3>1, <1>w
    <3>3. f \in Nat /\ f <= Len(dispatched)
      BY <3>1, <3>2, <1>t DEF WorkEntries, ExchangeTypes
    <3>4. QED
      BY <3>3, <2>8, <1>7, <1>y
  <2>10. f = i
    <3> HIDE DEF f
    <3>1. dispatched[f].hash = <<f, dispatched[f].params>> /\ d.hash = <<i, d.params>>
      BY <2>9, <1>t DEF ExchangeTypes
    <3>2. QED
      BY <3>1, <2>8
  <2>11. Answered(d, r)
    BY <2>6, <2>8, <2>10 DEF Answered, About
  <2>12. \A pair \in accepted' : pair \in accepted \/ Answered(pair[1], pair[2])'
    <3>1. ASSUME NEW x, x = <<d, r>> PROVE Answered(x[1], x[2])'
      <4>1. x[1] = d /\ x[2] = r
        BY <3>1
      <4>2. Answered(x[1], x[2])
        BY <4>1, <2>11
      <4>3. QED
        BY <4>2, <2>1 DEF Answered, About
    <3>2. QED
      BY <3>1, <2>1
  <2>13. QED
    BY <2>1, <2>12, <1>g, <1>s, ExchangeGrows
<1>8. ASSUME NEW w \in Workers, NEW in \in Tasks, NEW out \in Tasks, NEW d \in 0..Len(dispatched),
             Exchange!AttestCompute(w, in, out, d)
      PROVE  ExchangeInv'
  <2>1. UNCHANGED <<dispatched, work, issuing, wire, received, accepted>>
    BY <1>8 DEF Exchange!AttestCompute
  <2>2. QED
    BY <2>1, <1>g, <1>s, ExchangeGrows
<1>9. QED
  BY <1>1, <1>2, <1>3, <1>4, <1>5, <1>6, <1>7, <1>8, Zenon DEF Exchange!TxNext

\* The exchange does not notice the steps of the other services.
LEMMA ExchangeAlone ==
    ASSUME ExchangeInv, UNCHANGED exchangeVars
    PROVE  ExchangeInv'
<1>1. UNCHANGED <<dispatched, work, issuing, wire, received, accepted>>
  BY DEF exchangeVars
<1>2. ExchangeTypes /\ ExchangeTypes'
  BY <1>1 DEF ExchangeInv, ExchangeTypes
<1>3. Grows
  <2>1. \A w \in Workers : Len(work[w]) \in Nat
    BY <1>2 DEF ExchangeTypes
  <2>2. Len(dispatched) \in Nat
    BY <1>2 DEF ExchangeTypes
  <2>3. QED
    BY <1>1, <2>1, <2>2 DEF Grows
<1>4. QED
  BY <1>1, <1>2, <1>3, ExchangeGrows

\* What the invariant is for.
LEMMA ExchangeHolds ==
    ASSUME ExchangeInv
    PROVE  Exchange!AcceptedIsAnswer /\ Exchange!TipCoversCount
<1>t. \A w \in Workers : work[w] \in Seq(WorkEntries) /\ DOMAIN work[w] = 1..Len(work[w]) /\ Len(work[w]) \in Nat
  BY DEF ExchangeInv, ExchangeTypes
<1>1. ASSUME NEW d, NEW r, Answered(d, r)
      PROVE  /\ Exchange!StorageStatus(r) = "CONFIRMED"
             /\ work[r.issuer][r.id].for # 0 /\ dispatched[work[r.issuer][r.id].for] = d
  <2>1. /\ r.issuer \in Workers /\ r.id \in 1..Len(work[r.issuer])
        /\ r.ehash = work[r.issuer][r.id].hash
    BY <1>1 DEF Answered, About
  <2>2. work[r.issuer] # <<>> /\ r.id \in DOMAIN work[r.issuer]
    BY <2>1, <1>t
  <2>3. Exchange!StorageStatus(r) = "CONFIRMED"
    BY <2>1, <2>2 DEF Exchange!StorageStatus
  <2>4. QED
    BY <2>3, <1>1 DEF Answered
<1>2. Exchange!AcceptedIsAnswer
  BY <1>1 DEF ExchangeInv, Exchange!AcceptedIsAnswer
<1>3. ASSUME NEW r, Kept(r)
      PROVE  r.id <= r.count /\ \E p \in r.count..Len(work[r.issuer]) : r.tip = work[r.issuer][p].hash
  <2>1. PICK c \in Nat : Covering(r, c) /\ r.hash = <<r.issuer, r.id, r.ehash, r.tip, c>>
    BY <1>3 DEF Kept, Sent
  <2>2. r.hash = <<r.issuer, r.id, r.ehash, r.tip, r.count>>
    BY <1>3 DEF Kept, Exchange!Payload
  <2>3. r.count = c
    BY <2>1, <2>2
  <2>4. QED
    BY <2>1, <2>3 DEF Covering
<1>4. DOMAIN received = 1..Len(received)
  BY DEF ExchangeInv
<1>5. Exchange!TipCoversCount
  BY <1>3, <1>4 DEF ExchangeInv, Exchange!TipCoversCount
<1>6. QED
  BY <1>2, <1>5

-----------------------------------------------------------------------------
(* Policy audits: a compliant report is right about what was read.          *)

\* The part of a shard that an audit read.
ReadOf(s, n) == SubSeq(alog[s], 1, n)

\* Nothing in it breaks the policy, and no session is over its limit.
CleanOf(p, s, n) ==
  /\ \A i \in DOMAIN ReadOf(s, n) : ~Policy!Breaks(p, s, ReadOf(s, n)[i])
  /\ p.max # Policy!NoLimit =>
       \A c \in Sessions :
         Cardinality({i \in DOMAIN ReadOf(s, n) :
                        ReadOf(s, n)[i].kind = "action_intent" /\ ReadOf(s, n)[i].session = c}) <= p.max

\* A result an audit recorded: without violations only for a clean part.
Audited(p, x) ==
  /\ x.shard \in Policy!ShardSet
  /\ x.total \in Nat /\ x.total <= Len(alog[x.shard])
  /\ x.count = 0 => CleanOf(p, x.shard, x.total)

\* The audit in progress.
Auditing(a) ==
  /\ a = [policy |-> a.policy, engine |-> a.engine, todo |-> a.todo, results |-> a.results]
  /\ a.policy \subseteq Rules /\ \A p, q \in a.policy : p = q
  /\ a.todo \in Seq(Policy!ShardSet)
  /\ \E S : a.results \in Seq(S)
  /\ \A p \in a.policy, k \in 1..Len(a.results) : Audited(p, a.results[k])

\* A report: whatever its results are now, its hash is of audited ones.
Reported(r) ==
  /\ r = [engine |-> r.engine, policy |-> r.policy, results |-> r.results, hash |-> r.hash]
  /\ r.policy \subseteq Rules
  /\ DOMAIN r.hash[2] = 1..Len(r.hash[2])
  /\ \A p \in r.policy, k \in 1..Len(r.hash[2]) : Audited(p, r.hash[2][k])

\* The inductive invariant of the audits.
PolicyInv ==
  /\ alog \in [Policy!ShardSet -> Seq(Policy!Entry)]
  /\ audit # Policy!NoAudit => Auditing(audit)
  /\ \A r \in reports : Reported(r)

\* Empty shards, no audit and no report.
LEMMA PolicyStarts == Policy!PaInit => PolicyInv
BY DEF Policy!PaInit, PolicyInv

\* An audit reads entries that were there, and nothing later changes them.
LEMMA ReadFacts ==
    ASSUME NEW s, NEW T, alog[s] \in Seq(T), NEW n \in Nat, n <= Len(alog[s])
    PROVE  ReadOf(s, n) = [i \in 1..n |-> alog[s][i]]
<1>1. Len(alog[s]) \in Nat
  OBVIOUS
<1>2. QED
  BY <1>1 DEF ReadOf

\* The audit counts as FiniteSets counts.
LEMMA SameCount == ASSUME NEW S PROVE Policy!Cardinality(S) = Cardinality(S)
BY Zenon DEF Policy!Cardinality, Policy!IsFiniteSet, Cardinality, IsFiniteSet

\* What the audit of a shard says.
LEMMA AuditFields ==
    ASSUME NEW p, NEW s, NEW es
    PROVE  /\ Policy!AuditShard(p, s, es).shard = s
           /\ Policy!AuditShard(p, s, es).total = Len(es)
           /\ Policy!AuditShard(p, s, es).count
                = Cardinality(Policy!Violations(p, s, es)) + Cardinality(Policy!OverLimit(p, es))
BY SameCount DEF Policy!AuditShard

\* Without violations no entry breaks a rule.
LEMMA NoneFound ==
    ASSUME NEW p, NEW s, NEW es, Policy!Violations(p, s, es) = {}, NEW i \in DOMAIN es,
           NEW r \in {"allowed_shards", "allowed_sources", "forbidden_actions", "allowed_actions"}
    PROVE  r \notin Policy!Broken(p, s, es[i])
<1> DEFINE D == DOMAIN es
           R == {"allowed_shards", "allowed_sources", "forbidden_actions", "allowed_actions"}
           P(v) == v[2] \in Policy!Broken(p, s, es[v[1]])
<1>1. {v \in D \X R : P(v)} = {}
  BY Zenon DEF Policy!Violations
<1>2. i \in D /\ r \in R
  OBVIOUS
<1> HIDE DEF D, R, P
<1>3. <<i, r>> \in D \X R
  BY <1>2
<1>4. ~P(<<i, r>>)
  BY <1>1, <1>3, Zenon
<1>5. QED
  BY <1>4 DEF P

\* The audit of a shard.
LEMMA AuditTells ==
    ASSUME NEW p \in Rules, NEW s \in Policy!ShardSet, NEW es \in Seq(Policy!Entry),
           es = alog[s]
    PROVE  Audited(p, Policy!AuditShard(p, s, es))
<1> DEFINE n == Len(es)
           rules == {"allowed_shards", "allowed_sources", "forbidden_actions", "allowed_actions"}
           found == Policy!Violations(p, s, es)
           over == Policy!OverLimit(p, es)
           x == Policy!AuditShard(p, s, es)
<1>1. /\ x.shard = s /\ x.total = n /\ x.count = Cardinality(found) + Cardinality(over)
  BY AuditFields
<1>2. n \in Nat /\ DOMAIN es = 1..n /\ \A i \in 1..n : es[i] \in Policy!Entry
  OBVIOUS
<1> HIDE DEF x, n
<1>3. IsFiniteSet(found) /\ IsFiniteSet(over)
  <2>0. n \in Nat
    BY <1>2
  <2>1. IsFiniteSet(1..n)
    BY <2>0, FS_Interval
  <2>2. IsFiniteSet(rules)
    <3>1. IsFiniteSet({"allowed_shards"}) /\ IsFiniteSet({"allowed_sources"})
          /\ IsFiniteSet({"forbidden_actions"}) /\ IsFiniteSet({"allowed_actions"})
      BY FS_Singleton
    <3>2. /\ IsFiniteSet({"allowed_shards"} \cup {"allowed_sources"})
          /\ IsFiniteSet({"forbidden_actions"} \cup {"allowed_actions"})
      BY <3>1, FS_Union
    <3>3. IsFiniteSet(({"allowed_shards"} \cup {"allowed_sources"})
                      \cup ({"forbidden_actions"} \cup {"allowed_actions"}))
      BY <3>2, FS_Union
    <3>4. rules = ({"allowed_shards"} \cup {"allowed_sources"})
                  \cup ({"forbidden_actions"} \cup {"allowed_actions"})
      OBVIOUS
    <3>5. QED
      BY <3>3, <3>4
  <2>3. IsFiniteSet((DOMAIN es) \X rules)
    <3> HIDE DEF rules
    <3>1. IsFiniteSet(DOMAIN es)
      BY <1>2, <2>1
    <3> DEFINE D == DOMAIN es
    <3>2. IsFiniteSet(D)
      BY <3>1
    <3> HIDE DEF D
    <3>3. IsFiniteSet(D \X rules)
      BY <3>2, <2>2, FS_Product
    <3>4. QED
      BY <3>3, Zenon DEF D
  <2>4. found \subseteq (DOMAIN es) \X rules
    BY Zenon DEF Policy!Violations
  <2>5. over \subseteq Sessions
    BY DEF Policy!OverLimit
  <2>6. QED
    BY <2>3, <2>4, <2>5, FiniteSessions, FS_Subset
<1>4. Cardinality(found) \in Nat /\ Cardinality(over) \in Nat
  BY <1>3, FS_CardinalityType
<1>5. ASSUME x.count = 0
      PROVE  CleanOf(p, s, n)
  <2>1. Cardinality(found) = 0 /\ Cardinality(over) = 0
    BY <1>1, <1>4, <1>5
  <2>2. found = {} /\ over = {}
    <3> HIDE DEF found, over
    <3>1. QED
      BY <2>1, <1>3, FS_EmptySet
  <2>3. ReadOf(s, n) = [i \in 1..n |-> es[i]]
    BY <1>2, ReadFacts
  <2>4. \A i \in 1..n : es[i].action = "" => es[i].kind # "action_intent"
    <3>1. ASSUME NEW e \in Policy!Entry PROVE e.action = "" => e.kind # "action_intent"
      <4>1. \/ e.kind = "session_start"
            \/ e.action \in Actions
        BY <3>1 DEF Policy!Entry
      <4>2. QED
        BY <4>1, NamedActions
    <3>2. QED
      BY <3>1, <1>2
  <2>5. ASSUME NEW i \in 1..n
        PROVE  ~Policy!Breaks(p, s, es[i])
    <3>1. ASSUME NEW r \in rules PROVE r \notin Policy!Broken(p, s, es[i])
      <4>1. i \in DOMAIN es
        BY <1>2, <2>5
      <4>2. QED
        BY <4>1, <2>2, <3>1, NoneFound, Zenon
    <3>2. QED
      BY <3>1, <2>4, <2>5 DEF Policy!Broken, Policy!Breaks
  <2>6. ASSUME NEW c \in Sessions, p.max # Policy!NoLimit
        PROVE  Cardinality({i \in 1..n : es[i].kind = "action_intent" /\ es[i].session = c}) <= p.max
    <3> DEFINE A == {i \in Policy!Intents(es) : es[i].session = c}
               B == {i \in 1..n : es[i].kind = "action_intent" /\ es[i].session = c}
    <3>1. A = B
      BY <1>2, <2>4 DEF Policy!Intents
    <3>2. ~(Cardinality(A) > p.max)
      <4>0. Policy!OverLimit(p, es)
              = {v \in Sessions : Cardinality({i \in Policy!Intents(es) : es[i].session = v}) > p.max}
        BY <2>6, SameCount, Zenon DEF Policy!OverLimit
      <4>1. c \notin Policy!OverLimit(p, es)
        BY <2>2
      <4>2. c \notin {v \in Sessions : Cardinality({i \in Policy!Intents(es) : es[i].session = v}) > p.max}
        BY <4>0, <4>1
      <4>3. QED
        BY <4>2, <2>6, Zenon
    <3>3. Cardinality(B) \in Nat
      <4>1. IsFiniteSet(1..n)
        BY <1>2, FS_Interval
      <4>2. B \subseteq 1..n
        OBVIOUS
      <4>3. QED
        BY <4>1, <4>2, FS_Subset, FS_CardinalityType
    <3>4. p.max \in Int
      BY PolicyRecords
    <3> HIDE DEF A, B
    <3>5. Cardinality(B) <= p.max
      BY <3>1, <3>2, <3>3, <3>4
    <3>6. QED
      BY <3>5 DEF B
  <2>7. {i \in DOMAIN ReadOf(s, n) : TRUE} = 1..n /\ \A i \in 1..n : ReadOf(s, n)[i] = es[i]
    BY <2>3
  <2>8. DOMAIN ReadOf(s, n) = 1..n
    BY <2>3
  <2>9. \A c : {i \in DOMAIN ReadOf(s, n) : ReadOf(s, n)[i].kind = "action_intent" /\ ReadOf(s, n)[i].session = c}
               = {i \in 1..n : es[i].kind = "action_intent" /\ es[i].session = c}
    BY <2>7, <2>8
  <2>10. QED
    BY <2>5, <2>6, <2>7, <2>8, <2>9 DEF CleanOf
<1>6. QED
  BY <1>1, <1>2, <1>5 DEF Audited, x

\* A shard that grows does not change what was read of it.
LEMMA AuditedStays ==
    ASSUME alog \in [Policy!ShardSet -> Seq(Policy!Entry)],
           alog' \in [Policy!ShardSet -> Seq(Policy!Entry)],
           \A s \in Policy!ShardSet : /\ Len(alog[s]) <= Len(alog'[s])
                                      /\ \A i \in 1..Len(alog[s]) : alog'[s][i] = alog[s][i],
           NEW p, NEW x, Audited(p, x)
    PROVE  Audited(p, x)'
<1> DEFINE s == x.shard
           n == x.total
<1>1. s \in Policy!ShardSet /\ n \in Nat /\ n <= Len(alog[s])
  BY DEF Audited
<1>2. alog[s] \in Seq(Policy!Entry) /\ alog'[s] \in Seq(Policy!Entry)
      /\ Len(alog[s]) \in Nat /\ Len(alog'[s]) \in Nat
  BY <1>1
<1>3. n <= Len(alog'[s]) /\ \A i \in 1..n : alog'[s][i] = alog[s][i]
  BY <1>1, <1>2
<1>4. ReadOf(s, n) = [i \in 1..n |-> alog[s][i]]
  BY <1>1, <1>2, ReadFacts
<1>5. SubSeq(alog'[s], 1, n) = [i \in 1..n |-> alog'[s][i]]
  BY <1>1, <1>2, <1>3
<1>6. ReadOf(s, n)' = ReadOf(s, n)
  BY <1>3, <1>4, <1>5 DEF ReadOf
<1>7. CleanOf(p, s, n) => CleanOf(p, s, n)'
  BY <1>6 DEF CleanOf, Policy!Breaks
<1>8. QED
  BY <1>1, <1>3, <1>7 DEF Audited

\* An adapter gives back the policy that was written for its engine.
LEMMA LoadsBack ==
    ASSUME NEW p \in Rules, NEW g \in Policy!Engines
    PROVE  Policy!Document(g, p).engine = g /\ Policy!Load(g, Policy!Document(g, p)) = p
<1>0. Policy!Document(g, p).engine = g
  BY DEF Policy!Document
<1>p. p = [allow |-> p.allow, deny |-> p.deny, sources |-> p.sources, max |-> p.max, shards |-> p.shards]
  BY PolicyRecords
<1>1. CASE g = "inkog"
  <2> DEFINE L == [max |-> p.max, shards |-> p.shards]
             R == [allow |-> p.allow, deny |-> p.deny, sources |-> p.sources, limits |-> L]
  <2>1. Policy!Document(g, p).rules = R
    BY <1>1 DEF Policy!Document
  <2>2. /\ R.allow = p.allow /\ R.deny = p.deny /\ R.sources = p.sources /\ R.limits = L
        /\ L.max = p.max /\ L.shards = p.shards
        /\ DOMAIN R = {"allow", "deny", "sources", "limits"} /\ DOMAIN L = {"max", "shards"}
    OBVIOUS
  <2> HIDE DEF L, R
  <2>3. /\ Policy!Get(R, "limits", <<>>) = L /\ Policy!Get(R, "allow", Policy!NoList) = p.allow
        /\ Policy!Get(R, "deny", {}) = p.deny /\ Policy!Get(R, "sources", Policy!NoList) = p.sources
        /\ Policy!Get(L, "max", Policy!NoLimit) = p.max /\ Policy!Get(L, "shards", Policy!NoList) = p.shards
    BY <2>2 DEF Policy!Get
  <2>4. Policy!LoadInkog(Policy!Document(g, p)) = p
    BY <2>1, <2>3, <1>p, Zenon DEF Policy!LoadInkog
  <2>5. QED
    BY <1>0, <1>1, <2>4 DEF Policy!Load
<1>2. CASE g = "opa"
  <2> DEFINE R == [allow_actions |-> p.allow, deny_actions |-> p.deny, allow_sources |-> p.sources,
                   max_actions |-> p.max, allow_shards |-> p.shards]
  <2>1. Policy!Document(g, p).rules = R
    BY <1>2 DEF Policy!Document
  <2>2. /\ R.allow_actions = p.allow /\ R.deny_actions = p.deny /\ R.allow_sources = p.sources
        /\ R.max_actions = p.max /\ R.allow_shards = p.shards
        /\ DOMAIN R = {"allow_actions", "deny_actions", "allow_sources", "max_actions", "allow_shards"}
    OBVIOUS
  <2> HIDE DEF R
  <2>3. /\ Policy!Get(R, "allow_actions", Policy!NoList) = p.allow
        /\ Policy!Get(R, "deny_actions", {}) = p.deny
        /\ Policy!Get(R, "allow_sources", Policy!NoList) = p.sources
        /\ Policy!Get(R, "max_actions", Policy!NoLimit) = p.max
        /\ Policy!Get(R, "allow_shards", Policy!NoList) = p.shards
    BY <2>2 DEF Policy!Get
  <2>4. Policy!LoadOPA(Policy!Document(g, p)) = p
    BY <2>1, <2>3, <1>p, Zenon DEF Policy!LoadOPA
  <2>5. QED
    BY <1>0, <1>2, <2>4 DEF Policy!Load
<1>3. QED
  BY <1>1, <1>2 DEF Policy!Engines

\* The steps of the audits.
LEMMA PolicySteps ==
    ASSUME PolicyInv, Policy!PaNext
    PROVE  PolicyInv'
<1>t. alog \in [Policy!ShardSet -> Seq(Policy!Entry)]
  BY DEF PolicyInv
<1>k. ASSUME UNCHANGED alog, NEW p, NEW x, Audited(p, x)
      PROVE  Audited(p, x)'
  BY <1>k DEF Audited, CleanOf, ReadOf, Policy!Breaks
<1>a. ASSUME UNCHANGED alog, NEW a, Auditing(a)
      PROVE  Auditing(a)'
  BY <1>k, <1>a DEF Auditing
<1>r. ASSUME UNCHANGED alog, NEW r, Reported(r)
      PROVE  Reported(r)'
  BY <1>k, <1>r DEF Reported
<1>1. ASSUME NEW s \in Policy!ShardSet, NEW e \in Policy!Entry, Policy!Write(s, e)
      PROVE  PolicyInv'
  <2>1. alog' = [alog EXCEPT ![s] = Append(alog[s], e)] /\ UNCHANGED <<audit, reports>>
    BY <1>1 DEF Policy!Write
  <2>2. alog' \in [Policy!ShardSet -> Seq(Policy!Entry)]
    BY <2>1, <1>1, <1>t
  <2>3. \A v \in Policy!ShardSet : /\ Len(alog[v]) <= Len(alog'[v])
                                   /\ \A i \in 1..Len(alog[v]) : alog'[v][i] = alog[v][i]
    BY <2>1, <1>1, <1>t
  <2>4. ASSUME NEW p, NEW x, Audited(p, x) PROVE Audited(p, x)'
    BY <2>2, <2>3, <2>4, <1>t, AuditedStays
  <2>5. audit # Policy!NoAudit => Auditing(audit)'
    BY <2>1, <2>4 DEF PolicyInv, Auditing
  <2>6. \A r \in reports : Reported(r)'
    BY <2>4 DEF PolicyInv, Reported
  <2>7. QED
    BY <2>1, <2>2, <2>5, <2>6 DEF PolicyInv, Policy!NoAudit
<1>2. ASSUME NEW g \in Policy!Engines, NEW p \in Rules, NEW named,
             NEW shards \in {Shards} \cup {<<s>> : s \in Policy!ShardSet},
             Policy!StartAudit(Policy!Document(g, p), named, shards)
      PROVE  PolicyInv'
  <2>1. UNCHANGED <<alog, reports>>
    BY <1>2 DEF Policy!StartAudit
  <2>2. audit' = [policy |-> {p}, engine |-> g, todo |-> shards, results |-> <<>>]
    <3>1. PICK name : /\ name = Policy!Document(g, p).engine
                      /\ audit' = [policy |-> {Policy!Load(name, Policy!Document(g, p))}, engine |-> name,
                                   todo |-> shards, results |-> <<>>]
      BY <1>2, Zenon DEF Policy!StartAudit
    <3>2. QED
      BY <3>1, LoadsBack, Zenon
  <2>3. shards \in Seq(Policy!ShardSet)
    <3>1. Policy!ShardSet = {Shards[i] : i \in DOMAIN Shards}
      BY DEF Policy!ShardSet, Policy!Range
    <3>2. \A s \in Policy!ShardSet : <<s>> \in Seq(Policy!ShardSet)
      OBVIOUS
    <3>3. QED
      BY <3>1, <3>2, <1>2, AuditedShards
  <2>4. Auditing(audit)'
    <3>1. <<>> \in Seq({}) /\ Len(<<>>) = 0
      OBVIOUS
    <3>2. /\ audit'.policy = {p} /\ audit'.engine = g /\ audit'.todo = shards /\ audit'.results = <<>>
      BY <2>2
    <3>4. QED
      <4>1. \E S : audit'.results \in Seq(S)
        BY <3>1, <3>2, Zenon
      <4>2. audit' = [policy |-> audit'.policy, engine |-> audit'.engine, todo |-> audit'.todo,
                      results |-> audit'.results]
        BY <2>2, <3>2
      <4>3. audit'.policy \subseteq Rules /\ (\A u, v \in audit'.policy : u = v)
        BY <3>2
      <4>4. (\A q \in audit.policy, k \in 1..Len(audit.results) : Audited(q, audit.results[k]))'
        BY <3>1, <3>2
      <4>5. QED
        BY <4>1, <4>2, <4>3, <4>4, <3>2, <2>3, Zenon DEF Auditing
  <2>5. QED
    BY <2>1, <2>4, <1>r DEF PolicyInv
<1>3. ASSUME Policy!AuditNext
      PROVE  PolicyInv'
  <2>1. UNCHANGED <<alog, reports>> /\ audit # Policy!NoAudit /\ audit.todo # <<>>
    BY <1>3 DEF Policy!AuditNext
  <2>2. Auditing(audit)
    BY <2>1 DEF PolicyInv
  <2> DEFINE s == Head(audit.todo)
  <2>3. PICK p \in audit.policy :
          audit' = [audit EXCEPT !.todo = Tail(audit.todo),
                                 !.results = Append(audit.results, Policy!AuditShard(p, s, alog[s]))]
    BY <1>3, Zenon DEF Policy!AuditNext
  <2> DEFINE y == Policy!AuditShard(p, s, alog[s])
             rest == Tail(audit.todo)
             res == Append(audit.results, y)
  <2>4. s \in Policy!ShardSet /\ rest \in Seq(Policy!ShardSet)
    <3>1. audit.todo \in Seq(Policy!ShardSet)
      BY <2>2 DEF Auditing
    <3>2. QED
      BY <3>1, <2>1
  <2>5. Audited(p, y)
    <3>1. p \in Rules /\ alog[s] \in Seq(Policy!Entry)
      BY <2>2, <2>3, <2>4, <1>t DEF Auditing
    <3>2. QED
      BY <3>1, <2>4, AuditTells
  <2>6. audit' = [policy |-> audit.policy, engine |-> audit.engine, todo |-> rest, results |-> res]
    <3> HIDE DEF y
    <3>1. audit = [policy |-> audit.policy, engine |-> audit.engine, todo |-> audit.todo,
                   results |-> audit.results]
      BY <2>2 DEF Auditing
    <3>2. audit' = [audit EXCEPT !.todo = rest, !.results = res]
      BY <2>3 DEF y
    <3> HIDE DEF rest, res
    <3>3. QED
      BY <3>1, <3>2
  <2>7. PICK S : audit.results \in Seq(S)
    BY <2>2 DEF Auditing
  <2> HIDE DEF y
  <2>8. /\ res \in Seq(S \cup {y})
        /\ \A k \in 1..Len(res) : \/ k \in 1..Len(audit.results) /\ res[k] = audit.results[k]
                                  \/ res[k] = y
    <3>1. audit.results \in Seq(S \cup {y}) /\ y \in S \cup {y} /\ Len(audit.results) \in Nat
      BY <2>7
    <3>2. Len(res) = Len(audit.results) + 1
      BY <3>1
    <3>3. QED
      BY <3>1, <3>2
  <2> HIDE DEF rest, res
  <2>9. /\ audit'.policy = audit.policy /\ audit'.engine = audit.engine
        /\ audit'.todo = rest /\ audit'.results = res
    BY <2>6
  <2>10. Auditing(audit)'
    <3>1. \E T : audit'.results \in Seq(T)
      BY <2>8, <2>9, Zenon
    <3>2. audit' = [policy |-> audit'.policy, engine |-> audit'.engine, todo |-> audit'.todo,
                    results |-> audit'.results]
      BY <2>6, <2>9
    <3>3. audit'.policy \subseteq Rules /\ (\A u, v \in audit'.policy : u = v)
      BY <2>2, <2>9 DEF Auditing
    <3>4. ASSUME NEW q \in audit.policy, NEW k \in 1..Len(res)
          PROVE  Audited(q, res[k])
      <4>1. q = p
        BY <2>2, <2>3, <3>4 DEF Auditing
      <4>2. CASE res[k] = y
        BY <4>1, <4>2, <2>5
      <4>3. CASE k \in 1..Len(audit.results) /\ res[k] = audit.results[k]
        BY <4>3, <2>2, <3>4, Zenon DEF Auditing
      <4>4. QED
        BY <4>2, <4>3, <2>8, <3>4
    <3>5. (\A q \in audit.policy, k \in 1..Len(audit.results) : Audited(q, audit.results[k]))'
      <4>1. ASSUME NEW q \in audit'.policy, NEW k \in 1..Len(audit'.results)
            PROVE  Audited(q, audit.results[k])'
        <5>1. PICK w : w = res[k]
          OBVIOUS
        <5>2. q \in audit.policy /\ k \in 1..Len(res) /\ audit'.results[k] = w
          BY <4>1, <5>1, <2>9
        <5>3. Audited(q, w)
          BY <5>1, <5>2, <3>4
        <5>4. Audited(q, w)'
          BY <5>3, <2>1, <1>k
        <5>5. QED
          BY <5>2, <5>4, Zenon DEF Audited, CleanOf, ReadOf
      <4>2. QED
        BY <4>1
    <3>6. QED
      BY <3>1, <3>2, <3>3, <3>5, <2>4, <2>9, Zenon DEF Auditing
  <2>11. QED
    BY <2>1, <2>10, <1>r, <1>t DEF PolicyInv
<1>4. ASSUME Policy!Report
      PROVE  PolicyInv'
  <2>1. UNCHANGED alog /\ audit # Policy!NoAudit /\ audit' = Policy!NoAudit
    BY <1>4 DEF Policy!Report
  <2>2. Auditing(audit)
    BY <2>1 DEF PolicyInv
  <2> DEFINE z == [engine |-> audit.engine, policy |-> audit.policy, results |-> audit.results,
                   hash |-> <<audit.engine, audit.results>>]
  <2>3. reports' = reports \cup {z}
    BY <1>4, Zenon DEF Policy!Report, Policy!ReportHash
  <2>4. /\ z.engine = audit.engine /\ z.policy = audit.policy /\ z.results = audit.results
        /\ z.hash = <<audit.engine, audit.results>> /\ z.hash[2] = audit.results
    OBVIOUS
  <2>5. z = [engine |-> z.engine, policy |-> z.policy, results |-> z.results, hash |-> z.hash]
    OBVIOUS
  <2>6. DOMAIN audit.results = 1..Len(audit.results)
    BY <2>2 DEF Auditing
  <2> HIDE DEF z
  <2>7. Reported(z)
    BY <2>2, <2>4, <2>5, <2>6 DEF Reported, Auditing
  <2>8. QED
    BY <2>1, <2>3, <2>7, <1>r, <1>t DEF PolicyInv, Policy!NoAudit
<1>5. ASSUME NEW r \in reports, NEW i \in DOMAIN r.results, Policy!AlterReport(r, i)
      PROVE  PolicyInv'
  <2> DEFINE Y == [r.results EXCEPT ![i] = [@ EXCEPT !.violations = {}, !.sessions = {}, !.count = 0]]
             z == [r EXCEPT !.results = Y]
  <2>1. UNCHANGED <<alog, audit>> /\ reports' = (reports \ {r}) \cup {z}
    BY <1>5 DEF Policy!AlterReport
  <2>2. Reported(r)
    BY <1>5 DEF PolicyInv
  <2> HIDE DEF Y
  <2>3. z = [engine |-> r.engine, policy |-> r.policy, results |-> Y, hash |-> r.hash]
    BY <2>2 DEF Reported
  <2> HIDE DEF z
  <2>4. z.engine = r.engine /\ z.policy = r.policy /\ z.results = Y /\ z.hash = r.hash
    BY <2>3
  <2>5. Reported(z)
    BY <2>2, <2>3, <2>4 DEF Reported
  <2>6. QED
    BY <2>1, <2>5, <1>r, <1>a, <1>t DEF PolicyInv, Policy!NoAudit
<1>6. QED
  BY <1>1, <1>2, <1>3, <1>4, <1>5, Zenon DEF Policy!PaNext

\* The audits do not notice the steps of the other services.
LEMMA PolicyAlone ==
    ASSUME PolicyInv, UNCHANGED policyVars
    PROVE  PolicyInv'
<1>1. UNCHANGED <<alog, audit, reports>>
  BY DEF policyVars
<1>2. ASSUME NEW p, NEW x, Audited(p, x)
      PROVE  Audited(p, x)'
  BY <1>1, <1>2 DEF Audited, CleanOf, ReadOf, Policy!Breaks
<1>3. audit # Policy!NoAudit => Auditing(audit)'
  BY <1>1, <1>2 DEF PolicyInv, Auditing
<1>4. \A r \in reports : Reported(r)'
  BY <1>2 DEF PolicyInv, Reported
<1>5. QED
  BY <1>1, <1>3, <1>4 DEF PolicyInv, Policy!NoAudit

\* What the invariant is for.
LEMMA PolicyHolds == PolicyInv => Policy!CompliantIsTrue
<1> SUFFICES ASSUME PolicyInv, NEW r \in reports,
                    Policy!VerifyReport(r) = "INTACT", Policy!Summary(r).status = "COMPLIANT",
                    NEW p \in r.policy, NEW k \in DOMAIN r.results
             PROVE  p \in Rules /\ CleanOf(p, r.results[k].shard, r.results[k].total)
  BY SameCount, ZenonT(60) DEF Policy!CompliantIsTrue, CleanOf, ReadOf
<1>1. Reported(r)
  BY DEF PolicyInv
<1>2. r.hash[2] = r.results
  <2>1. r.hash = <<r.engine, r.results>>
    BY DEF Policy!VerifyReport, Policy!ReportHash
  <2>2. QED
    BY <2>1
<1>3. r.results[k].count = 0
  <2>1. \A i \in DOMAIN r.results : r.results[i].count = 0
    BY DEF Policy!Summary
  <2>2. QED
    BY <2>1
<1>4. p \in Rules /\ Audited(p, r.results[k])
  BY <1>1, <1>2 DEF Reported
<1>5. QED
  BY <1>3, <1>4 DEF Audited

(* Exchange and audit (exchange.py, causal.py, policy_adapter.py, audit.py),  *)
(* whatever the agents, tasks, shards and policies are: a receipt accepted    *)
(* for a dispatch is about an entry logged for it, its tip is not older than  *)
(* its count, and an intact report that says COMPLIANT is right about what    *)
(* the audit read.                                                            *)
THEOREM ExchangeIsSound == Spec => []ExchangeSound
<1> DEFINE Inv == ExchangeInv /\ PolicyInv
<1>1. Init => Inv
  BY ExchangeStarts, PolicyStarts DEF Init
<1>2. ASSUME Inv, [Next]_<<part, keysVars, identityVars, exchangeVars, policyVars,
                     lanesVars, recallVars, dashboardVars, tracesVars, statsVars, gatewayVars>>
      PROVE  Inv'
  <2>1. UNCHANGED exchangeVars => ExchangeInv'
    BY <1>2, ExchangeAlone
  <2>2. Exchange!TxNext => ExchangeInv'
    BY <1>2, ExchangeSteps
  <2>3. UNCHANGED policyVars => PolicyInv'
    BY <1>2, PolicyAlone
  <2>4. Policy!PaNext => PolicyInv'
    BY <1>2, PolicySteps
  <2>5. /\ UNCHANGED exchangeVars \/ Exchange!TxNext
        /\ UNCHANGED policyVars \/ Policy!PaNext
    BY <1>2, Zenon DEF Next
  <2>6. QED
    BY <2>1, <2>2, <2>3, <2>4, <2>5
<1>3. Inv => ExchangeSound
  BY ExchangeHolds, PolicyHolds DEF ExchangeSound
<1>4. QED
  BY <1>1, <1>2, <1>3, PTL DEF Spec

-----------------------------------------------------------------------------
(* Lanes, merges and digests.                                              *)

\* The length of a lane as its index has it, and what the process has pushed.
LenOf(q, x) == IF x = -1 THEN Len(q) ELSE x
Shaped(q, x, own) == x \in -1..Len(q) /\ own \subseteq 1..LenOf(q, x)

LanesShape ==
  /\ lane \in [Lanes!AgentSet -> Seq(Nat)] /\ mine \in [Lanes!AgentSet -> SUBSET Nat]
  /\ lidx \in [Lanes!AgentSet -> Int] /\ lanes \subseteq Lanes!AgentSet /\ lnow \in Nat
  /\ \A a \in Lanes!AgentSet : Shaped(lane[a], lidx[a], mine[a])

DigestRecords == [level: 1..Len(Levels), start: Nat, counted: SUBSET Nat]
MergeRecords == [tips: UNION {[L -> Int] : L \in SUBSET Lanes!AgentSet},
                 own: [Lanes!AgentSet -> SUBSET Nat]]

\* A digest counts what was pushed in its window and is still indexed.
Whole(d, q, n, own) ==
  \A i \in own : /\ i <= n /\ i > n - Window
                 /\ d.start <= q[i] /\ q[i] < d.start + Levels[d.level].delta
                 => i \in d.counted

DigestsWhole ==
  /\ digests \in Seq(DigestRecords)
  /\ \A k \in 1..Len(digests) :
       /\ digests[k].start + Levels[digests[k].level].delta <= lnow
       /\ Whole(digests[k], lane[Lanes!Main], LenOf(lane[Lanes!Main], lidx[Lanes!Main]),
                mine[Lanes!Main])

\* The windows a roll has still to digest are over.
RollOver ==
  \A v \in roll : /\ v[1] \in 1..Len(Levels) /\ v[2] \in Nat
                  /\ v[2] + Levels[v[1]].delta <= lnow

MergesWhole == merges \in Seq(MergeRecords) /\ Lanes!MergesCoverOwnWork

\* The inductive invariant of the lanes.
LanesInv == LanesShape /\ DigestsWhole /\ RollOver /\ MergesWhole

\* The first lane is one of them.
LEMMA MainLane == Lanes!Main \in Lanes!AgentSet
<1>1. 1 \in DOMAIN LaneAgents
  BY SomeLane
<1>2. QED
  BY <1>1 DEF Lanes!Main, Lanes!AgentSet, Lanes!ToSet

\* Nothing is pushed yet.
LEMMA LanesStart == Lanes!LdInit => LanesInv
<1> SUFFICES ASSUME Lanes!LdInit PROVE LanesInv
  OBVIOUS
<1>1. /\ lane = [a \in Lanes!AgentSet |-> <<>>] /\ mine = [a \in Lanes!AgentSet |-> {}]
      /\ lidx = [a \in Lanes!AgentSet |-> -1] /\ lanes = {} /\ merges = <<>> /\ digests = <<>>
      /\ roll = {} /\ lnow = 0
  BY DEF Lanes!LdInit, Lanes!NotBuilt
<1>2. Shaped(<<>>, -1, {})
  BY DEF Shaped, LenOf
<1>3. /\ lane \in [Lanes!AgentSet -> Seq(Nat)] /\ mine \in [Lanes!AgentSet -> SUBSET Nat]
      /\ lidx \in [Lanes!AgentSet -> Int]
  BY <1>1
<1>4. \A a \in Lanes!AgentSet : Shaped(lane[a], lidx[a], mine[a])
  BY <1>1, <1>2
<1>5. LanesShape
  BY <1>1, <1>3, <1>4 DEF LanesShape
<1>6. DigestsWhole
  BY <1>1 DEF DigestsWhole
<1>7. RollOver
  BY <1>1 DEF RollOver
<1>8. MergesWhole
  BY <1>1 DEF MergesWhole, Lanes!MergesCoverOwnWork
<1>9. QED
  BY <1>5, <1>6, <1>7, <1>8 DEF LanesInv

\* What an index that was dropped or built leaves.
LEMMA IndexChanges ==
    ASSUME NEW q \in Seq(Nat), NEW x \in Int, NEW own, Shaped(q, x, own)
    PROVE  /\ Shaped(q, -1, own) /\ LenOf(q, x) <= LenOf(q, -1)
           /\ Shaped(q, LenOf(q, x), own) /\ LenOf(q, LenOf(q, x)) = LenOf(q, x)
           /\ LenOf(q, x) \in Nat /\ LenOf(q, x) <= Len(q)
<1>1. PICK n, m : n = Len(q) /\ m = LenOf(q, x)
  OBVIOUS
<1>2. n \in Nat /\ m \in Nat /\ m <= n /\ x \in -1..n /\ own \subseteq 1..m
      /\ m = (IF x = -1 THEN n ELSE x)
  BY <1>1 DEF Shaped, LenOf
<1>3. LenOf(q, -1) = n /\ LenOf(q, m) = m
  BY <1>1, <1>2 DEF LenOf
<1>4. -1 \in -1..n /\ m \in -1..n /\ own \subseteq 1..n
  BY <1>2
<1>5. Shaped(q, -1, own) /\ Shaped(q, m, own)
  BY <1>1, <1>2, <1>3, <1>4 DEF Shaped
<1>6. QED
  BY <1>1, <1>2, <1>3, <1>5

\* What a push, of this process or another, leaves.
Pushed(q, x, own, t) ==
  /\ Shaped(Append(q, t), -1, own \cup {Len(q) + 1}) /\ Shaped(Append(q, t), x, own)
  /\ LenOf(q, x) <= LenOf(Append(q, t), -1) /\ LenOf(q, x) <= LenOf(Append(q, t), x)
  /\ \A i \in own : Append(q, t)[i] = q[i]
  /\ Append(q, t)[Len(q) + 1] = t

\* A push makes the lane longer and moves nothing.
LEMMA LaneChanges ==
    ASSUME NEW q \in Seq(Nat), NEW x \in Int, NEW own, Shaped(q, x, own), NEW t \in Nat
    PROVE  Pushed(q, x, own, t)
<1>1. PICK n, m : n = Len(q) /\ m = LenOf(q, x)
  OBVIOUS
<1>2. n \in Nat /\ m \in Nat /\ m <= n /\ x \in -1..n /\ own \subseteq 1..m
      /\ m = (IF x = -1 THEN n ELSE x)
  BY <1>1 DEF Shaped, LenOf
<1>3. Len(Append(q, t)) = n + 1 /\ Append(q, t)[n + 1] = t
      /\ \A i \in 1..n : Append(q, t)[i] = q[i]
  BY <1>1
<1>4. own \subseteq 1..n /\ own \subseteq 1..(n + 1)
  BY <1>2
<1>5. LenOf(Append(q, t), -1) = n + 1
      /\ LenOf(Append(q, t), x) = (IF x = -1 THEN n + 1 ELSE x)
  BY <1>1, <1>2, <1>3 DEF LenOf
<1>6. Shaped(Append(q, t), -1, own \cup {n + 1})
  <2>1. -1 \in -1..(n + 1) /\ own \cup {n + 1} \subseteq 1..(n + 1)
    BY <1>2, <1>4
  <2>2. QED
    BY <1>3, <1>5, <2>1 DEF Shaped
<1>7. Shaped(Append(q, t), x, own)
  <2>1. x \in -1..(n + 1)
    BY <1>2
  <2>2. own \subseteq 1..LenOf(Append(q, t), x)
    BY <1>2, <1>4, <1>5
  <2>3. QED
    BY <1>3, <2>1, <2>2 DEF Shaped
<1>8. m <= n + 1 /\ m <= LenOf(Append(q, t), x)
  BY <1>2, <1>5
<1>9. QED
  BY <1>1, <1>2, <1>3, <1>4, <1>5, <1>6, <1>7, <1>8 DEF Pushed

\* Every step keeps the shape of the lanes: their lengths grow, what was pushed
\* stays where it is, and what is pushed now has the time of now.
LEMMA LanesGrow ==
    ASSUME LanesShape, Lanes!LdNext
    PROVE  /\ LanesShape' /\ lnow <= lnow'
           /\ \A a \in Lanes!AgentSet :
                /\ LenOf(lane[a], lidx[a]) <= LenOf(lane'[a], lidx'[a])
                /\ \A i \in mine[a] : lane'[a][i] = lane[a][i]
                /\ \A i \in mine'[a] : i \in mine[a] \/ lane'[a][i] = lnow
<1> DEFINE A == Lanes!AgentSet
           Good(a) == /\ LenOf(lane[a], lidx[a]) <= LenOf(lane'[a], lidx'[a])
                      /\ \A i \in mine[a] : lane'[a][i] = lane[a][i]
                      /\ \A i \in mine'[a] : i \in mine[a] \/ lane'[a][i] = lnow
           Goal == LanesShape' /\ lnow <= lnow' /\ \A a \in A : Good(a)
<1> SUFFICES Goal
  OBVIOUS
<1>0. /\ lane \in [A -> Seq(Nat)] /\ mine \in [A -> SUBSET Nat] /\ lidx \in [A -> Int]
      /\ lanes \subseteq A /\ lnow \in Nat
      /\ \A a \in A : /\ Shaped(lane[a], lidx[a], mine[a])
                      /\ lane[a] \in Seq(Nat) /\ lidx[a] \in Int /\ mine[a] \in SUBSET Nat
                      /\ LenOf(lane[a], lidx[a]) \in Nat /\ Len(lane[a]) \in Nat
  <2>1. /\ lane \in [A -> Seq(Nat)] /\ mine \in [A -> SUBSET Nat] /\ lidx \in [A -> Int]
        /\ lanes \subseteq A /\ lnow \in Nat /\ \A a \in A : Shaped(lane[a], lidx[a], mine[a])
    BY DEF LanesShape
  <2>2. \A a \in A : lane[a] \in Seq(Nat) /\ lidx[a] \in Int /\ mine[a] \in SUBSET Nat
    BY <2>1
  <2>3. \A a \in A : LenOf(lane[a], lidx[a]) \in Nat
    BY <2>1, <2>2, IndexChanges
  <2>4. QED
    BY <2>1, <2>2, <2>3
<1>1. ASSUME NEW S, lidx' = Lanes!Built(S), UNCHANGED <<lane, mine, lanes, lnow>>
      PROVE  Goal
  <2>1. lidx' = [a \in A |-> IF a \in S THEN LenOf(lane[a], lidx[a]) ELSE lidx[a]]
    BY <1>1 DEF Lanes!Built, Lanes!Length, Lanes!NotBuilt, LenOf
  <2>2. lidx' \in [A -> Int]
    BY <2>1, <1>0
  <2>3. ASSUME NEW a \in A
        PROVE  Shaped(lane[a], lidx'[a], mine[a]) /\ LenOf(lane[a], lidx'[a]) = LenOf(lane[a], lidx[a])
    <3>1. lidx'[a] = lidx[a] \/ lidx'[a] = LenOf(lane[a], lidx[a])
      BY <2>1, <2>3
    <3>2. QED
      BY <3>1, <2>3, <1>0, IndexChanges
  <2>4. LanesShape'
    BY <1>0, <1>1, <2>2, <2>3 DEF LanesShape
  <2>5. ASSUME NEW a \in A PROVE Good(a)
    BY <1>0, <1>1, <2>3, <2>5
  <2>6. QED
    BY <1>0, <1>1, <2>4, <2>5
<1>2. CASE UNCHANGED <<lane, mine, lidx>> /\ lanes' \subseteq A /\ lnow' \in Nat /\ lnow <= lnow'
  <2>1. LanesShape'
    BY <1>0, <1>2 DEF LanesShape
  <2>2. \A a \in A : Good(a)
    BY <1>0, <1>2
  <2>3. QED
    BY <1>2, <2>1, <2>2
<1>3. ASSUME NEW b \in A, Lanes!LanePush(b)
      PROVE  Goal
  <2>1. PICK q, x, own, t : q = lane[b] /\ x = lidx[b] /\ own = mine[b] /\ t = lnow
    OBVIOUS
  <2>2. /\ lane' = [lane EXCEPT ![b] = Append(q, t)]
        /\ mine' = [mine EXCEPT ![b] = own \cup {Len(q) + 1}]
        /\ lidx' = [lidx EXCEPT ![b] = -1] /\ lanes' = lanes /\ lnow' = lnow
    BY <1>3, <2>1 DEF Lanes!LanePush, Lanes!Invalidated, Lanes!NotBuilt
  <2>3. q \in Seq(Nat) /\ x \in Int /\ own \in SUBSET Nat /\ Shaped(q, x, own) /\ Len(q) \in Nat
    BY <1>0, <2>1
  <2>0. t \in Nat /\ t = lnow
    BY <1>0, <2>1
  <2>4. Append(q, t) \in Seq(Nat) /\ own \cup {Len(q) + 1} \in SUBSET Nat
    <3>0. own \subseteq Nat /\ Len(q) + 1 \in Nat
      BY <2>3
    <3>1. own \cup {Len(q) + 1} \subseteq Nat
      BY <3>0, Zenon
    <3>2. Append(q, t) \in Seq(Nat)
      BY <2>0, <2>3
    <3>3. QED
      BY <3>1, <3>2
  <2>5. lane' \in [A -> Seq(Nat)] /\ mine' \in [A -> SUBSET Nat] /\ lidx' \in [A -> Int]
    BY <1>0, <2>2, <2>4
  <2>6. /\ lane'[b] = Append(q, t) /\ mine'[b] = own \cup {Len(q) + 1} /\ lidx'[b] = -1
        /\ \A a \in A : a # b => lane'[a] = lane[a] /\ mine'[a] = mine[a] /\ lidx'[a] = lidx[a]
    BY <1>0, <2>2
  <2>7. /\ Shaped(Append(q, t), -1, own \cup {Len(q) + 1})
        /\ LenOf(q, x) <= LenOf(Append(q, t), -1)
        /\ \A i \in own : Append(q, t)[i] = q[i]
        /\ Append(q, t)[Len(q) + 1] = t
    <3>1. Pushed(q, x, own, t)
      BY <2>0, <2>3, LaneChanges
    <3>2. QED
      BY <3>1, Zenon DEF Pushed
  <2>8. ASSUME NEW a \in A
        PROVE  Shaped(lane'[a], lidx'[a], mine'[a]) /\ Good(a)
    <3>1. CASE a = b
      <4>1. Shaped(lane'[b], lidx'[b], mine'[b])
        BY <2>6, <2>7
      <4>2. Good(b)
        BY <2>0, <2>1, <2>6, <2>7
      <4>3. QED
        BY <3>1, <4>1, <4>2
    <3>2. CASE a # b
      BY <1>0, <2>6, <3>2, <2>8, SMTT(30)
    <3>3. QED
      BY <3>1, <3>2
  <2>9. LanesShape'
    BY <1>0, <2>2, <2>5, <2>8 DEF LanesShape
  <2> HIDE DEF Good
  <2>10. QED
    BY <2>0, <2>2, <2>8, <2>9
<1>4. ASSUME NEW b \in A, Lanes!OtherPush(b)
      PROVE  Goal
  <2>1. PICK q, x, own, t : q = lane[b] /\ x = lidx[b] /\ own = mine[b] /\ t = lnow
    OBVIOUS
  <2>2. /\ lane' = [lane EXCEPT ![b] = Append(q, t)] /\ UNCHANGED <<mine, lidx, lanes, lnow>>
    BY <1>4, <2>1 DEF Lanes!OtherPush
  <2>3. q \in Seq(Nat) /\ x \in Int /\ own \in SUBSET Nat /\ Shaped(q, x, own)
    BY <1>0, <2>1
  <2>0. t \in Nat /\ t = lnow
    BY <1>0, <2>1
  <2>4. Append(q, t) \in Seq(Nat)
    BY <2>0, <2>3
  <2>5. lane' \in [A -> Seq(Nat)]
    BY <1>0, <2>2, <2>4
  <2>6. lane'[b] = Append(q, t) /\ \A a \in A : a # b => lane'[a] = lane[a]
    BY <1>0, <2>2
  <2>7. /\ Shaped(Append(q, t), x, own) /\ LenOf(q, x) <= LenOf(Append(q, t), x)
        /\ \A i \in own : Append(q, t)[i] = q[i]
    <3>1. Pushed(q, x, own, t)
      BY <2>0, <2>3, LaneChanges
    <3>2. QED
      BY <3>1, Zenon DEF Pushed
  <2>8. ASSUME NEW a \in A
        PROVE  Shaped(lane'[a], lidx[a], mine[a]) /\ Good(a)
    <3>1. CASE a = b
      <4>1. Shaped(lane'[b], lidx[b], mine[b])
        BY <2>1, <2>6, <2>7
      <4>2. Good(b)
        BY <2>1, <2>2, <2>6, <2>7
      <4>3. QED
        BY <3>1, <4>1, <4>2
    <3>2. CASE a # b
      BY <1>0, <2>2, <2>6, <3>2, <2>8
    <3>3. QED
      BY <3>1, <3>2
  <2>9. LanesShape'
    BY <1>0, <2>2, <2>5, <2>8 DEF LanesShape
  <2> HIDE DEF Good
  <2>10. QED
    BY <2>0, <2>2, <2>8, <2>9
<1>5. CASE Lanes!LRestart
  <2>1. lidx' = [a \in A |-> -1] /\ lanes' = {} /\ UNCHANGED <<lane, mine, lnow>>
    BY <1>5 DEF Lanes!LRestart, Lanes!NotBuilt
  <2>2. lidx' \in [A -> Int]
    BY <2>1
  <2>3. ASSUME NEW a \in A
        PROVE  Shaped(lane[a], lidx'[a], mine[a]) /\ Good(a)
    <3>1. lidx'[a] = -1
      BY <2>1, <2>3
    <3>2. Shaped(lane[a], -1, mine[a]) /\ LenOf(lane[a], lidx[a]) <= LenOf(lane[a], -1)
      BY <1>0, <2>3, IndexChanges
    <3>3. QED
      BY <2>1, <3>1, <3>2
  <2>4. LanesShape'
    BY <1>0, <2>1, <2>2, <2>3 DEF LanesShape
  <2>5. QED
    BY <1>0, <2>1, <2>3, <2>4
<1>6. CASE \E a \in A : Lanes!RegisterLane(a)
  <2>1. UNCHANGED <<lane, mine, lidx, lnow>> /\ lanes' \subseteq A
    BY <1>0, <1>6 DEF Lanes!RegisterLane
  <2>2. QED
    BY <1>0, <1>2, <2>1
<1>7. CASE Lanes!LTick \/ \E ok \in BOOLEAN : Lanes!RollWindow(ok)
  <2>1. UNCHANGED <<lane, mine, lidx, lanes>> /\ (lnow' = lnow + 1 \/ lnow' = lnow)
    BY <1>7 DEF Lanes!LTick, Lanes!RollWindow
  <2>2. QED
    BY <1>0, <1>2, <2>1
<1>8. CASE Lanes!Distill \/ Lanes!RollBegin \/ \E ok \in BOOLEAN : Lanes!CreateMerge(ok)
  <2>1. /\ UNCHANGED <<lane, mine, lanes, lnow>>
        /\ lidx' = Lanes!Built({Lanes!Main}) \/ lidx' = Lanes!Built(lanes)
    BY <1>8, Zenon DEF Lanes!Distill, Lanes!RollBegin, Lanes!CreateMerge
  <2>2. QED
    BY <1>1, <2>1
<1> HIDE DEF Goal, Good
<1>9. QED
  <2>1. \/ \E a \in A : Lanes!RegisterLane(a) \/ Lanes!LanePush(a) \/ Lanes!OtherPush(a)
        \/ Lanes!LTick \/ Lanes!LRestart \/ Lanes!Distill \/ Lanes!RollBegin
        \/ \E ok \in BOOLEAN : Lanes!CreateMerge(ok) \/ Lanes!RollWindow(ok)
    BY Zenon DEF Lanes!LdNext
  <2>2. QED
    <3>1. CASE \E a \in A : Lanes!RegisterLane(a) \/ Lanes!LanePush(a) \/ Lanes!OtherPush(a)
      <4>1. PICK a \in A : Lanes!RegisterLane(a) \/ Lanes!LanePush(a) \/ Lanes!OtherPush(a)
        BY <3>1
      <4>2. CASE Lanes!RegisterLane(a)
        BY <1>6, <4>2
      <4>3. CASE Lanes!LanePush(a)
        BY <1>3, <4>3
      <4>4. CASE Lanes!OtherPush(a)
        BY <1>4, <4>4
      <4>5. QED
        BY <4>1, <4>2, <4>3, <4>4
    <3>2. CASE \E ok \in BOOLEAN : Lanes!CreateMerge(ok) \/ Lanes!RollWindow(ok)
      BY <1>7, <1>8, <3>2
    <3>3. QED
      BY <1>5, <1>7, <1>8, <2>1, <3>1, <3>2

\* A digest stays whole while the lane grows with entries later than it.
LEMMA WholeKept ==
    ASSUME NEW d \in DigestRecords, NEW q, NEW n \in Nat, NEW own \in SUBSET Nat, Whole(d, q, n, own),
           own \subseteq 1..n, NEW r, NEW m \in Nat, n <= m, NEW more, NEW t \in Nat,
           d.start + Levels[d.level].delta <= t,
           \A i \in own : r[i] = q[i], \A i \in more : i \in own \/ r[i] = t
    PROVE  Whole(d, r, m, more)
<1>1. d.start \in Nat /\ Levels[d.level].delta \in Nat /\ Window \in Nat
  BY LaneSizes DEF DigestRecords
<1>2. PICK e : e = d.start + Levels[d.level].delta
  OBVIOUS
<1>3. e \in Nat /\ e <= t
  BY <1>1, <1>2
<1> SUFFICES ASSUME NEW i \in more, i <= m, i > m - Window, d.start <= r[i], r[i] < e
             PROVE  i \in d.counted
  BY <1>2 DEF Whole
<1>4. r[i] # t
  BY <1>3
<1>a. i \in own
  BY <1>4, Zenon
<1>5. i \in own /\ i \in Nat /\ i <= n /\ r[i] = q[i]
  <2>1. i \in 1..n
    BY <1>a
  <2>2. QED
    BY <1>a, <2>1
<1>6. i > n - Window
  BY <1>1, <1>5
<1>7. QED
  BY <1>2, <1>5, <1>6 DEF Whole

\* What the lane of the digester has when a step is taken.
LEMMA MainGrows ==
    ASSUME LanesShape, Lanes!LdNext, NEW d \in DigestRecords,
           d.start + Levels[d.level].delta <= lnow,
           Whole(d, lane[Lanes!Main], LenOf(lane[Lanes!Main], lidx[Lanes!Main]), mine[Lanes!Main])
    PROVE  /\ d.start + Levels[d.level].delta <= lnow'
           /\ Whole(d, lane'[Lanes!Main], LenOf(lane'[Lanes!Main], lidx'[Lanes!Main]),
                    mine'[Lanes!Main])
<1>1. /\ LanesShape' /\ lnow <= lnow'
      /\ LenOf(lane[Lanes!Main], lidx[Lanes!Main]) <= LenOf(lane'[Lanes!Main], lidx'[Lanes!Main])
      /\ \A i \in mine[Lanes!Main] : lane'[Lanes!Main][i] = lane[Lanes!Main][i]
      /\ \A i \in mine'[Lanes!Main] : i \in mine[Lanes!Main] \/ lane'[Lanes!Main][i] = lnow
  BY LanesGrow, MainLane
<1>2. /\ lane[Lanes!Main] \in Seq(Nat) /\ lidx[Lanes!Main] \in Int /\ mine[Lanes!Main] \in SUBSET Nat
      /\ Shaped(lane[Lanes!Main], lidx[Lanes!Main], mine[Lanes!Main]) /\ lnow \in Nat
  BY MainLane DEF LanesShape
<1>3. /\ lane'[Lanes!Main] \in Seq(Nat) /\ lidx'[Lanes!Main] \in Int
      /\ Shaped(lane'[Lanes!Main], lidx'[Lanes!Main], mine'[Lanes!Main]) /\ lnow' \in Nat
  BY <1>1, MainLane DEF LanesShape
<1>4. PICK q, x, own, r, m, more, t :
        /\ q = lane[Lanes!Main] /\ x = LenOf(q, lidx[Lanes!Main]) /\ own = mine[Lanes!Main]
        /\ r = lane'[Lanes!Main] /\ m = LenOf(r, lidx'[Lanes!Main]) /\ more = mine'[Lanes!Main]
        /\ t = lnow
  OBVIOUS
<1>5. x \in Nat /\ own \subseteq 1..x
  <2>1. x \in Nat
    BY <1>2, <1>4, IndexChanges
  <2>2. QED
    BY <1>2, <1>4, <2>1 DEF Shaped
<1>6. m \in Nat
  BY <1>3, <1>4, IndexChanges
<1>7. Whole(d, r, m, more)
  <2>1. /\ Whole(d, q, x, own) /\ x <= m /\ own \in SUBSET Nat /\ t \in Nat
        /\ d.start + Levels[d.level].delta <= t
        /\ \A i \in own : r[i] = q[i]
        /\ \A i \in more : i \in own \/ r[i] = t
    BY <1>1, <1>2, <1>4
  <2>2. QED
    BY <1>5, <1>6, <2>1, WholeKept, SMTT(30)
<1>8. d.start + Levels[d.level].delta <= lnow'
  <2>1. d.start + Levels[d.level].delta \in Nat
    BY LaneSizes DEF DigestRecords
  <2>2. QED
    BY <1>1, <1>2, <1>3, <2>1
<1>9. QED
  BY <1>4, <1>7, <1>8

\* A digest written now counts all of its window that is indexed.
LEMMA WrittenWhole ==
    ASSUME LanesShape, NEW l \in 1..Len(Levels), NEW w \in Nat
    PROVE  /\ Lanes!DigestWindow(l, w) \in DigestRecords
           /\ Lanes!DigestWindow(l, w).level = l /\ Lanes!DigestWindow(l, w).start = w
           /\ Whole(Lanes!DigestWindow(l, w), lane[Lanes!Main],
                    LenOf(lane[Lanes!Main], lidx[Lanes!Main]), mine[Lanes!Main])
<1>1. PICK q, n, own : /\ q = lane[Lanes!Main] /\ n = LenOf(q, lidx[Lanes!Main])
                       /\ own = mine[Lanes!Main]
  OBVIOUS
<1>2. q \in Seq(Nat) /\ n \in Nat /\ n <= Len(q) /\ own \subseteq 1..n
  <2>1. lane[Lanes!Main] \in Seq(Nat) /\ lidx[Lanes!Main] \in Int
        /\ Shaped(lane[Lanes!Main], lidx[Lanes!Main], mine[Lanes!Main])
    BY MainLane DEF LanesShape
  <2>2. n \in Nat /\ n <= Len(q)
    BY <1>1, <2>1, IndexChanges
  <2>3. QED
    BY <1>1, <2>1, <2>2 DEF Shaped
<1>3. Lanes!Length(Lanes!Main) = n
  BY <1>1 DEF Lanes!Length, Lanes!NotBuilt, LenOf
<1>4. Lanes!Index(Lanes!Main) = {i \in 1..n : i > n - Window}
  BY <1>3 DEF Lanes!Index, Lanes!ASet
<1>5. PICK c : c = {i \in Lanes!Index(Lanes!Main) :
                      w <= q[i] /\ q[i] <= w + Levels[l].delta}
  OBVIOUS
<1>6. Lanes!DigestWindow(l, w) = [level |-> l, start |-> w, counted |-> c]
  BY <1>1, <1>5 DEF Lanes!DigestWindow, Lanes!At
<1>7. c \in SUBSET Nat
  <2>1. c \subseteq 1..n
    BY <1>4, <1>5
  <2>2. QED
    BY <1>2, <2>1
<1>8. PICK d : d = [level |-> l, start |-> w, counted |-> c]
  OBVIOUS
<1>9. d \in DigestRecords /\ d.level = l /\ d.start = w /\ d.counted = c
  BY <1>7, <1>8 DEF DigestRecords
<1>10. Whole(d, q, n, own)
  <2>1. PICK e : e = Levels[l].delta
    OBVIOUS
  <2>2. e \in Nat /\ Window \in Nat
    BY <2>1, LaneSizes
  <2> SUFFICES ASSUME NEW i \in own, i <= n, i > n - Window, w <= q[i], q[i] < w + e
               PROVE  i \in c
    BY <1>9, <2>1 DEF Whole
  <2>3. i \in 1..n /\ q[i] \in Nat
    BY <1>2
  <2>4. q[i] <= w + e
    BY <2>2, <2>3
  <2>5. QED
    BY <1>4, <1>5, <2>1, <2>3, <2>4
<1>11. QED
  BY <1>1, <1>6, <1>8, <1>9, <1>10

\* The windows found pending are over.
LEMMA PendingOver ==
    ASSUME LanesShape, NEW v \in Lanes!PendingWindows
    PROVE  v[1] \in 1..Len(Levels) /\ v[2] \in Nat /\ v[2] + Levels[v[1]].delta <= lnow
<1>0. PICK l \in 1..Len(Levels) : \E w \in Lanes!Windows(l) : v = <<l, w>>
  BY Zenon DEF Lanes!PendingWindows
<1>1. PICK w \in Lanes!Windows(l) : v = <<l, w>>
  BY <1>0
<1>2. w \in 0..MaxNow /\ w + Levels[l].delta <= lnow
  BY DEF Lanes!Windows
<1>3. QED
  BY <1>1, <1>2

\* Digests stay whole.
LEMMA DigestsStay ==
    ASSUME LanesInv, Lanes!LdNext
    PROVE  DigestsWhole'
<1> DEFINE Fine(d) == /\ d.start + Levels[d.level].delta <= lnow'
                      /\ Whole(d, lane'[Lanes!Main], LenOf(lane'[Lanes!Main], lidx'[Lanes!Main]),
                               mine'[Lanes!Main])
<1>0. LanesShape /\ digests \in Seq(DigestRecords) /\ RollOver
  BY DEF LanesInv, DigestsWhole
<1>1. \A k \in 1..Len(digests) : digests[k] \in DigestRecords
  BY <1>0
<1>2. ASSUME NEW k \in 1..Len(digests) PROVE Fine(digests[k])
  <2>1. PICK d : d = digests[k]
    OBVIOUS
  <2>2. /\ d \in DigestRecords /\ d.start + Levels[d.level].delta <= lnow
        /\ Whole(d, lane[Lanes!Main], LenOf(lane[Lanes!Main], lidx[Lanes!Main]), mine[Lanes!Main])
    BY <1>1, <1>2, <2>1 DEF LanesInv, DigestsWhole
  <2>3. QED
    BY <1>0, <2>1, <2>2, MainGrows
<1>3. \/ digests' = digests
      \/ \E v \in roll : digests' = Append(digests, Lanes!DigestWindow(v[1], v[2]))
  BY Zenon DEF Lanes!LdNext, Lanes!RegisterLane, Lanes!LanePush, Lanes!OtherPush, Lanes!LTick,
     Lanes!LRestart, Lanes!Distill, Lanes!RollBegin, Lanes!CreateMerge, Lanes!RollWindow
<1>4. CASE digests' = digests
  <2> HIDE DEF Fine
  <2>1. \A k \in 1..Len(digests') : Fine(digests'[k])
    BY <1>2, <1>4
  <2>2. digests' \in Seq(DigestRecords)
    BY <1>0, <1>4
  <2>3. QED
    BY <2>1, <2>2 DEF DigestsWhole, Fine
<1>5. CASE \E v \in roll : digests' = Append(digests, Lanes!DigestWindow(v[1], v[2]))
  <2>1. PICK v \in roll : digests' = Append(digests, Lanes!DigestWindow(v[1], v[2]))
    BY <1>5
  <2>2. v[1] \in 1..Len(Levels) /\ v[2] \in Nat /\ v[2] + Levels[v[1]].delta <= lnow
    BY <1>0 DEF RollOver
  <2>3. PICK d : d = Lanes!DigestWindow(v[1], v[2])
    OBVIOUS
  <2>4. /\ d \in DigestRecords /\ d.level = v[1] /\ d.start = v[2]
        /\ Whole(d, lane[Lanes!Main], LenOf(lane[Lanes!Main], lidx[Lanes!Main]), mine[Lanes!Main])
    BY <1>0, <2>2, <2>3, WrittenWhole
  <2>5. d.start + Levels[d.level].delta <= lnow
    BY <2>2, <2>4
  <2>6. Fine(d)
    BY <1>0, <2>4, <2>5, MainGrows
  <2> HIDE DEF Fine
  <2>7. digests' = Append(digests, d) /\ digests' \in Seq(DigestRecords)
    BY <1>0, <2>1, <2>3, <2>4
  <2>8. ASSUME NEW k \in 1..Len(digests') PROVE Fine(digests'[k])
    <3>1. Len(digests') = Len(digests) + 1 /\ Len(digests) \in Nat
      BY <1>0, <2>7
    <3>2. CASE k = Len(digests) + 1
      <4>1. digests'[k] = d
        BY <1>0, <2>7, <3>2
      <4>2. QED
        BY <2>6, <4>1
    <3>3. CASE k # Len(digests) + 1
      <4>1. k \in 1..Len(digests)
        BY <3>1, <3>3, <2>8
      <4>2. digests'[k] = digests[k]
        BY <1>0, <2>7, <4>1
      <4>3. QED
        BY <1>2, <4>1, <4>2
    <3>4. QED
      BY <3>2, <3>3
  <2>9. QED
    BY <2>7, <2>8 DEF DigestsWhole, Fine
<1>6. QED
  BY <1>3, <1>4, <1>5

\* The windows of a roll are over while it lasts.
LEMMA RollStays ==
    ASSUME LanesInv, Lanes!LdNext
    PROVE  RollOver'
<1>0. LanesShape /\ RollOver
  BY DEF LanesInv
<1>1. roll' \subseteq roll \/ roll' = Lanes!PendingWindows
  <2>1. \/ roll' = roll \/ roll' = {} \/ roll' = Lanes!PendingWindows
        \/ \E v \in roll : roll' = roll \ {v}
    BY Zenon DEF Lanes!LdNext, Lanes!RegisterLane, Lanes!LanePush, Lanes!OtherPush, Lanes!LTick,
       Lanes!LRestart, Lanes!Distill, Lanes!RollBegin, Lanes!CreateMerge, Lanes!RollWindow
  <2>2. QED
    BY <2>1
<1>2. lnow <= lnow' /\ lnow \in Nat /\ lnow' \in Nat
  <2>1. LanesShape' /\ lnow <= lnow'
    BY <1>0, LanesGrow
  <2>2. QED
    BY <1>0, <2>1 DEF LanesShape
<1>3. ASSUME NEW v \in roll'
      PROVE  v[1] \in 1..Len(Levels) /\ v[2] \in Nat /\ v[2] + Levels[v[1]].delta <= lnow'
  <2>1. v[1] \in 1..Len(Levels) /\ v[2] \in Nat /\ v[2] + Levels[v[1]].delta <= lnow
    BY <1>0, <1>1, <1>3, PendingOver DEF RollOver
  <2>2. Levels[v[1]].delta \in Nat
    BY <2>1, LaneSizes, SMTT(30)
  <2>3. QED
    BY <1>2, <2>1, <2>2, SMTT(30)
<1>4. QED
  BY <1>3 DEF RollOver

\* A merge has the tips of its lanes, which cover what was pushed.
LEMMA MergesStay ==
    ASSUME LanesInv, Lanes!LdNext
    PROVE  MergesWhole'
<1> DEFINE Fine(x) == \A a \in DOMAIN x.tips : \A i \in x.own[a] : i <= x.tips[a]
<1>0. LanesShape /\ merges \in Seq(MergeRecords) /\ \A k \in 1..Len(merges) : Fine(merges[k])
  BY DEF LanesInv, MergesWhole, Lanes!MergesCoverOwnWork
<1>1. PICK x : x = [tips |-> Lanes!Tips, own |-> mine]
  OBVIOUS
<1>2. \A a \in lanes : Lanes!Length(a) = LenOf(lane[a], lidx[a])
  BY DEF Lanes!Length, Lanes!NotBuilt, LenOf
<1>3. \A a \in lanes : /\ LenOf(lane[a], lidx[a]) \in Nat
                       /\ \A i \in mine[a] : i <= LenOf(lane[a], lidx[a])
  <2>1. ASSUME NEW a \in lanes
        PROVE  /\ LenOf(lane[a], lidx[a]) \in Nat
               /\ \A i \in mine[a] : i <= LenOf(lane[a], lidx[a])
    <3>1. lane[a] \in Seq(Nat) /\ lidx[a] \in Int /\ Shaped(lane[a], lidx[a], mine[a])
      BY <1>0, <2>1 DEF LanesShape
    <3>2. LenOf(lane[a], lidx[a]) \in Nat
      BY <3>1, IndexChanges
    <3>3. QED
      BY <3>1, <3>2 DEF Shaped
  <2>2. QED
    BY <2>1
<1>4. x.tips = [a \in lanes |-> LenOf(lane[a], lidx[a])] /\ x.own = mine
  BY <1>1, <1>2 DEF Lanes!Tips
<1>5. x \in MergeRecords
  <2>1. x.tips \in [lanes -> Int]
    BY <1>3, <1>4
  <2>2. x.tips \in UNION {[L -> Int] : L \in SUBSET Lanes!AgentSet}
    <3>1. lanes \in SUBSET Lanes!AgentSet
      BY <1>0 DEF LanesShape
    <3>2. QED
      BY <2>1, <3>1, Zenon
  <2>3. x.own \in [Lanes!AgentSet -> SUBSET Nat]
    BY <1>0, <1>4 DEF LanesShape
  <2>4. PICK f, g : f = x.tips /\ g = x.own
    OBVIOUS
  <2>5. x = [tips |-> f, own |-> g]
    BY <1>1, <2>4
  <2>6. QED
    BY <2>2, <2>3, <2>4, <2>5 DEF MergeRecords
<1>6. Fine(x)
  BY <1>3, <1>4
<1>7. merges' = merges \/ merges' = Append(merges, x)
  BY <1>1, Zenon DEF Lanes!LdNext, Lanes!RegisterLane, Lanes!LanePush, Lanes!OtherPush, Lanes!LTick,
     Lanes!LRestart, Lanes!Distill, Lanes!RollBegin, Lanes!CreateMerge, Lanes!RollWindow
<1> HIDE DEF Fine
<1>8. CASE merges' = merges
  <2>1. merges' \in Seq(MergeRecords) /\ \A k \in 1..Len(merges') : Fine(merges'[k])
    BY <1>0, <1>8
  <2>2. QED
    BY <2>1 DEF MergesWhole, Lanes!MergesCoverOwnWork, Fine
<1>9. CASE merges' = Append(merges, x)
  <2>1. merges' \in Seq(MergeRecords) /\ Len(merges') = Len(merges) + 1 /\ Len(merges) \in Nat
    BY <1>0, <1>5, <1>9
  <2>2. ASSUME NEW k \in 1..Len(merges') PROVE Fine(merges'[k])
    <3>1. CASE k = Len(merges) + 1
      <4>1. merges'[k] = x
        BY <1>0, <1>5, <1>9, <3>1
      <4>2. QED
        BY <1>6, <4>1
    <3>2. CASE k # Len(merges) + 1
      <4>1. k \in 1..Len(merges)
        BY <2>1, <2>2, <3>2
      <4>2. merges'[k] = merges[k]
        BY <1>0, <1>9, <4>1
      <4>3. QED
        BY <1>0, <4>1, <4>2
    <3>3. QED
      BY <3>1, <3>2
  <2>3. QED
    BY <2>1, <2>2 DEF MergesWhole, Lanes!MergesCoverOwnWork, Fine
<1>10. QED
  BY <1>7, <1>8, <1>9

\* Steps of the other parts.
LEMMA LanesAlone ==
    ASSUME LanesInv, UNCHANGED lanesVars
    PROVE  LanesInv'
BY DEF LanesInv, LanesShape, DigestsWhole, RollOver, MergesWhole, Lanes!MergesCoverOwnWork, lanesVars

\* With no window pending, every window with an entry of this process has its
\* digest, and that digest counts the entry.
LEMMA LanesHold == LanesInv => Lanes!MergesCoverOwnWork /\ Lanes!OwnWorkDigested
<1> SUFFICES ASSUME LanesInv PROVE Lanes!OwnWorkDigested
  BY DEF LanesInv, MergesWhole
<1> SUFFICES ASSUME Lanes!PendingWindows = {}, NEW i \in mine[Lanes!Main] \cap Lanes!Index(Lanes!Main),
                    NEW l \in 1..Len(Levels), NEW w \in Lanes!Windows(l),
                    w <= Lanes!At(i), Lanes!At(i) < w + Levels[l].delta
             PROVE  \E k \in 1..Len(digests) : digests[k].level = l /\ i \in digests[k].counted
  BY Zenon DEF Lanes!OwnWorkDigested
<1>1. <<l, w>> \in Lanes!ExistingDigestIds
  <2>1. Lanes!HasEntries(l, w)
    BY Zenon DEF Lanes!HasEntries
  <2>2. Lanes!Index(Lanes!Main) # {}
    OBVIOUS
  <2>3. <<l, w>> \notin Lanes!PendingWindows
    OBVIOUS
  <2>4. <<l, w>> \notin Lanes!ExistingDigestIds => <<l, w>> \in Lanes!PendingWindows
    <3>1. SUFFICES ASSUME <<l, w>> \notin Lanes!ExistingDigestIds
                   PROVE  <<l, w>> \in UNION {{<<m, u>> : u \in {v \in Lanes!Windows(m) :
                             <<m, v>> \notin Lanes!ExistingDigestIds /\ Lanes!HasEntries(m, v)}}
                             : m \in 1..Len(Levels)}
      BY <2>2, Zenon DEF Lanes!PendingWindows
    <3>2. w \in {v \in Lanes!Windows(l) : <<l, v>> \notin Lanes!ExistingDigestIds /\ Lanes!HasEntries(l, v)}
      BY <2>1, <3>1
    <3> DEFINE S(m) == {<<m, u>> : u \in {v \in Lanes!Windows(m) :
                          <<m, v>> \notin Lanes!ExistingDigestIds /\ Lanes!HasEntries(m, v)}}
    <3>3. <<l, w>> \in S(l)
      BY <3>2
    <3> HIDE DEF S
    <3>4. <<l, w>> \in UNION {S(m) : m \in 1..Len(Levels)}
      BY <3>3, Zenon
    <3>5. QED
      BY <3>4 DEF S
  <2>5. QED
    BY <2>3, <2>4
<1>2. PICK k \in 1..Len(digests) : <<digests[k].level, digests[k].start>> = <<l, w>>
  BY <1>1 DEF Lanes!ExistingDigestIds
<1>3. PICK d, q, n : d = digests[k] /\ q = lane[Lanes!Main] /\ n = LenOf(q, lidx[Lanes!Main])
  OBVIOUS
<1>4. Whole(d, q, n, mine[Lanes!Main]) /\ d.level = l /\ d.start = w
  BY <1>2, <1>3 DEF LanesInv, DigestsWhole
<1>5. Lanes!Index(Lanes!Main) = {j \in 1..n : j > n - Window} /\ Lanes!At(i) = q[i]
  BY <1>3 DEF Lanes!Index, Lanes!ASet, Lanes!Length, Lanes!NotBuilt, LenOf, Lanes!At
<1>6. i \in 1..n /\ i > n - Window /\ i \in mine[Lanes!Main]
  BY <1>5
<1>7. n \in Nat
  <2>1. lane[Lanes!Main] \in Seq(Nat) /\ lidx[Lanes!Main] \in Int
        /\ Shaped(lane[Lanes!Main], lidx[Lanes!Main], mine[Lanes!Main])
    BY MainLane DEF LanesInv, LanesShape
  <2>2. QED
    BY <1>3, <2>1, IndexChanges
<1>8. i <= n
  BY <1>6, <1>7
<1>9. i \in d.counted
  BY <1>4, <1>5, <1>6, <1>8 DEF Whole
<1>10. QED
  BY <1>3, <1>4, <1>9

(* A merge covers all that its process had pushed, and when no roll is due  *)
(* every entry the process pushed and has indexed is in a digest of each    *)
(* level whose window is over, for any lanes, levels and window size, while *)
(* other processes write to the lanes, writes fail and the process restarts *)
(* (LaneGroup.create_merge, RollingDigester.roll).                          *)
THEOREM DigestsAreComplete == Spec => []DigestsComplete
<1>1. Init => LanesInv
  BY LanesStart DEF Init
<1>2. ASSUME LanesInv, [Next]_<<part, keysVars, identityVars, exchangeVars, policyVars,
                     lanesVars, recallVars, dashboardVars, tracesVars, statsVars, gatewayVars>>
      PROVE  LanesInv'
  <2>1. CASE UNCHANGED lanesVars
    BY <1>2, <2>1, LanesAlone
  <2>2. CASE Lanes!LdNext
    <3>1. LanesShape'
      BY <1>2, <2>2, LanesGrow DEF LanesInv
    <3>2. QED
      BY <1>2, <2>2, <3>1, DigestsStay, RollStays, MergesStay DEF LanesInv
  <2>3. QED
    BY <1>2, <2>1, <2>2, Zenon DEF Next
<1>3. LanesInv => DigestsComplete
  BY LanesHold DEF DigestsComplete
<1>4. QED
  BY <1>1, <1>2, <1>3, PTL DEF Spec
=============================================================================
