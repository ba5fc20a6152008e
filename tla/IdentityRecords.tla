---- MODULE IdentityRecords ----
(***************************************************************************)
(* Who an agent is.  The identity registry (identity_registry.py) records  *)
(* registrations and revocations and answers from an index that only its   *)
(* own writes drop; the identity log (identity_manager.py) records an      *)
(* agent's genesis and the changes to it, which identity_replay.py folds   *)
(* into its state at any time and identity_guard.py checks.                *)
(***************************************************************************)
EXTENDS Integers, Sequences, FiniteSets, SequencesExt, FiniteSetsExt

CONSTANTS Procs, Owners, Skills, DeepTtl,
          MaxEvents, MaxTime, MaxRestarts

VARIABLES rlog,     \* the identity_registry shard: [event, owner, at], one agent
          ridx,     \* [Procs -> entries indexed, or NoIdx]
          deep,     \* [Procs -> deep trust cache of the agent]
          told,     \* [Procs -> position of the process's own last revocation]
          ilog,     \* the identity shard, one agent
          version,  \* [Procs -> IdentityManager._identity_version]
          past,     \* what replay said of each moment when it was over
          itime, restarts

irVars == <<rlog, ridx, deep, told, ilog, version, past, itime, restarts>>

Events == Len(rlog) + Len(ilog)
NoIdx == -1
NoRec == [owner |-> "none", at |-> 0, revoked |-> TRUE]
NoDeep == [score |-> "none", at |-> 0]

---------------------------------------------------------------------------
\* _ensure_index: the last registration, revoked if a revocation follows it.
Folded(n) ==
  LET regs == {i \in 1..n : rlog[i].event = "register"} IN
  IF regs = {} THEN NoRec
  ELSE LET r == Max(regs) IN
       [owner |-> rlog[r].owner, at |-> rlog[r].at,
        revoked |-> \E i \in r + 1..n : rlog[i].event = "revoke"]

Indexed(p) == IF ridx[p] = NoIdx THEN Len(rlog) ELSE ridx[p]
Rec(p) == Folded(Indexed(p))
Known(p) == \E i \in 1..Indexed(p) : rlog[i].event = "register"
Resolve(p) == IF Rec(p).revoked THEN "none" ELSE Rec(p).owner

\* trust_score: nothing for the unknown and the revoked, more with age.
TrustScore(p) == IF Rec(p).revoked THEN "zero" ELSE IF itime - Rec(p).at >= 1 THEN "aged" ELSE "base"
DeepTrustScore(p) ==
  IF deep[p] # NoDeep /\ itime - deep[p].at < DeepTtl THEN deep[p].score ELSE TrustScore(p)

Register(p, owner) ==
  /\ Events < MaxEvents
  /\ rlog' = Append(rlog, [event |-> "register", owner |-> owner, at |-> itime])
  /\ ridx' = [ridx EXCEPT ![p] = NoIdx]
  /\ UNCHANGED <<deep, told, ilog, version, past, itime, restarts>>

\* Fault seed: the cached deep score outlives the revocation.
AfterRevoke_KeepsDeep(p) == ridx' = [ridx EXCEPT ![p] = NoIdx] /\ UNCHANGED deep
AfterRevoke(p) == ridx' = [ridx EXCEPT ![p] = NoIdx] /\ deep' = [deep EXCEPT ![p] = NoDeep]

\* revoke: refused unless the index names the owner, or names nobody.
Revoke(p, owner) ==
  /\ Events < MaxEvents
  /\ \/ /\ ~Known(p) \/ Rec(p).owner = owner
        /\ rlog' = Append(rlog, [event |-> "revoke", owner |-> owner, at |-> itime])
        /\ AfterRevoke(p) /\ told' = [told EXCEPT ![p] = Len(rlog) + 1]
     \/ /\ Known(p) /\ Rec(p).owner # owner
        /\ ridx' = [ridx EXCEPT ![p] = Indexed(p)] /\ UNCHANGED <<rlog, deep, told>>
  /\ UNCHANGED <<ilog, version, past, itime, restarts>>

\* deep_trust_score, resolve and list_agents build the index on their way;
\* a score of nothing is not cached.
ReadTrust(p) ==
  /\ rlog # <<>>
  /\ ridx' = [ridx EXCEPT ![p] = Indexed(p)]
  /\ deep' = [deep EXCEPT ![p] = IF @ # NoDeep /\ itime - @.at < DeepTtl THEN @
                                 ELSE IF TrustScore(p) = "zero" THEN @
                                 ELSE [score |-> TrustScore(p), at |-> itime]]
  /\ UNCHANGED <<rlog, told, ilog, version, past, itime, restarts>>

---------------------------------------------------------------------------
\* IdentityManager: genesis once, then numbered changes.  The number lives in
\* the object, so a new process counts from nothing again.
HasGenesis == \E i \in 1..Len(ilog) : ilog[i].event = "genesis"
CreateGenesis(p, skills) ==
  /\ Events < MaxEvents /\ ~HasGenesis
  /\ ilog' = Append(ilog, [event |-> "genesis", skills |-> skills, version |-> 1, at |-> itime])
  /\ version' = [version EXCEPT ![p] = 1]
  /\ UNCHANGED <<rlog, ridx, deep, told, past, itime, restarts>>

ChangeEvents == {"skill_added", "skill_removed", "capability_declared", "model_change"}
AppendEvent(p, event, skills) ==
  /\ Events < MaxEvents
  /\ version' = [version EXCEPT ![p] = @ + 1]
  /\ ilog' = Append(ilog, [event |-> event, skills |-> skills, version |-> version[p] + 1, at |-> itime])
  /\ UNCHANGED <<rlog, ridx, deep, told, past, itime, restarts>>

\* replay_identity: the entries up to a moment, each at its place in the log,
\* sorted by time (stable); it raises when the first is not the genesis.
UpTo(t) == [i \in {j \in 1..Len(ilog) : ilog[j].at <= t} |-> ilog[i]]
ByTime(f) ==
  LET before(i) == {j \in DOMAIN f : f[j].at < f[i].at \/ (f[j].at = f[i].at /\ j < i)}
  IN [k \in 1..Cardinality(DOMAIN f) |-> f[CHOOSE i \in DOMAIN f : Cardinality(before(i)) = k - 1]]

ApplyEvent(caps, e) ==
  CASE e.event \in {"genesis", "capability_declared"} -> e.skills
    [] e.event = "skill_added" -> caps \cup e.skills
    [] e.event = "skill_removed" -> caps \ e.skills
    [] OTHER -> caps

NoState == [ok |-> FALSE, caps |-> {}, version |-> 0, events |-> 0]
Replayed(q) ==
  IF q = <<>> \/ q[1].event # "genesis" THEN NoState
  ELSE [ok |-> TRUE, caps |-> FoldLeft(ApplyEvent, {}, q),
        version |-> Max({q[i].version : i \in 1..Len(q)}), events |-> Len(q)]
ReplayIdentity(t) == Replayed(ByTime(UpTo(t)))

\* check_continuity
CheckContinuity == IF ~HasGenesis THEN "no_genesis" ELSE IF ReplayIdentity(itime).ok THEN "consistent" ELSE "raises"

---------------------------------------------------------------------------
ITick == /\ itime < MaxTime /\ itime' = itime + 1
         /\ past' = Append(past, ReplayIdentity(itime))
         /\ UNCHANGED <<rlog, ridx, deep, told, ilog, version, restarts>>

IRestart(p) ==
  /\ restarts < MaxRestarts /\ restarts' = restarts + 1
  /\ ridx' = [ridx EXCEPT ![p] = NoIdx] /\ deep' = [deep EXCEPT ![p] = NoDeep]
  /\ version' = [version EXCEPT ![p] = 0]
  /\ UNCHANGED <<rlog, told, ilog, past, itime>>

IrInit == /\ rlog = <<>> /\ ridx = [p \in Procs |-> NoIdx] /\ deep = [p \in Procs |-> NoDeep]
          /\ told = [p \in Procs |-> 0] /\ ilog = <<>> /\ version = [p \in Procs |-> 0]
          /\ past = <<>> /\ itime = 0 /\ restarts = 0

IrNext == \/ ITick
          \/ \E p \in Procs :
               \/ ReadTrust(p) \/ IRestart(p)
               \/ \E owner \in Owners : Register(p, owner) \/ Revoke(p, owner)
               \/ \E s \in Skills : CreateGenesis(p, {s})
               \/ \E s \in Skills, event \in ChangeEvents : AppendEvent(p, event, {s})

IrSpec == IrInit /\ [][IrNext]_irVars

---------------------------------------------------------------------------
\* identity_registry.py, identity_manager.py: indexes lie within the shard
\* and the clock within its bound.
IrTypeOK == /\ \A p \in Procs : ridx[p] \in NoIdx..Len(rlog) /\ version[p] \in 0..MaxEvents
            /\ Len(past) = itime /\ restarts \in 0..MaxRestarts

\* identity_registry.py:187-296: once a process has revoked the agent and
\* nobody registers it again, that process resolves it to nobody and gives it
\* no trust, shallow or deep, whatever was cached before.
OwnRevocationHolds ==
  \A p \in Procs :
    told[p] # 0 /\ (\A i \in told[p]..Len(rlog) : rlog[i].event # "register")
      => Resolve(p) = "none" /\ TrustScore(p) = "zero" /\ DeepTrustScore(p) = "zero"

\* identity_replay.py:40-149: what the agent was at a moment that is over never
\* changes, however many events, restarts and processes follow.
PastIsFixed == \A t \in 1..Len(past) : ReplayIdentity(t - 1) = past[t]
====
