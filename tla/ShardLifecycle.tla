---- MODULE ShardLifecycle ----
(***************************************************************************)
(* The end of a shard's life: the state machine active, draining, sealed,  *)
(* archived (src/src/dsm/lifecycle.py), the seal registry (seal.py), cold  *)
(* storage (cold_storage.py) and the witness log (witness.py), all over    *)
(* one shard whose storage is not told of any of them.                     *)
(*                                                                         *)
(* An entry's hash stands for its id and everything chained before it, so  *)
(* it is the sequence of ids it covers; `over` is prev_hash.               *)
(***************************************************************************)
EXTENDS Integers, Sequences, FiniteSets, SequencesExt

CONSTANTS Managers,      \* processes that hold a ShardLifecycle object
          RetainEntries, \* FAMILY_RETENTION max_entries of the shard's family
          MaxIds,        \* entries the writers may append
          MaxLen,        \* length up to which a restore may begin
          MaxFaults,     \* losses of shard data, failed writes and restarts
          MaxKept,       \* seal records and witness records
          MaxLcOps       \* operations begun

VARIABLES shard,     \* the entries in the segments, oldest first
          pin,       \* the integrity pin: last hash and count, or NoPin
          registry,  \* transitions in the lifecycle_registry shard
          cache,     \* [Managers -> cached state or Unknown]
          sealing,   \* managers between the drain and the seal of seal()
          seals, sjob, cold, ejob, rjob, witness,
          nextId, faults, lcOps

lcVars == <<shard, pin, registry, cache, sealing, seals, sjob, cold, ejob, rjob,
            witness, nextId, faults, lcOps>>

NoHash == <<>>
NoPin == [last |-> <<>>, count |-> 0]
HashOf(e) == Append(e.over, e.id)
Hashes(q) == [i \in 1..Len(q) |-> HashOf(q[i])]
TipOf(q) == IF q = <<>> THEN <<>> ELSE HashOf(Last(q))

Begin == lcOps < MaxLcOps /\ lcOps' = lcOps + 1

---------------------------------------------------------------------------
\* Storage: append chains to the pin, whatever the lifecycle says of the shard.
Appended(id) == Append(shard, [id |-> id, over |-> pin.last])
Pinned(id) == [last |-> Append(pin.last, id), count |-> pin.count + 1]

\* (A restore and a seal_shard under way remember whether they were disturbed.)
Write == /\ nextId <= MaxIds
         /\ shard' = Appended(nextId) /\ pin' = Pinned(nextId) /\ nextId' = nextId + 1
         /\ rjob' = [rjob EXCEPT !.alone = FALSE]
         /\ UNCHANGED <<registry, cache, sealing, seals, sjob, cold, ejob, witness, faults, lcOps>>

\* Data goes: the segments alone, the whole shard, or its newest entries.
Lose == /\ faults < MaxFaults /\ shard # <<>> /\ faults' = faults + 1
        /\ \/ shard' = <<>> /\ pin' \in {pin, NoPin}
           \/ shard' = Front(shard) /\ pin' = pin
        /\ rjob' = [rjob EXCEPT !.alone = FALSE] /\ sjob' = [sjob EXCEPT !.alone = FALSE]
        /\ UNCHANGED <<registry, cache, sealing, seals, cold, ejob, witness, nextId, lcOps>>

Unbroken(q) == \A i \in 2..Len(q) : q[i].over = HashOf(q[i - 1])

\* verify_shard: the chain and the pin; only a pin behind the data is forgiven.
VerifyShard == /\ Unbroken(shard)
               /\ pin.last # <<>> => \/ Len(shard) > pin.count
                                     \/ Len(shard) = pin.count /\ TipOf(shard) = pin.last

---------------------------------------------------------------------------
\* ShardLifecycle.
States == {"active", "draining", "sealed", "archived"}
Unknown == "unknown"
Recorded == IF registry = <<>> THEN "active" ELSE Last(registry).to

\* Fault seed: a new process does not read the registry.
State_AssumesActive(m) == IF cache[m] = Unknown THEN "active" ELSE cache[m]
State(m) == IF cache[m] = Unknown THEN Recorded ELSE cache[m]
WriteTransition(m, from, to, final) ==
  /\ registry' = Append(registry, [from |-> from, to |-> to, final |-> final])
  /\ cache' = [cache EXCEPT ![m] = to]

Refused(m) == cache' = [cache EXCEPT ![m] = State(m)] /\ UNCHANGED registry

Drain(m) ==
  /\ Begin
  /\ m \notin sealing
  /\ \/ State(m) = "active" /\ WriteTransition(m, "active", "draining", NoHash)
     \/ State(m) # "active" /\ Refused(m)
  /\ UNCHANGED <<shard, pin, sealing, seals, sjob, cold, ejob, rjob, witness, nextId, faults>>

\* seal() drains an active shard first; the tip is read and recorded later.
SealBegin(m) ==
  /\ Begin
  /\ m \notin sealing
  /\ \/ State(m) = "active" /\ WriteTransition(m, "active", "draining", NoHash)
        /\ sealing' = sealing \cup {m}
     \/ State(m) = "draining" /\ Refused(m) /\ sealing' = sealing \cup {m}
     \/ State(m) \in {"sealed", "archived"} /\ Refused(m) /\ UNCHANGED sealing
  /\ UNCHANGED <<shard, pin, seals, sjob, cold, ejob, rjob, witness, nextId, faults>>

SealEnd(m) ==
  /\ m \in sealing /\ sealing' = sealing \ {m}
  /\ WriteTransition(m, "draining", "sealed", TipOf(shard))
  /\ UNCHANGED <<shard, pin, seals, sjob, cold, ejob, rjob, witness, nextId, faults, lcOps>>

Archive(m) ==
  /\ Begin
  /\ m \notin sealing
  /\ \/ State(m) = "sealed" /\ WriteTransition(m, "sealed", "archived", TipOf(shard))
     \/ State(m) # "sealed" /\ Refused(m)
  /\ UNCHANGED <<shard, pin, sealing, seals, sjob, cold, ejob, rjob, witness, nextId, faults>>

\* check_triggers, and the caller that drains when it says so.
CheckTriggers(m) == State(m) = "active" /\ Len(shard) > RetainEntries
DrainOnTrigger(m) == CheckTriggers(m) /\ Drain(m)

\* The process dies: its cache and a seal() between its two writes are gone.
Restart(m) ==
  /\ faults < MaxFaults /\ faults' = faults + 1
  /\ cache' = [cache EXCEPT ![m] = Unknown] /\ sealing' = sealing \ {m}
  /\ UNCHANGED <<shard, pin, registry, seals, sjob, cold, ejob, rjob, witness, nextId, lcOps>>

---------------------------------------------------------------------------
\* seal_shard: verify, read, copy the segments, append the record.
Idle == [at |-> "idle", q |-> <<>>, copy |-> <<>>, alone |-> FALSE]
SealRead ==
  /\ Begin
  /\ sjob = Idle /\ Len(seals) < MaxKept
  /\ VerifyShard /\ shard # <<>>
  /\ sjob' = [Idle EXCEPT !.at = "read", !.q = Hashes(shard), !.alone = TRUE]
  /\ UNCHANGED <<shard, pin, registry, cache, sealing, seals, cold, ejob, rjob, witness, nextId, faults>>

SealCopy ==
  /\ sjob.at = "read"
  /\ \E archive \in BOOLEAN :
       sjob' = [sjob EXCEPT !.at = "copied", !.copy = IF archive THEN Hashes(shard) ELSE <<>>]
  /\ UNCHANGED <<shard, pin, registry, cache, sealing, seals, cold, ejob, rjob, witness, nextId, faults, lcOps>>

SealRecord == [count |-> Len(sjob.q), last |-> Last(sjob.q),
               copy |-> sjob.copy, whole |-> sjob.alone]

SealAppend ==
  /\ sjob.at = "copied" /\ seals' = Append(seals, SealRecord) /\ sjob' = Idle
  /\ UNCHANGED <<shard, pin, registry, cache, sealing, cold, ejob, rjob, witness, nextId, faults, lcOps>>

\* verify_seal_against_storage: against the first record of the shard.
SealStatus(q) ==
  CASE seals = <<>> -> "not_sealed"
    [] seals # <<>> /\ q # <<>> /\ Len(q) = Head(seals).count /\ TipOf(q) = Head(seals).last -> "matches"
    [] seals # <<>> /\ q # <<>> /\ \/ Len(q) > Head(seals).count
                                   \/ Len(q) = Head(seals).count /\ TipOf(q) # Head(seals).last -> "diverged"
    [] OTHER -> "gone"

---------------------------------------------------------------------------
\* ColdStorage: the archive file is rewritten in place, so a failed write
\* leaves it torn; restore appends every entry and counts the failures.
NoFile == [ok |-> FALSE, ids |-> <<>>, hashes |-> <<>>, torn |-> FALSE]
Torn == [NoFile EXCEPT !.torn = TRUE]

\* ColdStorage.verify, and what restore needs to begin: a file that parses.
ArchiveOk == cold.ok /\ ~cold.torn
ExportRead ==
  /\ Begin
  /\ ejob = Idle /\ shard # <<>> /\ Unbroken(shard)
  /\ ejob' = [Idle EXCEPT !.at = "write", !.q = shard]
  /\ UNCHANGED <<shard, pin, registry, cache, sealing, seals, sjob, cold, rjob, witness, nextId, faults>>

ArchiveOf(q) == [ok |-> TRUE, ids |-> [i \in 1..Len(q) |-> q[i].id],
                 hashes |-> Hashes(q), torn |-> FALSE]

ExportWrite ==
  /\ ejob.at = "write" /\ ejob' = Idle
  /\ \/ cold' = ArchiveOf(ejob.q) /\ UNCHANGED faults
     \/ faults < MaxFaults /\ faults' = faults + 1 /\ cold' = Torn
  /\ UNCHANGED <<shard, pin, registry, cache, sealing, seals, sjob, rjob, witness, nextId, lcOps>>

NoRestore == [left |-> <<>>, on |-> FALSE, fresh |-> FALSE, alone |-> FALSE,
              skipped |-> 0, want |-> <<>>]

RestoreBegin ==
  /\ Begin
  /\ ~rjob.on /\ ArchiveOk /\ Len(shard) + Len(cold.ids) <= MaxLen
  /\ rjob' = [left |-> cold.ids, on |-> TRUE, fresh |-> shard = <<>> /\ pin = NoPin,
              alone |-> TRUE, skipped |-> 0, want |-> cold.hashes]
  /\ UNCHANGED <<shard, pin, registry, cache, sealing, seals, sjob, cold, ejob, witness, nextId, faults>>

RestoreEntry ==
  /\ rjob.on /\ rjob.left # <<>>
  /\ \/ /\ shard' = Appended(Head(rjob.left)) /\ pin' = Pinned(Head(rjob.left))
        /\ rjob' = [rjob EXCEPT !.left = Tail(@)] /\ UNCHANGED faults
     \/ /\ faults < MaxFaults /\ faults' = faults + 1
        /\ rjob' = [rjob EXCEPT !.left = Tail(@), !.skipped = @ + 1] /\ UNCHANGED <<shard, pin>>
  /\ UNCHANGED <<registry, cache, sealing, seals, sjob, cold, ejob, witness, nextId, lcOps>>

RestoreEnd ==
  /\ rjob.on /\ rjob.left = <<>> /\ rjob' = NoRestore
  /\ UNCHANGED <<shard, pin, registry, cache, sealing, seals, sjob, cold, ejob, witness, nextId, faults, lcOps>>

\* backend.delete
DeleteArchive ==
  /\ Begin
  /\ cold # NoFile /\ cold' = NoFile
  /\ UNCHANGED <<shard, pin, registry, cache, sealing, seals, sjob, ejob, rjob, witness, nextId, faults>>

---------------------------------------------------------------------------
\* ShardWitness.
Capture ==
  /\ Begin
  /\ shard # <<>> /\ Len(witness) < MaxKept
  /\ witness' = Append(witness, [count |-> Len(shard), tip |-> TipOf(shard)])
  /\ UNCHANGED <<shard, pin, registry, cache, sealing, seals, sjob, cold, ejob, rjob, nextId, faults>>

StateMatches(w, q) ==
  IF Len(q) = w.count THEN TipOf(q) = w.tip ELSE Len(q) >= w.count

WitnessStatus(q) ==
  IF witness = <<>> THEN "no_witness"
  ELSE IF StateMatches(Last(witness), q) THEN "ok" ELSE "diverged"

---------------------------------------------------------------------------
LcInit ==
  /\ shard = <<>> /\ pin = NoPin /\ registry = <<>>
  /\ cache = [m \in Managers |-> Unknown] /\ sealing = {}
  /\ seals = <<>> /\ sjob = Idle /\ cold = NoFile /\ ejob = Idle /\ rjob = NoRestore
  /\ witness = <<>> /\ nextId = 1 /\ faults = 0 /\ lcOps = 0

LcNext ==
  \/ Write \/ Lose
  \/ \E m \in Managers : \/ Drain(m) \/ SealBegin(m) \/ SealEnd(m) \/ Archive(m)
                         \/ DrainOnTrigger(m) \/ Restart(m)
  \/ SealRead \/ SealCopy \/ SealAppend
  \/ ExportRead \/ ExportWrite \/ RestoreBegin \/ RestoreEntry \/ RestoreEnd \/ DeleteArchive
  \/ Capture

LcSpec == LcInit /\ [][LcNext]_lcVars

---------------------------------------------------------------------------
\* lifecycle.py, seal.py, cold_storage.py, witness.py: the records have
\* their types, and a cached state is one of the four or unknown.
LcTypeOK ==
  /\ \A i \in 1..Len(shard) : shard[i].id \in 1..MaxIds
  /\ \A i \in 1..Len(registry) : registry[i].to \in States
  /\ cache \in [Managers -> States \cup {Unknown}]
  /\ sealing \subseteq Managers
  /\ pin.count \in Nat /\ faults \in 0..MaxFaults
  /\ Len(seals) <= MaxKept /\ Len(witness) <= MaxKept

\* lifecycle.py:48-53: with one process at a time, also one that dies between
\* the drain and the seal of seal() and starts again, the recorded
\* transitions follow on from each other and end at archived.
LegalRegistry ==
  \A i \in 1..Len(registry) :
    /\ registry[i].from = IF i = 1 THEN "active" ELSE registry[i - 1].to
    /\ registry[i].from # "archived"

\* An undisturbed restore at its end, into a storage without the shard, that
\* skipped nothing, of an archive that begins where its chain began (data
\* deleted without its pin makes a chain that begins in the middle).
Restored == /\ rjob.on /\ rjob.left = <<>> /\ rjob.skipped = 0
            /\ rjob.fresh /\ rjob.alone /\ Len(rjob.want[1]) = 1

\* cold_storage.py:284-327 and seal.py:151-170: such a restore gives back the
\* archived chain hash for hash, though append computes every hash again,
\* and passes the seal and the witness taken of it; and the copy made with
\* a seal holds all that the seal covers.
ArchivesWhole ==
  /\ Restored => /\ Hashes(shard) = rjob.want
                 /\ seals # <<>> /\ Head(seals).last = Last(rjob.want) => SealStatus(shard) = "matches"
                 /\ witness # <<>> /\ Last(witness).tip = Last(rjob.want) => WitnessStatus(shard) = "ok"
  /\ \A i \in 1..Len(seals) : LET s == seals[i] IN
       s.copy # <<>> /\ s.whole => Len(s.copy) >= s.count /\ s.copy[s.count] = s.last

\* cold_storage.py:288 says a restore skips the entries the shard has.
RestoreIdempotent ==
  \A i, j \in 1..Len(shard) : i # j => shard[i].id # shard[j].id
====
