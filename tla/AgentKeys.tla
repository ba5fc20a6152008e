---- MODULE AgentKeys ----
(***************************************************************************)
(* An agent's signing keys (src/src/dsm/signing.py): the seed file, the    *)
(* public key file and the hash-chained key history, used by one or more   *)
(* AgentSigning objects that each hold a copy of the history read when     *)
(* they were made.  A signature stands for the key that made it.           *)
(***************************************************************************)
EXTENDS Integers, Sequences, FiniteSets, SequencesExt, FiniteSetsExt

CONSTANTS Signers, MaxKeys, MaxKeyOps, MaxKeyCrashes

VARIABLES seed,     \* the seed file: its key and how it is stored
          pub,      \* the .pub file: a key, NoKey, or TornKey
          hist,     \* the key history file
          proc,     \* [Signers -> AgentSigning]: up, its history, its loaded key, its job
          keys,     \* keys generated so far
          revoked,  \* keys whose revoke_key has returned True
          signed,   \* <<key, was it in revoked>> of every signature made
          kops, kcrashes

akVars == <<seed, pub, hist, proc, keys, revoked, signed, kops, kcrashes>>

NoKey == 0
TornKey == -1
NoSeed == [key |-> NoKey, form |-> "none"]
Down == [up |-> FALSE, hist |-> <<>>, key |-> NoKey, job |-> "none", new |-> NoKey]

---------------------------------------------------------------------------
\* KeyHistory.  The hash of an entry covers its key and the hashes before
\* it, never its present status: retiring and revoking leave the chain alone.
LastHash(H) == IF H = <<>> THEN <<>> ELSE Last(H).hash
EntryHash(key, status, prev) == Append(prev, <<key, status>>)
ActiveKey(H) ==
  LET act == {i \in 1..Len(H) : H[i].status = "active"}
  IN IF act = {} THEN NoKey ELSE H[Max(act)].key

RecordKey(H, key) ==
  IF ActiveKey(H) = key THEN H
  ELSE LET retired == [i \in 1..Len(H) |-> IF H[i].status = "active"
                                           THEN [H[i] EXCEPT !.status = "retired"] ELSE H[i]]
       IN Append(retired, [key |-> key, status |-> "active", prev |-> LastHash(H),
                           hash |-> EntryHash(key, "active", LastHash(H))])

Revoked(H, key) ==
  [i \in 1..Len(H) |-> IF H[i].key = key THEN [H[i] EXCEPT !.status = "revoked"] ELSE H[i]]

IsRevoked(H, key) == \E i \in 1..Len(H) : H[i].key = key /\ H[i].status = "revoked"
AllValidKeys(H) == {H[i].key : i \in {j \in 1..Len(H) : H[j].status \in {"active", "retired"}}}
ChainStatus(e) == "active"
VerifyChain(H) ==
  \A i \in 1..Len(H) : LET prev == IF i = 1 THEN <<>> ELSE H[i - 1].hash IN
    H[i].prev = prev /\ H[i].hash = EntryHash(H[i].key, ChainStatus(H[i]), prev)

---------------------------------------------------------------------------
\* AgentSigning.
Op == kops < MaxKeyOps /\ kops' = kops + 1
Free(p) == proc[p].up /\ proc[p].job = "none"
New(p) ==
  /\ ~proc[p].up /\ proc' = [proc EXCEPT ![p] = [Down EXCEPT !.up = TRUE, !.hist = hist]]
  /\ UNCHANGED <<seed, pub, hist, keys, revoked, signed, kops, kcrashes>>

HasKeypair == seed.form # "none" /\ pub # NoKey

\* _load_keypair: a seed of an older form is stored again, unless that fails.
LoadKeypair(p) ==
  LET readable == seed.form \in {"raw", "legacy", "salted"} IN
  /\ seed' \in IF readable /\ seed.form # "salted" THEN {seed, [seed EXCEPT !.form = "salted"]} ELSE {seed}
  /\ proc' = [proc EXCEPT ![p].key = IF readable THEN seed.key ELSE @]

GetPublicKey(loaded) == IF loaded # NoKey THEN loaded ELSE IF pub = TornKey THEN NoKey ELSE pub

\* generate_keypair without force, both files there: load and record.
Reuse(p) ==
  /\ Free(p) /\ Op /\ HasKeypair
  /\ LET readable == seed.form \in {"raw", "legacy", "salted"}
         key == GetPublicKey(IF readable THEN seed.key ELSE proc[p].key)
         H == IF key = NoKey THEN proc[p].hist ELSE RecordKey(proc[p].hist, key)
     IN /\ proc' = [proc EXCEPT ![p].key = IF readable THEN seed.key ELSE @, ![p].hist = H]
        /\ seed' \in IF readable THEN {seed, [seed EXCEPT !.form = "salted"]} ELSE {seed}
        /\ hist' = IF H = proc[p].hist THEN hist ELSE H
  /\ UNCHANGED <<pub, keys, revoked, signed, kcrashes>>

\* generate_keypair with force, or without both files, and rotate_key: the
\* seed file, the .pub file and the history are written one after the other.
GenerateBegin(p, force) ==
  /\ Free(p) /\ Op /\ keys < MaxKeys /\ (force \/ ~HasKeypair)
  /\ keys' = keys + 1
  /\ proc' = [proc EXCEPT ![p].job = "seed", ![p].new = keys + 1]
  /\ UNCHANGED <<seed, pub, hist, revoked, signed, kcrashes>>

WriteSeed(p) ==
  /\ proc[p].job = "seed" /\ seed' = [key |-> proc[p].new, form |-> "salted"]
  /\ proc' = [proc EXCEPT ![p].job = "pub"]
  /\ UNCHANGED <<pub, hist, keys, revoked, signed, kops, kcrashes>>

WritePub(p) ==
  /\ proc[p].job = "pub" /\ pub' = proc[p].new
  /\ proc' = [proc EXCEPT ![p].job = "record", ![p].key = proc[p].new]
  /\ UNCHANGED <<seed, hist, keys, revoked, signed, kops, kcrashes>>

RecordNew(p) ==
  /\ proc[p].job = "record"
  /\ LET H == RecordKey(proc[p].hist, proc[p].new)
     IN hist' = H /\ proc' = [proc EXCEPT ![p].job = "none", ![p].hist = H]
  /\ UNCHANGED <<seed, pub, keys, revoked, signed, kops, kcrashes>>

\* revoke_key; a loaded key that is revoked is dropped.
RevokeKey(p, key) ==
  /\ Free(p) /\ Op
  /\ \E i \in 1..Len(proc[p].hist) : proc[p].hist[i].key = key
  /\ LET H == Revoked(proc[p].hist, key)
     IN /\ hist' = H
        /\ proc' = [proc EXCEPT ![p].hist = H, ![p].key = IF @ = key THEN NoKey ELSE @]
  /\ revoked' = revoked \cup {key}
  /\ UNCHANGED <<seed, pub, keys, signed, kcrashes>>

\* sign_entry, and sign_receipt and sign_attestation through it.
SignEntry(p) ==
  /\ Free(p) /\ Op /\ HasKeypair
  /\ IF proc[p].key # NoKey THEN UNCHANGED <<seed, proc>> ELSE LoadKeypair(p)
  /\ LET key == proc'[p].key IN
     IF key # NoKey /\ ~IsRevoked(proc[p].hist, key)
     THEN signed' = signed \cup {<<key, key \in revoked>>} ELSE UNCHANGED signed
  /\ UNCHANGED <<pub, hist, keys, revoked, kcrashes>>

\* verify_with_history: valid for a signature made with the key, not revoked.
VerifyWithHistory(p, key) == ~IsRevoked(proc[p].hist, key)
KCrash(p) ==
  /\ proc[p].up /\ kcrashes < MaxKeyCrashes /\ kcrashes' = kcrashes + 1
  /\ seed' \in IF proc[p].job = "seed" THEN {seed, [key |-> NoKey, form |-> "torn"]} ELSE {seed}
  /\ pub' \in IF proc[p].job = "pub" THEN {pub, TornKey} ELSE {pub}
  /\ proc' = [proc EXCEPT ![p] = Down]
  /\ UNCHANGED <<hist, keys, revoked, signed, kops>>

AkInit ==
  /\ \/ seed = NoSeed /\ pub = NoKey /\ keys = 0
     \/ \E form \in {"raw", "legacy"} : seed = [key |-> 1, form |-> form] /\ pub = 1 /\ keys = 1
  /\ hist = <<>> /\ proc = [p \in Signers |-> Down]
  /\ revoked = {} /\ signed = {} /\ kops = 0 /\ kcrashes = 0

AkNext ==
  \E p \in Signers :
    \/ New(p) \/ Reuse(p) \/ WriteSeed(p) \/ WritePub(p) \/ RecordNew(p) \/ SignEntry(p) \/ KCrash(p)
    \/ \E force \in BOOLEAN : GenerateBegin(p, force)
    \/ \E key \in 1..MaxKeys : RevokeKey(p, key)

AkSpec == AkInit /\ [][AkNext]_akVars

---------------------------------------------------------------------------
\* signing.py: files and objects hold keys that were generated.
AkTypeOK ==
  /\ seed.key \in 0..keys /\ seed.form \in {"none", "raw", "legacy", "salted", "torn"}
  /\ pub \in TornKey..keys /\ \A i \in 1..Len(hist) : hist[i].key \in 1..keys
  /\ \A p \in Signers : proc[p].key \in 0..keys /\ proc[p].job \in {"none", "seed", "pub", "record"}

\* signing.py:172-194, 469-486: with one process at a time, whatever it
\* rotates, reuses or crashes in, a key once revoked is revoked in the file
\* for good and never signs again, in this process or the next.
RevocationHolds ==
  /\ \A key \in revoked : IsRevoked(hist, key)
  /\ \A s \in signed : ~s[2]

\* signing.py:204-243: the chain of the key history verifies after every
\* retirement and revocation, in the file and in every object's copy.
HistoryVerifies == VerifyChain(hist) /\ \A p \in Signers : VerifyChain(proc[p].hist)

\* signing.py:197: all_valid_keys is the keys that are not revoked.
ValidKeysNotRevoked == \A key \in AllValidKeys(hist) : ~IsRevoked(hist, key)
====
