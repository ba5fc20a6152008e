---------------------------- MODULE TaskExchange ----------------------------
(***************************************************************************)
(* Work handed from one agent to another: a dispatcher records a dispatch  *)
(* in its shard and binds it in a hash, a worker logs its work and issues  *)
(* a receipt for the logged entry, the dispatcher verifies and stores the  *)
(* receipt and checks that it answers the dispatch (src/dsm/exchange.py,   *)
(* causal.py, attestation.py and the methods of DarylAgent around them).   *)
(*                                                                         *)
(* A hash is the value it is computed from.  A worker's shard can be       *)
(* appended to by the worker's other threads at any time, also between the *)
(* two reads of issue_receipt.  The wire keeps every message: deliveries   *)
(* are reordered, repeated or never made, and Garble changes a field.      *)
(***************************************************************************)
EXTENDS Integers, Sequences, FiniteSets, SequencesExt

CONSTANTS Workers,        \* the agents work is dispatched to
          Tasks,          \* task parameters
          GarbledFields,  \* fields of a receipt a faulty wire may change
          MaxDispatches,  \* bound: dispatches
          MaxEntries,     \* bound: entries of all the workers' shards
          MaxReceipts,    \* bound: receipts on the wire
          MaxStored       \* bound: receipts the dispatcher stores

VARIABLES
  dispatched,  \* DispatchRecords in the order they were made
  work,        \* work[w]: entries of w's shard, [id, for, hash]
  issuing,     \* issuing[w]: the receipt w is about to issue, or Idle
  wire,        \* receipts in flight, as the dicts that are sent
  received,    \* receipts in the dispatcher's "receipts" shard
  accepted,    \* <<dispatch, receipt>> pairs found VALID
  attested     \* attestations made by workers

txVars == <<dispatched, work, issuing, wire, received, accepted, attested>>

-----------------------------------------------------------------------------
(* Dispatch records and the hash that binds them.                          *)

\* create_dispatch_hash: the dispatcher's entry hash and the parameters; the
\* entry hash is the number of the dispatch entry in the dispatcher's shard.
CreateDispatchHash(entry, params) == <<entry, params>>

\* dispatch_task: an entry is appended, then the record is built from its hash.
DispatchTask(w, p) ==
  /\ Len(dispatched) < MaxDispatches
  /\ dispatched' = Append(dispatched,
       LET e == Len(dispatched) + 1
       IN [hash |-> CreateDispatchHash(e, p), entry |-> e, target |-> w, params |-> p])
  /\ UNCHANGED <<work, issuing, wire, received, accepted, attested>>

\* verify_dispatch_hash.
DispatchValid(d) == d.hash = CreateDispatchHash(d.entry, d.params)

\* verify_causal_chain: the record is intact and the receipt names it.  The
\* intent hash the function is given is not looked at.
CausalChainValid(d, r) == DispatchValid(d) /\ r.dispatch = {d.hash}

-----------------------------------------------------------------------------
(* The worker's shard and its receipts.                                    *)

Entries == UNION {{<<w, i>> : i \in DOMAIN work[w]} : w \in Workers}

\* The hash of a shard's last entry; nothing for an empty shard.
TipOf(s) == IF s = <<>> THEN <<>> ELSE Last(s).hash

\* Some thread of the worker appends an entry: the work done for a dispatch,
\* or anything else (for = 0).  An entry's hash covers its predecessors.
WorkerAppend(w, d) ==
  /\ Cardinality(Entries) < MaxEntries
  /\ d # 0 => dispatched[d].target = w
  /\ work' = [work EXCEPT ![w] = Append(@,
       [id |-> Len(@) + 1, for |-> d, hash |-> Append(TipOf(@), d)])]
  /\ UNCHANGED <<dispatched, issuing, wire, received, accepted, attested>>

Idle == [id |-> 0]

\* _receipt_payload: the fields the receipt hash covers.  dispatch_hash is not
\* one of them, nor is the signature.
Payload(r) == <<r.issuer, r.id, r.ehash, r.tip, r.count>>

\* issue_receipt, first read: the whole shard, in which the entry is looked up
\* and whose length becomes the receipt's count.
IssueRead(w, i, dh) ==
  /\ issuing[w] = Idle
  /\ Cardinality(wire) < MaxReceipts
  /\ i \in DOMAIN work[w]
  /\ issuing' = [issuing EXCEPT ![w] =
       [id |-> i, ehash |-> work[w][i].hash, count |-> Len(work[w]), dispatch |-> dh]]
  /\ UNCHANGED <<dispatched, work, wire, received, accepted, attested>>

\* Fault seed: the tip is the one before the counted entries.
ReceiptTip_Before(s, j) == TipOf(SubSeq(s, 1, j.count - 1))

\* The tip a receipt carries, given the shard now, read a second time, and
\* what was read before.
ReceiptTip(s, j) == TipOf(s)

\* issue_receipt, second read, and the signature DarylAgent adds when it has a
\* key; a signing that fails is skipped and the receipt goes out without one.
NewReceipt(w, j, signed) ==
  LET p == [issuer |-> w, id |-> j.id, ehash |-> j.ehash, count |-> j.count,
            tip |-> ReceiptTip(work[w], j)]
      h == Payload(p)
  IN [issuer |-> w, id |-> p.id, ehash |-> p.ehash, count |-> p.count, tip |-> p.tip,
      hash |-> h, dispatch |-> j.dispatch, sig |-> IF signed THEN {<<w, h>>} ELSE {}]

Optional == {"dispatch", "sig"}

\* TaskReceipt.to_dict leaves out the optional fields that are None,
ToDict(r) == [f \in {g \in DOMAIN r : g \in Optional => r[g] # {}} |-> r[f]]

\* and from_dict puts None back for them.
FromDict(m) == [f \in DOMAIN m \cup Optional |-> IF f \in DOMAIN m THEN m[f] ELSE {}]

IssueSend(w, signed) ==
  /\ issuing[w] # Idle
  /\ wire' = wire \cup {ToDict(NewReceipt(w, issuing[w], signed))}
  /\ issuing' = [issuing EXCEPT ![w] = Idle]
  /\ UNCHANGED <<dispatched, work, received, accepted, attested>>

\* A faulty wire or file: one field of a copy of a message is not what was sent.
Garble(m, f) ==
  /\ Cardinality(wire) < MaxReceipts
  /\ f \in DOMAIN m
  /\ \E v \in CASE f = "count"    -> {m.count + 1}
                [] f = "dispatch" -> {{dispatched[d].hash} : d \in DOMAIN dispatched} \ {m.dispatch}
                [] f = "sig"      -> {{<<w, h>>} : w \in Workers, h \in {<<>>}} :
       wire' = wire \cup {[m EXCEPT ![f] = v]}
  /\ UNCHANGED <<dispatched, work, issuing, received, accepted, attested>>

-----------------------------------------------------------------------------
(* The dispatcher.                                                         *)

\* _verify_receipt_signature: None without a signature, else whether the
\* signature is the issuer's of this receipt hash.
SignatureOk(r) == r.sig = {} \/ r.sig = {<<r.issuer, r.hash>>}

\* verify_receipt: a bad signature overrides what the hash says.
ReceiptStatus(r) ==
  CASE ~SignatureOk(r)       -> "SIGNATURE_INVALID"
    [] r.hash = Payload(r)   -> "INTACT"
    [] OTHER                 -> "TAMPERED"

\* store_external_receipt: the receipt's JSON, appended to the receipts shard.
StoreExternalReceipt(r) == received' = Append(received, ToDict(r))

\* receive_receipt: only an intact receipt is stored.  Nothing is deduplicated.
ReceiveReceipt(m) ==
  /\ ReceiptStatus(FromDict(m)) = "INTACT"
  /\ Len(received) < MaxStored
  /\ StoreExternalReceipt(FromDict(m))
  /\ UNCHANGED <<dispatched, work, issuing, wire, accepted, attested>>

\* list_received_receipts.
ListReceived == {FromDict(received[i]) : i \in DOMAIN received}

\* The dispatcher checks a stored receipt against one of its dispatches.
CheckCausal(d, r) ==
  /\ CausalChainValid(d, r)
  /\ accepted' = accepted \cup {<<d, r>>}
  /\ accepted' # accepted
  /\ UNCHANGED <<dispatched, work, issuing, wire, received, attested>>

\* verify_receipt_against_storage, run where the worker's shard can be read.
StorageStatus(r) ==
  CASE work[r.issuer] = <<>>                      -> "SHARD_MISSING"
    [] r.id \notin DOMAIN work[r.issuer]          -> "ENTRY_MISSING"
    [] work[r.issuer][r.id].hash # r.ehash        -> "HASH_MISMATCH"
    [] OTHER                                      -> "CONFIRMED"

-----------------------------------------------------------------------------
(* Compute attestations.                                                   *)

\* create_attestation hashes the input, the output, the model and the agent.
\* Like the receipt hash it does not cover the dispatch.
AttestationHash(a) == <<a.input, a.output, a.agent>>

\* create_attestation followed by sign_attestation.
Attestation(a) == [a |-> a, hash |-> AttestationHash(a), sig |-> {<<a.agent, AttestationHash(a)>>}]

\* attest_compute, signed by the agent's key when it has one (sign_attestation).
AttestCompute(w, in, out, d) ==
  /\ Cardinality(attested) < 1
  /\ d # 0 => dispatched[d].target = w
  /\ attested' = attested \cup {Attestation([input |-> in, output |-> out, agent |-> w, for |-> d])}
  /\ UNCHANGED <<dispatched, work, issuing, wire, received, accepted>>

\* verify_attestation.
AttestationStatus(t) ==
  CASE t.hash # AttestationHash(t.a)                          -> "HASH_MISMATCH"
    [] t.sig # {} /\ t.sig # {<<t.a.agent, t.hash>>}          -> "SIGNATURE_INVALID"
    [] OTHER                                                  -> "VALID"

\* verify_attestation_against_data.
DataStatus(t, in, out) ==
  CASE in = t.a.input /\ out = t.a.output -> "CONFIRMED"
    [] in = t.a.input                     -> "OUTPUT_MISMATCH"
    [] out = t.a.output                   -> "INPUT_MISMATCH"
    [] OTHER                              -> "BOTH_MISMATCH"

-----------------------------------------------------------------------------
TxInit ==
  /\ dispatched = <<>>
  /\ work = [w \in Workers |-> <<>>]
  /\ issuing = [w \in Workers |-> Idle]
  /\ wire = {} /\ received = <<>> /\ accepted = {} /\ attested = {}

TxNext ==
  \/ \E w \in Workers, p \in Tasks : DispatchTask(w, p)
  \/ \E w \in Workers, d \in 0..Len(dispatched) : WorkerAppend(w, d)
  \/ \E w \in Workers : \E i \in DOMAIN work[w] :
       IssueRead(w, i, IF work[w][i].for = 0 THEN {} ELSE {dispatched[work[w][i].for].hash})
  \/ \E w \in Workers, signed \in BOOLEAN : IssueSend(w, signed)
  \/ \E m \in wire : ReceiveReceipt(m) \/ \E f \in GarbledFields : Garble(m, f)
  \/ \E i \in DOMAIN dispatched, r \in ListReceived : CheckCausal(dispatched[i], r)
  \/ \E w \in Workers, in, out \in Tasks, d \in 0..Len(dispatched) : AttestCompute(w, in, out, d)

TxSpec == TxInit /\ [][TxNext]_txVars

-----------------------------------------------------------------------------
(* Types of the state.                                                     *)
TxTypeOK ==
  /\ \A d \in Range(dispatched) : d.target \in Workers /\ d.params \in Tasks
  /\ \A w \in Workers : \A i \in DOMAIN work[w] : work[w][i].id = i
  /\ Len(received) <= MaxStored
  /\ \A m \in wire : m.issuer \in Workers
  /\ \A t \in attested : AttestationStatus(t) = "VALID" /\ DataStatus(t, t.a.input, t.a.output) = "CONFIRMED"

(* A receipt the dispatcher accepted for a dispatch (verify_receipt and    *)
(* verify_causal_chain both passed) is about an entry the worker really    *)
(* logged for that dispatch, and the worker's shard confirms it, however   *)
(* the receipts were delayed, repeated or garbled on the way.              *)
AcceptedIsAnswer ==
  \A pair \in accepted :
    LET d == pair[1]  r == pair[2]
    IN /\ StorageStatus(r) = "CONFIRMED"
       /\ LET e == work[r.issuer][r.id]
          IN e.for # 0 /\ dispatched[e.for] = d

(* The shard a receipt describes exists: the tip it names is the hash of an *)
(* entry at or after its count, and its own entry is within the count.     *)
(* issue_receipt reads the entries first and the tip second, so an append  *)
(* in between can only make the tip newer than the count.                  *)
TipCoversCount ==
  \A i \in DOMAIN received :
    LET r == received[i]
        s == work[r.issuer]
    IN r.id <= r.count /\ \E p \in r.count..Len(s) : r.tip = s[p].hash
=============================================================================
