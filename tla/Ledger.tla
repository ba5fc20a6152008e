------------------------------- MODULE Ledger -------------------------------
(***************************************************************************)
(* What a DSM shard promises its callers: a ledger that only grows, each   *)
(* entry naming its predecessor, in which whatever append returned stays.  *)
(* Files, pins, locks, crashes and recovery are ShardStore's business.     *)
(***************************************************************************)
EXTENDS Naturals, Sequences

CONSTANTS Hashes, NoHash

VARIABLES
    chain,     \* committed entries, oldest first
    returned   \* hashes handed back to callers

Entry == [hash : Hashes, prev : Hashes \cup {NoHash}]

Committed == {chain[i].hash : i \in DOMAIN chain}

Tip == IF chain = <<>> THEN NoHash ELSE chain[Len(chain)].hash

Init == chain = <<>> /\ returned = {}

\* An entry becomes part of the ledger, at its end.
Commit(h) ==
    /\ h \notin Committed
    /\ chain' = Append(chain, [hash |-> h, prev |-> Tip])
    /\ UNCHANGED returned

\* A caller learns that its entry is in the ledger.
Return(h) ==
    /\ h \in Committed
    /\ returned' = returned \cup {h}
    /\ UNCHANGED chain

Next == \E h \in Hashes : Commit(h) \/ Return(h)

Spec == Init /\ [][Next]_<<chain, returned>>
=============================================================================
