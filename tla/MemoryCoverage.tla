--------------------------- MODULE MemoryCoverage ---------------------------
(***************************************************************************)
(* The coverage check of an agent's memory index (src/dsm/coverage.py):    *)
(* the entries of every shard are compared with the ids and hashes the     *)
(* agent has indexed, and the share that is indexed decides the status.    *)
(*                                                                         *)
(* What matters are numbers of entries, so a shard is a sequence of blocks *)
(* of n entries written together and indexed together.  The percentage is  *)
(* kept in hundredths, as round(..., 2) leaves it.                         *)
(***************************************************************************)
EXTENDS Integers, Sequences, FiniteSets, SequencesExt

CONSTANTS CShards,      \* shards
          BlockSizes,   \* numbers of entries written at a time
          ReadLimit,    \* entries read of a shard (100000 in the code)
          MaxGaps,      \* gaps listed (max_gaps, 500 by default)
          MaxBlocks     \* bound: blocks of all shards

VARIABLES
  blocks,    \* blocks[s]: [n, known] records, newest first
  indexing,  \* whether the agent has an index at all
  coverage   \* the last result of check_coverage, or NoResult

mcVars == <<blocks, indexing, coverage>>

NoResult == [status |-> "none", total |-> 0, indexed |-> 0, percent |-> 0, gaps |-> 0, truncated |-> FALSE]

-----------------------------------------------------------------------------
SumOver(f(_), S) == FoldSet(LAMBDA x, n : n + f(x), 0, S)

\* How many entries of block i of a shard the read returns: the newest
\* ReadLimit entries are read.
Before(b, i) == FoldLeft(LAMBDA n, x : n + x.n, 0, SubSeq(b, 1, i - 1))

ReadOf(b, i) ==
  LET room == ReadLimit - Before(b, i)
  IN IF room <= 0 THEN 0 ELSE IF b[i].n < room THEN b[i].n ELSE room

Total(s) == LET b == blocks[s] IN SumOver(LAMBDA i : ReadOf(b, i), DOMAIN b)

Indexed(s) == LET b == blocks[s] IN SumOver(LAMBDA i : ReadOf(b, i), {i \in DOMAIN b : b[i].known})

\* round(indexed / total * 100, 2), in hundredths of a percent.
Percent(indexed, total) ==
  IF total = 0 THEN 0
  ELSE (10000 * indexed) \div total + (IF 2 * ((10000 * indexed) % total) >= total THEN 1 ELSE 0)

\* The status follows from the rounded percentage.
Status(percent, total) ==
  CASE total = 0 \/ percent = 10000 -> "FULLY_COVERED"
    [] percent >= 9500              -> "PARTIAL_COVERAGE"
    [] OTHER                        -> "CRITICAL_GAPS"

\* check_coverage over the shards asked for; without ids and hashes: NO_INDEX.
CheckCoverage(shards) ==
  /\ coverage' =
       IF ~indexing THEN [NoResult EXCEPT !.status = "NO_INDEX"]
       ELSE LET total == SumOver(Total, shards)
                indexed == SumOver(Indexed, shards)
                missing == total - indexed
            IN [status |-> Status(Percent(indexed, total), total), total |-> total, indexed |-> indexed,
                percent |-> Percent(indexed, total),
                gaps |-> IF missing < MaxGaps THEN missing ELSE MaxGaps,
                truncated |-> missing > MaxGaps]
  /\ UNCHANGED <<blocks, indexing>>

-----------------------------------------------------------------------------
\* The agent writes entries,
WriteEntries(s, n) ==
  /\ SumOver(LAMBDA c : Len(blocks[c]), CShards) < MaxBlocks
  /\ blocks' = [blocks EXCEPT ![s] = <<[n |-> n, known |-> FALSE]>> \o @]
  /\ coverage' = NoResult
  /\ UNCHANGED indexing

\* indexes some of them, or builds its index anew from nothing.
IndexEntries(s, i) ==
  /\ ~blocks[s][i].known
  /\ blocks' = [blocks EXCEPT ![s][i].known = TRUE]
  /\ indexing' = TRUE
  /\ coverage' = NoResult

LoseIndex ==
  /\ indexing
  /\ indexing' = FALSE
  /\ blocks' = [s \in CShards |-> [i \in DOMAIN blocks[s] |-> [blocks[s][i] EXCEPT !.known = FALSE]]]
  /\ coverage' = NoResult

-----------------------------------------------------------------------------
McInit == blocks = [s \in CShards |-> <<>>] /\ indexing = FALSE /\ coverage = NoResult

McNext ==
  \/ \E s \in CShards, n \in BlockSizes : WriteEntries(s, n)
  \/ \E s \in CShards : \E i \in DOMAIN blocks[s] : IndexEntries(s, i)
  \/ LoseIndex
  \/ \E shards \in SUBSET CShards \ {{}} : CheckCoverage(shards)

McSpec == McInit /\ [][McNext]_mcVars

-----------------------------------------------------------------------------
(* Types of the state.                                                     *)
McTypeOK == /\ indexing \in BOOLEAN
            /\ \A s \in CShards : \A i \in DOMAIN blocks[s] : blocks[s][i].n \in BlockSizes

(* A memory called FULLY_COVERED misses at most one in 20000 of the        *)
(* entries that were read, and the list of gaps is complete unless it is   *)
(* marked truncated, at any size of the shards (check_coverage compares a  *)
(* percentage rounded to two digits).                                      *)
FullMeansNearlyAll ==
  LET missing == coverage.total - coverage.indexed
  IN /\ coverage.status = "FULLY_COVERED" => missing <= coverage.total \div 20000
     /\ coverage.status \notin {"none", "NO_INDEX"} =>
          (coverage.truncated \/ coverage.gaps = missing)

(* "An agent with FULL coverage has indexed every DSM entry."              *)
(* (src/dsm/coverage.py:8): the status FULLY_COVERED leaves no entry out.  *)
FullCoverageIsFull ==
  coverage.status = "FULLY_COVERED" => coverage.indexed = coverage.total
=============================================================================
