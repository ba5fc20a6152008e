----------------------------- MODULE AgentIndex -----------------------------
(***************************************************************************)
(* The read index an agent keeps in memory between its queries             *)
(* (DarylAgent._get_cached_rr_builder, src/dsm/agent.py, and               *)
(* get_populated_rr_builder, src/dsm/rr/helpers.py).  The copy is dropped  *)
(* when the modification times of the .idx files differ from those seen    *)
(* after it was filled.  Every process may rebuild the files, which are    *)
(* replaced, read and looked at one by one, without a lock.                *)
(*                                                                         *)
(* An index is the number of entries it was built from, a modification     *)
(* time the number of the replacement; how a build pages through the       *)
(* shards is in ReadRelay.                                                 *)
(***************************************************************************)
EXTENDS Integers, Sequences

CONSTANTS Agents,      \* agent processes over one index directory
          Files,       \* number of .idx files; the first is sessions.idx
          MaxLogged,   \* bound: entries logged
          MaxBuilds    \* bound: builds begun

VARIABLES
  logged,    \* entries in the shards
  idx,       \* idx[i]: [time, size] of file i; time 0: there is no file
  cached,    \* cached[p]: [index, times], both NoneYet at first
  work,      \* work[p]: the call under way: what it does, at which file, with what
  raced,     \* history: raced[p]: a file was replaced while p filled its copy
  builds

aiVars == <<logged, idx, cached, work, raced, builds>>

NoneYet == <<>>
Idle == [do |-> "idle", at |-> 1, got |-> <<>>, fill |-> "no"]
Doing(p, what) == work[p].do = what
Missing == \E i \in 1..Files : idx[i].time = 0
Begin(p, what) == [work EXCEPT ![p].do = what, ![p].at = 1, ![p].got = <<>>]

-----------------------------------------------------------------------------
LogEntry == /\ logged < MaxLogged /\ logged' = logged + 1
            /\ UNCHANGED <<idx, cached, work, raced, builds>>

\* index_sessions: a build of its own, which leaves the cached copy alone.
\* build reads the shards before it writes the first file.
IndexSessions(p) ==
  /\ Doing(p, "idle") /\ builds < MaxBuilds
  /\ builds' = builds + 1
  /\ work' = [work EXCEPT ![p] = [do |-> "write", at |-> 1, got |-> <<logged>>, fill |-> "no"]]
  /\ UNCHANGED <<logged, idx, cached, raced>>

\* find_session and query_actions ask for the builder.
Ask(p) ==
  /\ Doing(p, "idle")
  /\ work' = [work EXCEPT ![p] = [Idle EXCEPT !.do = "look"]]
  /\ UNCHANGED <<logged, idx, cached, raced, builds>>

\* _compute_idx_mtime looks at one file after the other; a missing one ends it
\* with None, here NoneYet.
Stat(p) ==
  /\ work[p].at <= Files /\ idx[work[p].at].time # 0
  /\ work' = [work EXCEPT ![p].at = @ + 1, ![p].got = Append(@, idx[work[p].at].time)]
StatsDone(p) == work[p].at <= Files => idx[work[p].at].time = 0
Times(p) == IF work[p].at > Files THEN work[p].got ELSE NoneYet

Look(p) ==
  /\ Doing(p, "look")
  /\ \/ Stat(p) /\ UNCHANGED raced
     \/ /\ StatsDone(p)
        /\ IF cached[p].index # NoneYet /\ Times(p) # NoneYet /\ cached[p].times = Times(p)
           THEN work' = [work EXCEPT ![p] = Idle] /\ UNCHANGED raced
           ELSE work' = Begin(p, "load") /\ raced' = [raced EXCEPT ![p] = FALSE]
  /\ UNCHANGED <<logged, idx, cached, builds>>

\* load tests that all files exist and reads them one by one.  ensure_index
\* builds when one is missing, and the helper once more when there are no
\* sessions after that.
Fill(p, index) ==
  /\ cached' = [cached EXCEPT ![p].index = index]
  /\ work' = Begin(p, "record")

Build(p, for) ==
  /\ builds < MaxBuilds /\ builds' = builds + 1
  /\ work' = [work EXCEPT ![p] = [do |-> "write", at |-> 1, got |-> <<logged>>, fill |-> for]]
  /\ UNCHANGED cached

Load(p) ==
  /\ Doing(p, "load")
  /\ \/ work[p].at = 1 /\ Missing /\ Build(p, "ensure")
     \/ /\ work[p].at <= Files /\ ~Missing
        /\ work' = [work EXCEPT ![p].at = @ + 1, ![p].got = Append(@, idx[work[p].at].size)]
        /\ UNCHANGED <<cached, builds>>
     \/ work[p].at > Files /\ work[p].got[1] = 0 /\ Build(p, "helper")
     \/ work[p].at > Files /\ work[p].got[1] # 0 /\ Fill(p, work[p].got) /\ UNCHANGED builds
  /\ UNCHANGED <<logged, idx, raced>>

\* _write_index_files replaces one file after the other.
LastTime == LET T == {idx[i].time : i \in 1..Files} IN CHOOSE t \in T : \A u \in T : u <= t
Filling(q) == work[q].do \in {"load", "record"} \/ work[q].fill # "no"

Write(p) ==
  /\ Doing(p, "write")
  /\ idx' = [idx EXCEPT ![work[p].at] = [time |-> LastTime + 1, size |-> work[p].got[1]]]
  /\ raced' = [q \in Agents |-> raced[q] \/ (q # p /\ Filling(q))]
  /\ IF work[p].at < Files
     THEN work' = [work EXCEPT ![p].at = @ + 1] /\ UNCHANGED <<cached, builds>>
     ELSE CASE work[p].fill = "no" ->
                 work' = [work EXCEPT ![p] = Idle] /\ UNCHANGED <<cached, builds>>
            [] work[p].fill = "ensure" /\ work[p].got[1] = 0 -> Build(p, "helper")
            [] OTHER -> Fill(p, [i \in 1..Files |-> work[p].got[1]]) /\ UNCHANGED builds
  /\ UNCHANGED logged

\* The times are looked at again after the copy is filled.
Record(p) ==
  /\ Doing(p, "record")
  /\ \/ Stat(p) /\ UNCHANGED cached
     \/ /\ StatsDone(p)
        /\ cached' = [cached EXCEPT ![p].times = Times(p)]
        /\ work' = [work EXCEPT ![p] = Idle]
  /\ UNCHANGED <<logged, idx, raced, builds>>

AiInit ==
  /\ logged = 0 /\ builds = 0
  /\ idx = [i \in 1..Files |-> [time |-> 0, size |-> 0]]
  /\ cached = [p \in Agents |-> [index |-> NoneYet, times |-> NoneYet]]
  /\ work = [p \in Agents |-> Idle]
  /\ raced = [p \in Agents |-> FALSE]

AiNext ==
  \/ LogEntry
  \/ \E p \in Agents : IndexSessions(p) \/ Ask(p) \/ Look(p) \/ Load(p) \/ Write(p) \/ Record(p)

AiSpec == AiInit /\ [][AiNext]_aiVars

-----------------------------------------------------------------------------
(* Types of the state.                                                     *)
AiTypeOK ==
  /\ logged \in 0..MaxLogged /\ builds \in 0..MaxBuilds
  /\ \A p \in Agents : /\ work[p].do \in {"idle", "look", "load", "write", "record"}
                       /\ work[p].fill \in {"no", "ensure", "helper"}
                       /\ work[p].at \in 1..(Files + 1)

\* The copy of p would be served now: its times are those of the files.
Served(p) ==
  /\ Doing(p, "idle") /\ cached[p].index # NoneYet
  /\ ~Missing /\ cached[p].times = [i \in 1..Files |-> idx[i].time]

(* A copy that is served and during whose filling no other process         *)
(* replaced a file is what the files hold now, however often they were     *)
(* rebuilt before and after (_get_cached_rr_builder).                      *)
UndisturbedCopyCurrent ==
  \A p \in Agents : Served(p) /\ ~raced[p] => cached[p].index = [i \in 1..Files |-> idx[i].size]

(* "Used to detect when indexes have been modified by any process (intra   *)
(* or inter) so the cached builder can be invalidated."                    *)
CopyCurrent ==
  \A p \in Agents : Served(p) => cached[p].index = [i \in 1..Files |-> idx[i].size]
=============================================================================
