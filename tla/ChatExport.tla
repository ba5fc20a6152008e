----------------------------- MODULE ChatExport -----------------------------
(***************************************************************************)
(* The normalisation of an official ChatGPT export before it is imported   *)
(* (src/prl/chatgpt_normalize.py): a conversation is a tree of nodes that  *)
(* name their parents, of which the branch that ends in current_node is    *)
(* kept; the kept messages become the turns of the import (src/prl/        *)
(* ingest.py).                                                             *)
(*                                                                         *)
(* A node is its place in the mapping and names its parent's place, which  *)
(* need not exist and may come later; a node's id is its key in the file.  *)
(* Of a message the model keeps its time (0: none) and its kind: "text",   *)
(* "image" (a part that is not text), "blank" (rendered to nothing),       *)
(* "system" and "hidden".  "anchor" is a node without a message.           *)
(***************************************************************************)
EXTENDS Integers, Sequences, FiniteSets, SequencesExt

CONSTANTS ConvIds,    \* conversation ids in the file; 0: none is given
          NodeData,   \* what a node holds: <<kind, time>>
          MaxNodes,   \* bound: places a node or current_node may name
          MaxSize     \* bound: nodes, and two for each conversation

VARIABLE export       \* the conversations, in the order of the file

NoParent == 0

-----------------------------------------------------------------------------
\* The file is written conversation by conversation, node by node.
Size == FoldSeq(LAMBDA c, n : n + 2 + Len(c.nodes), 0, export)

AddConversation(id, current) ==
  /\ Size + 2 <= MaxSize
  /\ export' = Append(export, [id |-> id, current |-> current, nodes |-> <<>>])

AddNode(parent, data) ==
  /\ export # <<>> /\ Size + 1 <= MaxSize
  /\ export' = [export EXCEPT ![Len(export)].nodes =
       Append(@, [parent |-> parent, kind |-> data[1], time |-> data[2]])]

CxInit == export = <<>>
CxNext ==
  \/ \E id \in ConvIds, current \in 0..MaxNodes : AddConversation(id, current)
  \/ \E parent \in 0..MaxNodes, data \in NodeData : AddNode(parent, data)
CxSpec == CxInit /\ [][CxNext]_export

-----------------------------------------------------------------------------
Messages(nodes) == {n \in DOMAIN nodes : nodes[n].kind # "anchor"}

\* A stable sort by time, the messages without one last.
ByTime(nodes, places) ==
  LET late(n) == nodes[n].time = 0
      before(i, j) ==
        LET a == places[i]
            b == places[j]
        IN \/ ~late(a) /\ late(b)
           \/ late(a) = late(b) /\ nodes[a].time < nodes[b].time
           \/ late(a) = late(b) /\ nodes[a].time = nodes[b].time /\ i < j
      order == SortSeq([i \in DOMAIN places |-> i], before)
  IN [i \in DOMAIN places |-> places[order[i]]]

\* The walk up from current_node ends at a missing parent or at a node it has
\* seen; without a current node all messages are taken, in the order of time.
LinearPath(nodes, current) ==
  LET up[k \in 0..Len(nodes)] ==
        IF k = 0 THEN current
        ELSE IF up[k - 1] \in DOMAIN nodes THEN nodes[up[k - 1]].parent ELSE NoParent
      goesOn(k) == up[k] \in DOMAIN nodes /\ \A j \in 0..(k - 1) : up[j] # up[k]
      steps == {k \in 0..Len(nodes) : \A j \in 0..k : goesOn(j)}
  IN IF current \in DOMAIN nodes
     THEN Reverse([i \in 1..Cardinality(steps) |-> up[i - 1]])
     ELSE ByTime(nodes, SelectSeq([n \in DOMAIN nodes |-> n], LAMBDA n : n \in Messages(nodes)))

NoDrops == [system |-> 0, hidden |-> 0, branches |-> 0, blank |-> 0, images |-> 0]
AddDrops(a, b) == [r \in DOMAIN a |-> a[r] + b[r]]

\* _normalize_conversation: the places of the messages kept, and the report.
NormalizeConversation(c) ==
  LET path == LinearPath(c.nodes, c.current)
      on(kind) == Len(SelectSeq(path, LAMBDA n : c.nodes[n].kind = kind))
  IN [kept |-> SelectSeq(path, LAMBDA n : c.nodes[n].kind \in {"text", "image"}),
      drops |-> [system |-> on("system"), hidden |-> on("hidden"), blank |-> on("blank"),
                 images |-> on("image"),
                 branches |-> Cardinality(Messages(c.nodes) \ ToSet(path))]]

\* _iter_official: a conversation without an id is named by its place.
ConvId(i) == IF export[i].id = 0 THEN i ELSE export[i].id

\* normalize_official: one entry per id, so the last of an id is the one kept;
\* the report adds up over all of them.
NormalizeOfficial ==
  LET last(i) == \A j \in DOMAIN export : ConvId(j) = ConvId(i) => j <= i
  IN [out |-> {[conv |-> i, kept |-> NormalizeConversation(export[i]).kept] :
                 i \in {j \in DOMAIN export : last(j)}},
      report |-> FoldSeq(LAMBDA c, r : AddDrops(r, NormalizeConversation(c).drops), NoDrops, export)]

\* _sorted_turns of the import: the turns are put in the order of their times.
SortedTurns(c) == ByTime(c.nodes, NormalizeConversation(c).kept)

-----------------------------------------------------------------------------
CxTypeOK ==
  \A i \in DOMAIN export : \A n \in DOMAIN export[i].nodes :
    export[i].nodes[n].parent \in 0..MaxNodes

KeptCount(result) ==
  FoldSet(LAMBDA o, n : n + Len(o.kept), 0, result.out)
MessageCount == FoldSeq(LAMBDA c, n : n + Cardinality(Messages(c.nodes)), 0, export)
Dropped(r) == r.system + r.hidden + r.branches + r.blank
Accounted(result) == KeptCount(result) + Dropped(result.report) = MessageCount

(* P5, nothing is dropped silently: whatever the parents say (missing,     *)
(* loops, nodes before their parents), every message of an export whose    *)
(* conversations have ids of their own is kept or counted by its reason.   *)
(* What is kept of a branch comes ancestors first (P1), ends with the      *)
(* current node if that has text, and becomes turns without loss; the      *)
(* times alone may change the order (normalize_official, _sorted_turns).   *)
EveryMessageAccounted ==
  /\ (\A i, j \in DOMAIN export : ConvId(i) = ConvId(j) => i = j) => Accounted(NormalizeOfficial)
  /\ \A i \in DOMAIN export :
       LET c == export[i]
           path == LinearPath(c.nodes, c.current)
           kept == NormalizeConversation(c).kept
       IN /\ Cardinality(ToSet(SortedTurns(c))) = Len(kept)
          /\ (\A n \in DOMAIN kept : c.nodes[kept[n]].time = 0) => SortedTurns(c) = kept
          /\ c.current \in DOMAIN c.nodes =>
               /\ Last(path) = c.current
               /\ \A k \in 2..Len(path) : c.nodes[path[k]].parent = path[k - 1]

(* "P5 reporting: nothing dropped silently": of two conversations with one *)
(* id the first is lost.                                                   *)
NothingDroppedSilently == Accounted(NormalizeOfficial)
=============================================================================
