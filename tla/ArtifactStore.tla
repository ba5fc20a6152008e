---------------------------- MODULE ArtifactStore ----------------------------
(***************************************************************************)
(* The content-addressed store of raw inputs and outputs                   *)
(* (src/dsm/artifacts.py, DarylAgent.store_artifact and its siblings).     *)
(* An artifact is two files named by the hash of its content: the data     *)
(* (.bin.gz) and its metadata (.meta.json).  store() leaves both alone     *)
(* when both exist, otherwise it writes the data and then the metadata;    *)
(* link_to_entry reads the metadata and writes it back.  Files are written *)
(* in place: opening empties them, and a crash leaves them torn.           *)
(***************************************************************************)
EXTENDS Integers, FiniteSets

CONSTANTS Storers,      \* processes that use one artifact directory
          Contents,     \* contents, named by their hashes
          LogEntries,   \* entries artifacts are linked to
          MaxStores,    \* bound: calls of store and link_to_entry
          MaxCrashes    \* bound: crashes of a process

VARIABLES
  bin,      \* bin[h]: "none", "torn" or "whole"
  meta,     \* meta[h]: [file |-> "none" | "torn" | "whole", links |-> set of entries]
  doing,    \* doing[p]: the call p is in the middle of
  kept,     \* contents whose store() has returned
  calls, falls

asVars == <<bin, meta, doing, kept, calls, falls>>

NoMeta == [file |-> "none", links |-> {}]
Free == [step |-> "free", hash |-> "", entry |-> "", links |-> {}]

-----------------------------------------------------------------------------

\* store() takes an artifact for stored when both its files exist,
Complete(h) == bin[h] # "none" /\ meta[h].file # "none"

\* and then reads the metadata, which raises when it is torn.
StoreKnown(p, h) ==
  /\ doing[p] = Free /\ calls < MaxStores
  /\ Complete(h)
  /\ calls' = calls + 1
  /\ kept' = IF meta[h].file = "torn" THEN kept ELSE kept \cup {h}
  /\ UNCHANGED <<bin, meta, doing, falls>>

Stage(p, step) == doing' = [doing EXCEPT ![p].step = step]

\* Otherwise the data file is opened and emptied, then written,
StoreBegin(p, h) ==
  /\ doing[p] = Free /\ calls < MaxStores
  /\ ~Complete(h)
  /\ calls' = calls + 1
  /\ bin' = [bin EXCEPT ![h] = "torn"]
  /\ doing' = [doing EXCEPT ![p] = [Free EXCEPT !.step = "bin", !.hash = h]]
  /\ UNCHANGED <<meta, kept, falls>>

StoreData(p) ==
  /\ doing[p].step = "bin"
  /\ bin' = [bin EXCEPT ![doing[p].hash] = "whole"]
  /\ Stage(p, "data")
  /\ UNCHANGED <<meta, kept, calls, falls>>

\* then the metadata file, with no links.
MetaOpen(p) ==
  /\ doing[p].step = "data"
  /\ meta' = [meta EXCEPT ![doing[p].hash] = [file |-> "torn", links |-> {}]]
  /\ Stage(p, "meta")
  /\ UNCHANGED <<bin, kept, calls, falls>>

MetaWrite(p) ==
  /\ doing[p].step = "meta"
  /\ meta' = [meta EXCEPT ![doing[p].hash] = [file |-> "whole", links |-> {}]]
  /\ kept' = kept \cup {doing[p].hash}
  /\ doing' = [doing EXCEPT ![p] = Free]
  /\ UNCHANGED <<bin, calls, falls>>

\* link_to_entry: nothing to do without metadata or when the link is there;
\* torn metadata raises.  Else the new list is written over the file.
LinkRead(p, h, e) ==
  /\ doing[p] = Free /\ calls < MaxStores
  /\ meta[h].file = "whole"
  /\ calls' = calls + 1
  /\ IF e \in meta[h].links
     THEN UNCHANGED <<doing, meta>>
     ELSE /\ doing' = [doing EXCEPT ![p] = [step |-> "link", hash |-> h, entry |-> e, links |-> meta[h].links]]
          /\ meta' = [meta EXCEPT ![h].file = "torn"]
  /\ UNCHANGED <<bin, kept, falls>>

LinkWrite(p) ==
  /\ doing[p].step = "link"
  /\ meta' = [meta EXCEPT ![doing[p].hash] =
                 [file |-> "whole", links |-> doing[p].links \cup {doing[p].entry}]]
  /\ doing' = [doing EXCEPT ![p] = Free]
  /\ UNCHANGED <<bin, kept, calls, falls>>

\* The process dies in the middle of a call; the files stay as they are.
Fall(p) ==
  /\ doing[p] # Free /\ falls < MaxCrashes
  /\ falls' = falls + 1
  /\ doing' = [doing EXCEPT ![p] = Free]
  /\ UNCHANGED <<bin, meta, kept, calls>>

-----------------------------------------------------------------------------
\* retrieve gives the content back when the data file can be unpacked.
Retrieve(h) == IF bin[h] = "whole" THEN {h} ELSE {}

\* verify_artifact.
VerifyArtifact(h) ==
  CASE bin[h] = "none" -> "MISSING" [] bin[h] = "torn" -> "CORRUPTED" [] OTHER -> "INTACT"

\* list_artifacts and stats skip metadata that cannot be read.
ListArtifacts == {h \in Contents : meta[h].file = "whole"}

AsInit ==
  /\ bin = [h \in Contents |-> "none"]
  /\ meta = [h \in Contents |-> NoMeta]
  /\ doing = [p \in Storers |-> Free]
  /\ kept = {} /\ calls = 0 /\ falls = 0

AsNext ==
  \E p \in Storers :
    \/ \E h \in Contents : StoreKnown(p, h) \/ StoreBegin(p, h) \/ \E e \in LogEntries : LinkRead(p, h, e)
    \/ StoreData(p) \/ MetaOpen(p) \/ MetaWrite(p) \/ LinkWrite(p)
    \/ Fall(p)

AsSpec == AsInit /\ [][AsNext]_asVars

-----------------------------------------------------------------------------
(* Types of the state.                                                     *)
AsTypeOK ==
  /\ bin \in [Contents -> {"none", "torn", "whole"}]
  /\ \A h \in Contents : meta[h].file \in {"none", "torn", "whole"} /\ meta[h].links \subseteq LogEntries
  /\ kept \subseteq Contents /\ ListArtifacts \subseteq Contents

(* What store() has returned as stored can be retrieved and verified, also *)
(* when an earlier call for the same content died between its two files:   *)
(* the data is written before the metadata, and only both together spare   *)
(* the next call from writing.                                             *)
StoredIsReadable == \A h \in kept : Retrieve(h) = {h} /\ VerifyArtifact(h) = "INTACT"
=============================================================================
