------------------------- MODULE StorageServicesProofs -------------------------
(***************************************************************************)
(* What the services around the shards promise, for every value of their   *)
(* constants: the security baseline (BaselineGuarded), the shard life      *)
(* cycle with its archives and the artifact store (ArchivesSound), anchors *)
(* and the regime detector (AnchoringSound), the index copies of agents    *)
(* and the session tracker's state file (parts of ReadsComplete).          *)
(***************************************************************************)
EXTENDS MCStorageServices, OrderLemmas

-----------------------------------------------------------------------------
(* The security layer.                                                     *)

\* What a process carries while it saves, writes or asks for a token.
Steps == {"", "rest", "save", "token", "write", "unlink", "audit"}
Errands == [step: Steps, data: [Critical -> Nat], fresh: BOOLEAN, then: Steps]

\* Clocks and counters are numbers, the time of a token included, and what a
\* process is about to save is a version for every critical file.
SecurityTypes ==
  /\ content \in [Critical -> Nat] /\ base \in [Critical -> Nat]
  /\ token \in {Security!NoToken} \cup Nat /\ now \in Nat /\ made \in Nat /\ granted \in Nat
  /\ at \in [Layers -> Errands]

\* A version on its way into integrity.json has been acknowledged already,
\* through the wait for a token and whatever other processes save meanwhile.
CarriedAcknowledged ==
  \A p \in Layers, f \in Critical : at[p].data[f] # 0 => <<f, at[p].data[f]>> \in backed

\* The inductive invariant of the security layer.
SecurityInv ==
  /\ SecurityTypes
  /\ Security!TokensSingleUse
  /\ Security!BaselineAcknowledged
  /\ CarriedAcknowledged

\* A process at rest carries nothing, a process sent on an errand what it was given.
LEMMA ErrandTypes ==
  /\ Security!Rest \in Errands /\ \A f \in Critical : Security!Rest.data[f] = 0
  /\ \A r \in Errands, s \in Steps, b \in BOOLEAN :
       /\ [r EXCEPT !.step = s] \in Errands /\ [r EXCEPT !.step = s].data = r.data
       /\ [r EXCEPT !.step = s, !.fresh = b] \in Errands
       /\ [r EXCEPT !.step = s, !.fresh = b].data = r.data
<1>1. Security!Rest \in Errands /\ \A f \in Critical : Security!Rest.data[f] = 0
  BY DEF Errands, Security!Rest, Steps
<1>2. ASSUME NEW r \in Errands, NEW s \in Steps, NEW b \in BOOLEAN
      PROVE  /\ [r EXCEPT !.step = s] \in Errands /\ [r EXCEPT !.step = s].data = r.data
             /\ [r EXCEPT !.step = s, !.fresh = b] \in Errands
             /\ [r EXCEPT !.step = s, !.fresh = b].data = r.data
  BY <1>2 DEF Errands
<1>3. QED
  BY <1>1, <1>2, Zenon

\* Nothing has been granted, recorded or started at the beginning.
LEMMA SecurityStarts == Security!SbInit => SecurityInv
<1>1. SUFFICES ASSUME Security!SbInit PROVE SecurityInv
  OBVIOUS
<1>2. SecurityTypes
  BY <1>1, ErrandTypes DEF SecurityTypes, Security!SbInit
<1>3. Security!TokensSingleUse
  BY <1>1 DEF Security!TokensSingleUse, Security!SbInit
<1>4. Security!BaselineAcknowledged
  BY <1>1 DEF Security!BaselineAcknowledged, Security!SbInit
<1>5. CarriedAcknowledged
  BY <1>1, ErrandTypes DEF CarriedAcknowledged, Security!SbInit
<1>6. QED
  BY <1>2, <1>3, <1>4, <1>5 DEF SecurityInv

\* A step that moves no process, token, record or counter keeps the invariant.
LEMMA SecurityIdle ==
    ASSUME SecurityInv, content' \in [Critical -> Nat], now' \in Nat,
           UNCHANGED <<base, token, made, granted, at, backed>>
    PROVE  SecurityInv'
BY DEF SecurityInv, SecurityTypes, Security!TokensSingleUse, Security!BaselineAcknowledged,
       CarriedAcknowledged

\* A process that rests, or goes on with what it carried or with what is
\* acknowledged, while the tokens and the records are left alone.
LEMMA SecurityMoves ==
    ASSUME SecurityInv, NEW p \in Layers, NEW r \in Errands,
           \A f \in Critical : r.data[f] # 0 => <<f, r.data[f]>> \in backed',
           backed \subseteq backed', at' = [at EXCEPT ![p] = r],
           base' \in [Critical -> Nat],
           \A f \in Critical : base'[f] # 0 => <<f, base'[f]>> \in backed',
           UNCHANGED <<content, now>>
    PROVE  /\ SecurityTypes /\ at' \in [Layers -> Errands]
           /\ CarriedAcknowledged' /\ Security!BaselineAcknowledged'
<1>1. at' \in [Layers -> Errands] /\ SecurityTypes
  BY DEF SecurityInv, SecurityTypes
<1>2. CarriedAcknowledged'
  <2>1. SUFFICES ASSUME NEW q \in Layers, NEW f \in Critical, at'[q].data[f] # 0
                 PROVE  <<f, at'[q].data[f]>> \in backed'
    BY DEF CarriedAcknowledged
  <2>2. CASE q = p
    BY <2>1, <2>2, <1>1 DEF SecurityTypes
  <2>3. CASE q # p
    <3>1. at'[q] = at[q]
      BY <2>3, <1>1 DEF SecurityTypes
    <3>2. QED
      BY <3>1, <2>1 DEF SecurityInv, CarriedAcknowledged
  <2>4. QED
    BY <2>2, <2>3
<1>3. Security!BaselineAcknowledged'
  BY DEF Security!BaselineAcknowledged
<1>4. QED
  BY <1>1, <1>2, <1>3

\* Every step of the security layer keeps its invariant.
LEMMA SecuritySteps ==
    ASSUME SecurityInv, Security!SbNext
    PROVE  SecurityInv'
<1> USE DEF Security!Do, Security!Log, Security!Ask
<1>t. SecurityTypes /\ Security!TokensSingleUse /\ Security!BaselineAcknowledged /\ CarriedAcknowledged
  BY DEF SecurityInv
<1>s. "rest" \in Steps /\ "save" \in Steps /\ "token" \in Steps /\ "write" \in Steps
      /\ "unlink" \in Steps /\ "audit" \in Steps
  BY DEF Steps
<1>1. ASSUME NEW f \in Critical,
             Security!EditFile(f) \/ Security!RemoveFile(f) \/ Security!GitMoves(f)
      PROVE  SecurityInv'
  <2>1. content' \in [Critical -> Nat] /\ now' \in Nat
        /\ UNCHANGED <<base, token, made, granted, at, backed>>
    BY <1>1, <1>t DEF Security!EditFile, Security!RemoveFile, Security!GitMoves, SecurityTypes
  <2>2. QED
    BY <2>1, SecurityIdle
<1>2. CASE Security!MakeToken
  <2>1. SecurityTypes' /\ Security!TokensSingleUse'
    BY <1>2, <1>t DEF Security!MakeToken, SecurityTypes, Security!TokensSingleUse, Security!NoToken
  <2>2. CarriedAcknowledged' /\ Security!BaselineAcknowledged'
    BY <1>2, <1>t DEF Security!MakeToken, CarriedAcknowledged, Security!BaselineAcknowledged
  <2>3. QED
    BY <2>1, <2>2 DEF SecurityInv
<1>3. CASE Security!Elapse
  <2>1. now' \in Nat /\ content' \in [Critical -> Nat]
        /\ UNCHANGED <<base, token, made, granted, at, backed>>
    BY <1>3, <1>t DEF Security!Elapse, SecurityTypes
  <2>2. QED
    BY <2>1, SecurityIdle
<1>4. ASSUME NEW p \in Layers, Security!VerifyLoad(p)
      PROVE  SecurityInv'
  <2> DEFINE found == [f \in Critical |-> IF base[f] = 0 THEN content[f] ELSE base[f]]
             s == IF Security!Protected THEN "token" ELSE "save"
             r == [Security!Rest EXCEPT !.step = s, !.data = found, !.then = "save"]
  <2>1. s \in Steps /\ found \in [Critical -> Nat]
    BY <1>t DEF SecurityTypes, Steps
  <2> HIDE DEF found, s
  <2>2. r \in Errands /\ r.data = found
    BY <2>1, <1>s DEF Errands, Security!Rest, Steps
  <2>3. /\ at' = [at EXCEPT ![p] = r] /\ UNCHANGED <<content, base, token, now, made, granted>>
        /\ backed' = backed \cup {<<f, content[f]>> : f \in {g \in Critical : base[g] = 0 /\ content[g] # 0}}
    BY <1>4, Zenon DEF Security!VerifyLoad, found, s
  <2> HIDE DEF r
  <2>4. \A f \in Critical : r.data[f] # 0 => <<f, r.data[f]>> \in backed'
    BY <2>2, <2>3, <1>t DEF Security!BaselineAcknowledged, found
  <2>5. QED
    BY <2>2, <2>3, <2>4, <1>t, SecurityMoves DEF SecurityInv, SecurityTypes, Security!TokensSingleUse, Security!BaselineAcknowledged
<1>5. ASSUME NEW p \in Layers, Security!SaveIntegrity(p)
      PROVE  SecurityInv'
  <2>1. at' = [at EXCEPT ![p] = Security!Rest] /\ base' = at[p].data
        /\ UNCHANGED <<content, token, now, made, granted, backed>>
    BY <1>5, Zenon DEF Security!SaveIntegrity
  <2>2. at[p].data \in [Critical -> Nat]
    BY <1>t, <1>5 DEF SecurityTypes, Errands
  <2>3. /\ Security!Rest \in Errands
        /\ \A f \in Critical : Security!Rest.data[f] # 0 => <<f, Security!Rest.data[f]>> \in backed'
    BY ErrandTypes
  <2>4. \A f \in Critical : base'[f] # 0 => <<f, base'[f]>> \in backed'
    BY <2>1, <1>5, <1>t DEF CarriedAcknowledged
  <2>5. at' \in [Layers -> Errands] /\ CarriedAcknowledged' /\ Security!BaselineAcknowledged'
    BY <2>1, <2>2, <2>3, <2>4, <1>5, SecurityMoves
  <2>6. QED
    BY <2>1, <2>2, <2>5, <1>t DEF SecurityInv, SecurityTypes, Security!TokensSingleUse
<1>6. ASSUME NEW p \in Layers, Security!WriteBegin(p)
      PROVE  SecurityInv'
  <2> DEFINE s == IF Security!Protected THEN "token" ELSE "write"
             r == [Security!Rest EXCEPT !.step = s, !.then = "write"]
  <2>1. s \in Steps
    BY DEF Steps
  <2> HIDE DEF s
  <2>2. r \in Errands /\ r.data = Security!Rest.data
    BY <2>1, <1>s DEF Errands, Security!Rest, Steps
  <2>3. at' = [at EXCEPT ![p] = r] /\ UNCHANGED <<content, base, token, now, made, granted, backed>>
    BY <1>6, Zenon DEF Security!WriteBegin, s
  <2> HIDE DEF r
  <2>4. \A f \in Critical : r.data[f] # 0 => <<f, r.data[f]>> \in backed'
    BY <2>2, ErrandTypes
  <2>5. QED
    BY <2>2, <2>3, <2>4, <1>6, <1>t, SecurityMoves DEF SecurityInv, SecurityTypes, Security!TokensSingleUse, Security!BaselineAcknowledged
<1>7. ASSUME NEW p \in Layers, Security!TokenLook(p)
      PROVE  SecurityInv'
  <2>1. at[p] \in Errands /\ (now - token < TokenLife) \in BOOLEAN
    BY <1>t, <1>7 DEF SecurityTypes
  <2> DEFINE b == now - token < TokenLife
             r == IF token = Security!NoToken THEN Security!Rest
                  ELSE [at[p] EXCEPT !.step = "unlink", !.fresh = b]
  <2>2. /\ at' = [at EXCEPT ![p] = r]
        /\ UNCHANGED <<content, base, token, now, made, granted, backed>>
    BY <1>7, Zenon DEF Security!TokenLook, Security!Refuse
  <2> HIDE DEF b
  <2>3. r \in Errands /\ (r.data = Security!Rest.data \/ r.data = at[p].data)
    BY <2>1, <1>s, ErrandTypes, ZenonT(40) DEF b
  <2> HIDE DEF r
  <2>4. \A f \in Critical : r.data[f] # 0 => <<f, r.data[f]>> \in backed'
    BY <2>2, <2>3, ErrandTypes, <1>t, <1>7 DEF CarriedAcknowledged
  <2>5. QED
    BY <2>2, <2>3, <2>4, <1>7, <1>t, SecurityMoves DEF SecurityInv, SecurityTypes, Security!TokensSingleUse, Security!BaselineAcknowledged
<1>8. ASSUME NEW p \in Layers, Security!TokenUse(p)
      PROVE  SecurityInv'
  <2>1. at[p] \in Errands /\ at[p].then \in Steps
    BY <1>t, <1>8 DEF SecurityTypes, Errands
  <2> DEFINE r == IF Security!TokenGone(p) \/ ~at[p].fresh THEN Security!Rest
                  ELSE [at[p] EXCEPT !.step = at[p].then]
  <2>2. /\ at' = [at EXCEPT ![p] = r] /\ token' = Security!NoToken
        /\ UNCHANGED <<content, base, now, made, backed>>
    BY <1>8, Zenon DEF Security!TokenUse
  <2>3. r \in Errands /\ (r.data = Security!Rest.data \/ r.data = at[p].data)
    BY <2>1, <1>s, ErrandTypes, Zenon
  <2> HIDE DEF r
  <2>4. \A f \in Critical : r.data[f] # 0 => <<f, r.data[f]>> \in backed'
    BY <2>2, <2>3, ErrandTypes, <1>t, <1>8, ZenonT(40) DEF CarriedAcknowledged
  <2>5. granted' = granted \/ (token # Security!NoToken /\ granted' = granted + 1)
    BY <1>8 DEF Security!TokenUse, Security!TokenGone
  <2>6. Security!TokensSingleUse' /\ granted' \in Nat
    BY <2>2, <2>5, <1>t DEF Security!TokensSingleUse, SecurityTypes
  <2>7. /\ at' \in [Layers -> Errands] /\ CarriedAcknowledged' /\ Security!BaselineAcknowledged'
    BY <2>2, <2>3, <2>4, <1>8, <1>t, SecurityMoves DEF SecurityInv, SecurityTypes, Security!BaselineAcknowledged
  <2>8. QED
    BY <2>2, <2>6, <2>7, <1>t DEF SecurityInv, SecurityTypes
<1>9. ASSUME NEW p \in Layers, Security!WriteEnd(p)
      PROVE  SecurityInv'
  <2>1. at' = [at EXCEPT ![p] = Security!Rest]
        /\ UNCHANGED <<content, base, token, now, made, granted, backed>>
    BY <1>9, Zenon DEF Security!WriteEnd
  <2>2. QED
    BY <2>1, <1>9, <1>t, ErrandTypes, SecurityMoves DEF SecurityInv, SecurityTypes, Security!TokensSingleUse, Security!BaselineAcknowledged
<1>10. ASSUME NEW p \in Layers, NEW reason \in BOOLEAN, NEW force \in BOOLEAN,
              NEW ack \in {"none", "once", "twice"},
              Security!CmdUpdateBaseline(p, reason, ack, force)
       PROVE  SecurityInv'
  <2>0. UNCHANGED <<content, base, token, now, made, granted>>
    BY <1>10, Zenon DEF Security!CmdUpdateBaseline
  <2> DEFINE new == Security!UpdatedBaseline
             r == [Security!Rest EXCEPT !.step = "save", !.data = new, !.then = "audit"]
             ok == (reason /\ ack # "none") /\ Security!Allowed(reason, ack, force)
  <2>1. CASE ~ok
    <3>1. UNCHANGED <<at, backed>>
      BY <1>10, <2>1, Zenon DEF Security!CmdUpdateBaseline
    <3>2. QED
      BY <2>0, <3>1, <1>t, SecurityIdle DEF SecurityTypes
  <2>2. CASE ok
    <3>1. ack = "twice"
      BY <2>2 DEF Security!Allowed, Security!GateOpen
    <3>2. /\ at' = [at EXCEPT ![p] = r]
          /\ backed' = backed \cup {<<f, new[f]>> : f \in Critical}
      BY <1>10, <2>2, <3>1, Zenon DEF Security!CmdUpdateBaseline
    <3>3. new \in [Critical -> Nat]
      BY <1>t DEF SecurityTypes, Security!UpdatedBaseline
    <3> HIDE DEF new
    <3>4. r \in Errands /\ r.data = new
      BY <3>3, <1>s DEF Errands, Security!Rest, Steps
    <3> HIDE DEF r
    <3>5. \A f \in Critical : r.data[f] # 0 => <<f, r.data[f]>> \in backed'
      BY <3>2, <3>4
    <3>6. QED
      BY <2>0, <3>2, <3>4, <3>5, <1>10, <1>t, SecurityMoves DEF SecurityInv, SecurityTypes, Security!TokensSingleUse, Security!BaselineAcknowledged
  <2>3. QED
    BY <2>1, <2>2
<1>11. ASSUME NEW p \in Layers,
              Security!AuditAction(p) \/ Security!SecureApiCall(p) \/ Security!ResetCycle(p)
       PROVE  SecurityInv'
  <2>1. UNCHANGED <<content, now, base, token, made, granted, at, backed>>
    BY <1>11, Zenon DEF Security!AuditAction, Security!SecureApiCall, Security!ResetCycle
  <2>2. QED
    BY <2>1, <1>t, SecurityIdle DEF SecurityTypes
<1>12. QED
  BY <1>1, <1>2, <1>3, <1>4, <1>5, <1>6, <1>7, <1>8, <1>9, <1>10, <1>11, Zenon DEF Security!SbNext

\* The security layer does not notice the steps of the other services.
LEMMA SecurityAlone ==
    ASSUME SecurityInv, UNCHANGED securityVars
    PROVE  SecurityInv'
BY SecurityIdle DEF securityVars, SecurityInv, SecurityTypes

\* core/security.py: an override of the write protection uses up a token of
\* its own, and the baseline of a critical file is a version first seen or
\* acknowledged twice, for any number of processes, files, tokens and calls.
THEOREM BaselineIsGuarded == Spec => []BaselineGuarded
<1>1. Init => SecurityInv
  BY SecurityStarts DEF Init
<1>2. ASSUME SecurityInv, [Next]_<<part, anchorVars, codecVars, lifeVars, relayVars, traceVars,
                     securityVars, artifactsVars, coverageVars, trackerVars, copyVars>>
      PROVE  SecurityInv'
  <2>1. CASE UNCHANGED securityVars
    BY <1>2, <2>1, SecurityAlone
  <2>2. CASE Security!SbNext
    BY <1>2, <2>2, SecuritySteps
  <2>3. QED
    BY <1>2, <2>1, <2>2, Zenon DEF Next
<1>3. SecurityInv => BaselineGuarded
  BY DEF SecurityInv, BaselineGuarded
<1>4. QED
  BY <1>1, <1>2, <1>3, PTL DEF Spec

-----------------------------------------------------------------------------
(* The artifact store.                                                     *)

\* What the storing process is in the middle of.
Stores == [step: {"free", "bin", "data", "meta", "link"}, hash: Contents \cup {""},
           entry: LogEntries \cup {""}, links: SUBSET LogEntries]
Metas == [file: {"none", "torn", "whole"}, links: SUBSET LogEntries]

\* Files and calls have their types; a call past opening names a content.
ArtifactTypes ==
  /\ bin \in [Contents -> {"none", "torn", "whole"}]
  /\ meta \in [Contents -> Metas]
  /\ doing \in [Storers -> Stores]
  /\ kept \subseteq Contents
  /\ \A p \in Storers : doing[p].step # "free" => doing[p].hash \in Contents
  /\ \A p \in Storers : doing[p].step = "link" => doing[p].entry \in LogEntries

\* The data file is whole before the metadata file comes to be, and stays so.
DataBeforeMeta ==
  /\ \A h \in Contents : meta[h].file # "none" => bin[h] = "whole"
  /\ \A p \in Storers : doing[p].step \in {"data", "meta"} => bin[doing[p].hash] = "whole"
  /\ \A p \in Storers : doing[p].step = "link" => meta[doing[p].hash].file # "none"
  /\ \A h \in kept : meta[h].file # "none"

\* The inductive invariant of the artifact store.
ArtifactInv == ArtifactTypes /\ DataBeforeMeta

\* An empty directory.
LEMMA ArtifactStarts == Artifacts!AsInit => ArtifactInv
<1>1. /\ Artifacts!Free \in Stores /\ Artifacts!Free.step = "free"
      /\ Artifacts!NoMeta \in Metas /\ Artifacts!NoMeta.file = "none"
  BY DEF Artifacts!NoMeta, Artifacts!Free, Stores, Metas
<1>2. QED
  BY <1>1 DEF Artifacts!AsInit, ArtifactInv, ArtifactTypes, DataBeforeMeta

\* What store() has returned is whole.
LEMMA ArtifactReadable == ArtifactInv => Artifacts!StoredIsReadable
BY DEF ArtifactInv, ArtifactTypes, DataBeforeMeta, Artifacts!StoredIsReadable,
       Artifacts!Retrieve, Artifacts!VerifyArtifact

\* The artifact store does not notice the steps of the other services.
LEMMA ArtifactAlone ==
    ASSUME ArtifactInv, UNCHANGED artifactsVars
    PROVE  ArtifactInv'
BY DEF artifactsVars, ArtifactInv, ArtifactTypes, DataBeforeMeta

\* Every step of the artifact store keeps its invariant, with one process
\* that stores and may die in the middle of any call.
LEMMA ArtifactSteps ==
    ASSUME ArtifactInv, Artifacts!AsNext
    PROVE  ArtifactInv'
<1>t. ArtifactTypes /\ DataBeforeMeta
  BY DEF ArtifactInv
<1>f. Artifacts!Free \in Stores /\ Artifacts!Free.step = "free"
  BY DEF Stores, Artifacts!Free
<1>1. ASSUME NEW p \in Storers, NEW h \in Contents, Artifacts!StoreKnown(p, h)
      PROVE  ArtifactInv'
  <2>1. UNCHANGED <<bin, meta, doing>> /\ kept' \subseteq kept \cup {h} /\ meta[h].file # "none"
    BY <1>1 DEF Artifacts!StoreKnown, Artifacts!Complete
  <2>2. QED
    BY <2>1, <1>t DEF ArtifactInv, ArtifactTypes, DataBeforeMeta
<1>2. ASSUME NEW p \in Storers, NEW h \in Contents, Artifacts!StoreBegin(p, h)
      PROVE  ArtifactInv'
  <2> DEFINE r == [Artifacts!Free EXCEPT !.step = "bin", !.hash = h]
  <2>1. r \in Stores /\ r.step = "bin" /\ r.hash = h
    BY DEF Stores, Artifacts!Free
  <2>2. /\ bin' = [bin EXCEPT ![h] = "torn"] /\ doing' = [doing EXCEPT ![p] = r]
        /\ UNCHANGED <<meta, kept>> /\ doing[p] = Artifacts!Free
        /\ ~(bin[h] # "none" /\ meta[h].file # "none")
    BY <1>2 DEF Artifacts!StoreBegin, Artifacts!Complete
  <2> HIDE DEF r
  <2>3. meta[h].file = "none"
    BY <2>2, <1>t DEF DataBeforeMeta
  <2>4. \A q \in Storers : doing'[q] = r
    BY <2>2, OneStorer, <1>t DEF ArtifactTypes
  <2>5. ArtifactTypes'
    BY <2>1, <2>2, <2>4, <1>t DEF ArtifactTypes
  <2>6. DataBeforeMeta'
    BY <2>1, <2>2, <2>3, <2>4, <1>t DEF ArtifactTypes, DataBeforeMeta
  <2>7. QED
    BY <2>5, <2>6 DEF ArtifactInv
<1>3. ASSUME NEW p \in Storers, NEW h \in Contents, NEW e \in LogEntries, Artifacts!LinkRead(p, h, e)
      PROVE  ArtifactInv'
  <2>1. CASE e \in meta[h].links
    <3>1. UNCHANGED <<bin, meta, doing, kept>>
      BY <1>3, <2>1 DEF Artifacts!LinkRead
    <3>2. QED
      BY <3>1, <1>t DEF ArtifactInv, ArtifactTypes, DataBeforeMeta
  <2>2. CASE e \notin meta[h].links
    <3> DEFINE r == [step |-> "link", hash |-> h, entry |-> e, links |-> meta[h].links]
               m == [meta[h] EXCEPT !.file = "torn"]
    <3>1. /\ doing' = [doing EXCEPT ![p] = r] /\ meta' = [meta EXCEPT ![h].file = "torn"]
          /\ UNCHANGED <<bin, kept>> /\ meta[h].file = "whole"
      BY <1>3, <2>2 DEF Artifacts!LinkRead
    <3>2. r \in Stores /\ r.step = "link" /\ r.hash = h /\ r.entry = e
      BY <1>3, <1>t DEF Stores, ArtifactTypes, Metas
    <3>3. m \in Metas /\ m.file = "torn"
      BY <1>3, <1>t DEF ArtifactTypes, Metas
    <3>4. meta' = [meta EXCEPT ![h] = m]
      BY <3>1
    <3> HIDE DEF r, m
    <3>5. ArtifactTypes'
      BY <3>1, <3>2, <3>3, <3>4, <1>3, <1>t DEF ArtifactTypes
    <3>6. DataBeforeMeta'
      BY <3>1, <3>2, <3>3, <3>4, <1>3, <1>t DEF ArtifactTypes, DataBeforeMeta
    <3>7. QED
      BY <3>5, <3>6 DEF ArtifactInv
  <2>3. QED
    BY <2>1, <2>2
<1>4. ASSUME NEW p \in Storers, Artifacts!StoreData(p)
      PROVE  ArtifactInv'
  <2> DEFINE r == [doing[p] EXCEPT !.step = "data"]
             h == doing[p].hash
  <2>1. /\ bin' = [bin EXCEPT ![h] = "whole"] /\ doing' = [doing EXCEPT ![p] = r]
        /\ UNCHANGED <<meta, kept>> /\ doing[p].step = "bin"
    BY <1>4 DEF Artifacts!StoreData, Artifacts!Stage
  <2>2. r \in Stores /\ r.step = "data" /\ r.hash = h /\ h \in Contents
    BY <2>1, <1>4, <1>t DEF ArtifactTypes, Stores
  <2> HIDE DEF r, h
  <2>3. ArtifactTypes'
    BY <2>1, <2>2, <1>t DEF ArtifactTypes
  <2>4. DataBeforeMeta'
    BY <2>1, <2>2, <1>t DEF ArtifactTypes, DataBeforeMeta
  <2>5. QED
    BY <2>3, <2>4 DEF ArtifactInv
<1>5. ASSUME NEW p \in Storers, Artifacts!MetaOpen(p)
      PROVE  ArtifactInv'
  <2> DEFINE r == [doing[p] EXCEPT !.step = "meta"]
             h == doing[p].hash
             m == [file |-> "torn", links |-> {}]
  <2>1. /\ meta' = [meta EXCEPT ![h] = m] /\ doing' = [doing EXCEPT ![p] = r]
        /\ UNCHANGED <<bin, kept>> /\ doing[p].step = "data"
    BY <1>5 DEF Artifacts!MetaOpen, Artifacts!Stage
  <2>2. r \in Stores /\ r.step = "meta" /\ r.hash = h /\ h \in Contents /\ bin[h] = "whole"
    BY <2>1, <1>5, <1>t DEF ArtifactTypes, Stores, DataBeforeMeta
  <2>3. m \in Metas /\ m.file = "torn"
    BY DEF Metas
  <2> HIDE DEF r, h, m
  <2>4. ArtifactTypes'
    BY <2>1, <2>2, <2>3, <1>t DEF ArtifactTypes
  <2>5. DataBeforeMeta'
    BY <2>1, <2>2, <2>3, <1>t DEF ArtifactTypes, DataBeforeMeta
  <2>6. QED
    BY <2>4, <2>5 DEF ArtifactInv
<1>6. ASSUME NEW p \in Storers, Artifacts!MetaWrite(p)
      PROVE  ArtifactInv'
  <2> DEFINE h == doing[p].hash
             m == [file |-> "whole", links |-> {}]
  <2>1. /\ meta' = [meta EXCEPT ![h] = m] /\ doing' = [doing EXCEPT ![p] = Artifacts!Free]
        /\ kept' = kept \cup {h} /\ UNCHANGED bin /\ doing[p].step = "meta"
    BY <1>6 DEF Artifacts!MetaWrite
  <2>2. h \in Contents /\ bin[h] = "whole"
    BY <2>1, <1>6, <1>t DEF ArtifactTypes, DataBeforeMeta
  <2>3. m \in Metas /\ m.file = "whole"
    BY DEF Metas
  <2> HIDE DEF h, m
  <2>4. ArtifactTypes'
    BY <2>1, <2>2, <2>3, <1>f, <1>t DEF ArtifactTypes
  <2>5. DataBeforeMeta'
    BY <2>1, <2>2, <2>3, <1>f, <1>t DEF ArtifactTypes, DataBeforeMeta
  <2>6. QED
    BY <2>4, <2>5 DEF ArtifactInv
<1>7. ASSUME NEW p \in Storers, Artifacts!LinkWrite(p)
      PROVE  ArtifactInv'
  <2> DEFINE h == doing[p].hash
             m == [file |-> "whole", links |-> doing[p].links \cup {doing[p].entry}]
  <2>1. /\ meta' = [meta EXCEPT ![h] = m] /\ doing' = [doing EXCEPT ![p] = Artifacts!Free]
        /\ UNCHANGED <<bin, kept>> /\ doing[p].step = "link"
    BY <1>7 DEF Artifacts!LinkWrite
  <2>2. h \in Contents /\ bin[h] = "whole"
    BY <2>1, <1>7, <1>t DEF ArtifactTypes, DataBeforeMeta
  <2>3. m \in Metas /\ m.file = "whole"
    BY <2>1, <1>7, <1>t DEF Metas, ArtifactTypes, Stores
  <2> HIDE DEF h, m
  <2>4. ArtifactTypes'
    BY <2>1, <2>2, <2>3, <1>f, <1>t DEF ArtifactTypes
  <2>5. DataBeforeMeta'
    BY <2>1, <2>2, <2>3, <1>f, <1>t DEF ArtifactTypes, DataBeforeMeta
  <2>6. QED
    BY <2>4, <2>5 DEF ArtifactInv
<1>8. ASSUME NEW p \in Storers, Artifacts!Fall(p)
      PROVE  ArtifactInv'
  <2>1. doing' = [doing EXCEPT ![p] = Artifacts!Free] /\ UNCHANGED <<bin, meta, kept>>
    BY <1>8 DEF Artifacts!Fall
  <2>2. QED
    BY <2>1, <1>f, <1>t DEF ArtifactInv, ArtifactTypes, DataBeforeMeta
<1>9. QED
  BY <1>1, <1>2, <1>3, <1>4, <1>5, <1>6, <1>7, <1>8 DEF Artifacts!AsNext

-----------------------------------------------------------------------------
(* The life cycle of a shard: the registry of its transitions.             *)

Transitions == [from: Life!States, to: Life!States, final: Seq(Nat)]

\* What a manager remembers of the shard is what the registry says, and a
\* manager between the two writes of seal() has recorded the drain.
RegistryInv ==
  /\ registry \in Seq(Transitions)
  /\ Life!LegalRegistry
  /\ cache \in [Managers -> Life!States \cup {Life!Unknown}]
  /\ \A m \in Managers : cache[m] \in {Life!Unknown, Life!Recorded}
  /\ sealing \subseteq Managers
  /\ \A m \in sealing : cache[m] = "draining"

\* The registry always says one of the four states.
LEMMA RecordedIsState ==
    ASSUME registry \in Seq(Transitions)
    PROVE  Life!Recorded \in Life!States
<1>1. CASE registry = <<>>
  BY <1>1 DEF Life!Recorded, Life!States
<1>2. CASE registry # <<>>
  <2>1. registry[Len(registry)] \in Transitions
    BY <1>2
  <2>2. registry[Len(registry)].to \in Life!States
    BY <2>1 DEF Transitions
  <2>3. QED
    BY <1>2, <2>2 DEF Life!Recorded, Life!Last
<1>3. QED
  BY <1>1, <1>2

\* A transition that starts where the registry ends makes it one longer.
LEMMA Recording ==
    ASSUME RegistryInv, NEW m \in Managers, NEW to \in Life!States, NEW final \in Seq(Nat),
           Life!Recorded # "archived",
           Life!WriteTransition(m, Life!Recorded, to, final)
    PROVE  /\ registry' \in Seq(Transitions) /\ Life!LegalRegistry' /\ Life!Recorded' = to
           /\ cache' \in [Managers -> Life!States \cup {Life!Unknown}]
           /\ \A n \in Managers : cache'[n] = to
<1> DEFINE r == [from |-> Life!Recorded, to |-> to, final |-> final]
<1>1. registry \in Seq(Transitions) /\ Life!LegalRegistry
      /\ cache \in [Managers -> Life!States \cup {Life!Unknown}]
  BY DEF RegistryInv
<1>2. /\ registry' = Append(registry, r) /\ cache' = [cache EXCEPT ![m] = to]
  BY DEF Life!WriteTransition
<1>3. Life!Recorded \in Life!States
  BY <1>1, RecordedIsState
<1>4. r \in Transitions /\ r.to = to /\ r.from = Life!Recorded
  BY <1>3 DEF Transitions
<1>5. Life!Recorded = IF Len(registry) = 0 THEN "active" ELSE registry[Len(registry)].to
  BY <1>1 DEF Life!Recorded, Life!Last
<1> HIDE DEF r
<1>6. /\ registry' \in Seq(Transitions) /\ Len(registry') = Len(registry) + 1 /\ registry' # <<>>
      /\ \A i \in 1..Len(registry) : registry'[i] = registry[i]
      /\ registry'[Len(registry) + 1] = r /\ Len(registry) \in Nat
  BY <1>1, <1>2, <1>4
<1>7. Life!Recorded' = to
  BY <1>4, <1>6 DEF Life!Recorded, Life!Last
<1>8. Life!LegalRegistry'
  <2>1. SUFFICES ASSUME NEW i \in 1..Len(registry')
                 PROVE  /\ registry'[i].from = IF i = 1 THEN "active" ELSE registry'[i - 1].to
                        /\ registry'[i].from # "archived"
    BY DEF Life!LegalRegistry
  <2>2. CASE i \in 1..Len(registry)
    <3>1. registry'[i] = registry[i] /\ (i # 1 => registry'[i - 1] = registry[i - 1])
      BY <1>6, <2>2
    <3>2. QED
      BY <3>1, <1>1, <2>2 DEF Life!LegalRegistry
  <2>3. CASE i = Len(registry) + 1
    <3>1. registry'[i] = r /\ (i # 1 => registry'[i - 1] = registry[Len(registry)])
      BY <1>6, <2>3
    <3>2. QED
      BY <3>1, <1>4, <1>5, <2>3
  <2>4. QED
    BY <2>1, <2>2, <2>3, <1>6
<1>9. \A n \in Managers : cache'[n] = to
  BY <1>1, <1>2, OneManager
<1>10. QED
  BY <1>6, <1>7, <1>8, <1>9, <1>1, <1>2

\* Nothing is recorded at the beginning.
LEMMA RegistryStarts == Life!LcInit => RegistryInv
BY DEF Life!LcInit, RegistryInv, Life!LegalRegistry, Life!Recorded

\* The registry stays one legal path, also when the one manager dies between
\* the drain and the seal of seal() and starts again from the file.
LEMMA RegistrySteps ==
    ASSUME RegistryInv, Life!LcNext, Life!TipOf(shard) \in Seq(Nat)
    PROVE  RegistryInv'
<1>t. /\ registry \in Seq(Transitions) /\ Life!LegalRegistry
      /\ cache \in [Managers -> Life!States \cup {Life!Unknown}]
      /\ \A m \in Managers : cache[m] \in {Life!Unknown, Life!Recorded}
      /\ sealing \subseteq Managers /\ \A m \in sealing : cache[m] = "draining"
  BY DEF RegistryInv
<1>h. Life!NoHash \in Seq(Nat)
  BY DEF Life!NoHash
<1>s. /\ {"active", "draining", "sealed", "archived"} = Life!States
      /\ Life!Unknown \notin Life!States
      /\ \A m \in Managers : Life!State(m) = Life!Recorded
  BY <1>t DEF Life!States, Life!Unknown, Life!State
<1>r. Life!Recorded \in Life!States
  BY <1>t, RecordedIsState
<1>w. ASSUME NEW m \in Managers, NEW to \in Life!States, NEW final \in Seq(Nat),
             Life!Recorded # "archived", Life!WriteTransition(m, Life!Recorded, to, final),
             sealing' \subseteq Managers, sealing' # {} => to = "draining"
      PROVE  RegistryInv'
  <2>1. /\ registry' \in Seq(Transitions) /\ Life!LegalRegistry' /\ Life!Recorded' = to
        /\ cache' \in [Managers -> Life!States \cup {Life!Unknown}]
        /\ \A n \in Managers : cache'[n] = to
    BY <1>w, Recording
  <2>2. QED
    BY <2>1, <1>w DEF RegistryInv
<1>q. ASSUME UNCHANGED registry, NEW m \in Managers, cache' = [cache EXCEPT ![m] = Life!Recorded],
             sealing' \subseteq sealing \cup {m}, m \in sealing' => Life!Recorded = "draining"
      PROVE  RegistryInv'
  <2>1. Life!Recorded' = Life!Recorded /\ Life!LegalRegistry'
    BY <1>q, <1>t DEF Life!Recorded, Life!LegalRegistry
  <2>2. QED
    BY <2>1, <1>q, <1>t, <1>r DEF RegistryInv
<1>1. ASSUME NEW m \in Managers, Life!Drain(m)
      PROVE  RegistryInv'
  <2>1. m \notin sealing /\ UNCHANGED sealing /\ sealing = {}
    BY <1>1, <1>t, OneManager DEF Life!Drain
  <2>2. CASE Life!Recorded = "active"
    <3>1. Life!WriteTransition(m, Life!Recorded, "draining", Life!NoHash)
      BY <1>1, <2>2, <1>s DEF Life!Drain
    <3>2. QED
      BY <3>1, <2>1, <2>2, <1>w, <1>s, <1>h
  <2>3. CASE Life!Recorded # "active"
    <3>1. UNCHANGED registry /\ cache' = [cache EXCEPT ![m] = Life!Recorded]
      BY <1>1, <2>3, <1>s DEF Life!Drain, Life!Refused
    <3>2. QED
      BY <3>1, <2>1, <1>q
  <2>4. QED
    BY <2>2, <2>3
<1>2. ASSUME NEW m \in Managers, Life!SealBegin(m)
      PROVE  RegistryInv'
  <2>1. CASE Life!Recorded = "active"
    <3>1. /\ Life!WriteTransition(m, Life!Recorded, "draining", Life!NoHash)
          /\ sealing' = sealing \cup {m}
      BY <1>2, <2>1, <1>s DEF Life!SealBegin
    <3>2. QED
      BY <3>1, <2>1, <1>w, <1>s, <1>h, <1>t, <1>2
  <2>2. CASE Life!Recorded = "draining"
    <3>1. /\ UNCHANGED registry /\ cache' = [cache EXCEPT ![m] = Life!Recorded]
          /\ sealing' = sealing \cup {m}
      BY <1>2, <2>2, <1>s DEF Life!SealBegin, Life!Refused
    <3>2. QED
      BY <3>1, <2>2, <1>q
  <2>3. CASE Life!Recorded \in {"sealed", "archived"}
    <3>1. /\ UNCHANGED <<registry, sealing>> /\ cache' = [cache EXCEPT ![m] = Life!Recorded]
          /\ m \notin sealing
      BY <1>2, <2>3, <1>s DEF Life!SealBegin, Life!Refused
    <3>2. QED
      BY <3>1, <1>q
  <2>4. QED
    BY <2>1, <2>2, <2>3, <1>r DEF Life!States
<1>3. ASSUME NEW m \in Managers, Life!SealEnd(m)
      PROVE  RegistryInv'
  <2>1. m \in sealing /\ sealing' = sealing \ {m}
        /\ Life!WriteTransition(m, "draining", "sealed", Life!TipOf(shard))
    BY <1>3 DEF Life!SealEnd
  <2>2. Life!Recorded = "draining" /\ sealing' = {}
    BY <2>1, <1>3, <1>t, OneManager DEF Life!Unknown
  <2>3. QED
    BY <2>1, <2>2, <1>w, <1>s, <1>3
<1>4. ASSUME NEW m \in Managers, Life!Archive(m)
      PROVE  RegistryInv'
  <2>1. m \notin sealing /\ UNCHANGED sealing /\ sealing = {}
    BY <1>4, <1>t, OneManager DEF Life!Archive
  <2>2. CASE Life!Recorded = "sealed"
    <3>1. Life!WriteTransition(m, Life!Recorded, "archived", Life!TipOf(shard))
      BY <1>4, <2>2, <1>s DEF Life!Archive
    <3>2. QED
      BY <3>1, <2>1, <2>2, <1>w, <1>s, <1>4
  <2>3. CASE Life!Recorded # "sealed"
    <3>1. UNCHANGED registry /\ cache' = [cache EXCEPT ![m] = Life!Recorded]
      BY <1>4, <2>3, <1>s DEF Life!Archive, Life!Refused
    <3>2. QED
      BY <3>1, <2>1, <1>q
  <2>4. QED
    BY <2>2, <2>3
<1>5. ASSUME NEW m \in Managers, Life!Restart(m)
      PROVE  RegistryInv'
  <2>1. /\ UNCHANGED registry /\ cache' = [cache EXCEPT ![m] = Life!Unknown]
        /\ sealing' = sealing \ {m}
    BY <1>5 DEF Life!Restart
  <2>2. Life!Recorded' = Life!Recorded /\ Life!LegalRegistry'
    BY <2>1, <1>t DEF Life!Recorded, Life!LegalRegistry
  <2>3. QED
    BY <2>1, <2>2, <1>t DEF RegistryInv
<1>6. CASE UNCHANGED <<registry, cache, sealing>>
  BY <1>6, <1>t DEF RegistryInv, Life!Recorded, Life!LegalRegistry
<1>7. ASSUME \/ Life!Write \/ Life!Lose
             \/ Life!SealRead \/ Life!SealCopy \/ Life!SealAppend
             \/ Life!ExportRead \/ Life!ExportWrite \/ Life!RestoreBegin \/ Life!RestoreEntry
             \/ Life!RestoreEnd \/ Life!DeleteArchive \/ Life!Capture
      PROVE  UNCHANGED <<registry, cache, sealing>>
  BY <1>7, Zenon DEF Life!Write, Life!Lose, Life!SealRead, Life!SealCopy, Life!SealAppend, Life!ExportRead,
     Life!ExportWrite, Life!RestoreBegin, Life!RestoreEntry, Life!RestoreEnd, Life!DeleteArchive, Life!Capture
<1>8. QED
  BY <1>1, <1>2, <1>3, <1>4, <1>5, <1>6, <1>7, Zenon DEF Life!LcNext, Life!DrainOnTrigger

-----------------------------------------------------------------------------
(* The life cycle of a shard: chains, archives, seals and witnesses.       *)

Chain == Seq(Nat)   \* a hash: the ids it covers
ShardEntries == [id: Nat, over: Chain]
SealJobs == [at: {"idle", "read", "copied"}, q: Seq(Chain), copy: Seq(Chain), alone: BOOLEAN]
ExportJobs == [at: {"idle", "write"}, q: Seq(ShardEntries), copy: Seq(Chain), alone: BOOLEAN]
Archives == [ok: BOOLEAN, ids: Seq(Nat), hashes: Seq(Chain), torn: BOOLEAN]
Restores == [left: Seq(Nat), on: BOOLEAN, fresh: BOOLEAN, alone: BOOLEAN, skipped: Nat,
             want: Seq(Chain)]
SealRecords == [count: Nat, last: Chain, copy: Seq(Chain), whole: BOOLEAN]
Witnesses == [count: Nat, tip: Chain]

LifeTypes ==
  /\ shard \in Seq(ShardEntries)
  /\ pin \in [last: Chain, count: Nat]
  /\ nextId \in Nat
  /\ sjob \in SealJobs
  /\ ejob \in ExportJobs
  /\ cold \in Archives
  /\ rjob \in Restores
  /\ seals \in Seq(SealRecords)
  /\ witness \in Seq(Witnesses)

\* The pin counts the ids its hash covers; the hash of an entry covers at
\* least as many ids as there are entries up to it, and no more than the pin.
PinLeads ==
  /\ Len(pin.last) = pin.count
  /\ \A i \in 1..Len(shard) : i - 1 <= Len(shard[i].over) /\ Len(shard[i].over) < pin.count

\* An export under way holds an unbroken chain.
ExportChained == ejob.at = "write" => ejob.q # <<>> /\ Life!Unbroken(ejob.q)

\* The hashes an archive claims follow from its ids.
Chained(ids, hs) ==
  /\ hs # <<>> /\ Len(ids) = Len(hs)
  /\ Len(hs[1]) = 1 => hs[1] = <<ids[1]>>
  /\ \A i \in 2..Len(hs) : hs[i] = Append(hs[i - 1], ids[i])

ArchiveChained == cold.ok => Chained(cold.ids, cold.hashes)

\* A restore that nobody disturbed has put back a part of the archived chain
\* hash for hash, and the ids left will give the rest.
Undisturbed == /\ rjob.on /\ rjob.fresh /\ rjob.alone
               /\ rjob.skipped = 0 /\ Len(rjob.want[1]) = 1

Before(hs, i) == IF i = 1 THEN <<>> ELSE hs[i - 1]

Following(q, tip, left, want) ==
  /\ want # <<>> /\ Len(want) = Len(q) + Len(left)
  /\ tip = Before(want, Len(q) + 1)
  /\ \A i \in 1..Len(q) : Life!HashOf(q[i]) = want[i]
  /\ \A i \in 1..Len(left) : want[Len(q) + i] = Append(Before(want, Len(q) + i), left[i])
  /\ \A i \in 1..Len(want) : Len(want[i]) = i

RestoreFollows == Undisturbed => Following(shard, pin.last, rjob.left, rjob.want)

\* A seal under way holds the hashes of a whole chain, which are still those of
\* the shard, or of the copy, unless data was lost since.
Covers(hs, q) == Len(q) <= Len(hs) /\ \A i \in 1..Len(q) : hs[i] = q[i]

SealFollows ==
  /\ sjob.at # "idle" => sjob.q # <<>> /\ \A i \in 1..Len(sjob.q) : Len(sjob.q[i]) = i
  /\ sjob.at = "read" /\ sjob.alone => Covers(Life!Hashes(shard), sjob.q)
  /\ sjob.at = "copied" /\ sjob.alone /\ sjob.copy # <<>> => Covers(sjob.copy, sjob.q)

\* A seal counts the ids under its last hash, and its copy holds them all
\* unless data was lost meanwhile; a witness counts no more than its tip covers.
SealTrue(s) ==
  /\ Len(s.last) = s.count
  /\ s.copy # <<>> /\ s.whole => s.count <= Len(s.copy) /\ s.copy[s.count] = s.last

RecordsTrue ==
  /\ \A i \in 1..Len(seals) : SealTrue(seals[i])
  /\ \A i \in 1..Len(witness) : witness[i].count <= Len(witness[i].tip)

\* The inductive invariant of the shard's life, apart from its registry.
LifeInv ==
  /\ LifeTypes /\ PinLeads
  /\ ExportChained /\ ArchiveChained /\ RestoreFollows
  /\ SealFollows /\ RecordsTrue

\* The hash of an entry covers one id more than the entry is chained over.
LEMMA HashFacts ==
    ASSUME NEW e \in ShardEntries
    PROVE  Life!HashOf(e) \in Chain /\ Len(Life!HashOf(e)) = Len(e.over) + 1 /\ Len(e.over) \in Nat
<1>1. e.over \in Seq(Nat) /\ e.id \in Nat
  BY DEF ShardEntries, Chain
<1>2. QED
  BY <1>1 DEF Life!HashOf, Chain

\* The hashes of a sequence of entries, one by one.
LEMMA HashesFacts ==
    ASSUME NEW q \in Seq(ShardEntries)
    PROVE  /\ Life!Hashes(q) \in Seq(Chain) /\ Len(Life!Hashes(q)) = Len(q)
           /\ \A i \in 1..Len(q) : /\ q[i] \in ShardEntries /\ Life!HashOf(q[i]) \in Chain
                                   /\ Life!Hashes(q)[i] = Life!HashOf(q[i])
<1>1. \A i \in 1..Len(q) : q[i] \in ShardEntries
  OBVIOUS
<1>2. \A i \in 1..Len(q) : Life!HashOf(q[i]) \in Chain
  BY <1>1, HashFacts
<1> DEFINE H(i) == Life!HashOf(q[i])
<1>3. Life!Hashes(q) = [i \in 1..Len(q) |-> H(i)] /\ \A i \in 1..Len(q) : H(i) \in Chain
  BY <1>2 DEF Life!Hashes
<1> HIDE DEF H
<1>4. /\ Life!Hashes(q) \in Seq(Chain) /\ Len(Life!Hashes(q)) = Len(q)
      /\ \A i \in 1..Len(q) : Life!Hashes(q)[i] = H(i)
  BY <1>3
<1>5. QED
  BY <1>1, <1>2, <1>4 DEF H

\* The tip is the hash of the last entry.
LEMMA TipFacts ==
    ASSUME NEW q \in Seq(ShardEntries)
    PROVE  /\ Life!TipOf(q) \in Chain
           /\ q # <<>> => Len(q) \in 1..Len(q) /\ Life!TipOf(q) = Life!HashOf(q[Len(q)])
<1>1. CASE q = <<>>
  BY <1>1 DEF Life!TipOf, Chain
<1>2. CASE q # <<>>
  <2>1. Len(q) \in 1..Len(q)
    BY <1>2
  <2>2. Life!TipOf(q) = Life!HashOf(q[Len(q)])
    BY <1>2 DEF Life!TipOf, Life!Last
  <2>3. QED
    BY <1>2, <2>1, <2>2, HashesFacts
<1>3. QED
  BY <1>1, <1>2

\* A sequence of lengths that grow by one.
LEMMA GrowsByOne ==
    ASSUME NEW n \in Nat, NEW f \in [1..n -> Nat], \A i \in 2..n : f[i] = f[i - 1] + 1
    PROVE  \A i \in 1..n : f[i] = f[1] + i - 1
<1> DEFINE D == {i \in 1..n : f[i] # f[1] + i - 1}
<1>1. SUFFICES ASSUME D # {} PROVE FALSE
  OBVIOUS
<1>d. D \subseteq Nat /\ \A i \in 1..n : i \in D \/ f[i] = f[1] + i - 1
  OBVIOUS
<1>e. \A i \in D : i \in 1..n /\ f[i] # f[1] + i - 1
  OBVIOUS
<1> HIDE DEF D
<1>2. PICK x \in D : \A y \in D : ~(y < x)
  BY <1>1, <1>d, LeastNat
<1>3. x \in 1..n /\ f[x] # f[1] + x - 1 /\ f[1] \in Nat
  BY <1>2, <1>e
<1>4. CASE x = 1
  BY <1>3, <1>4
<1>5. CASE x # 1
  <2>1. x - 1 \in 1..n /\ x - 1 < x /\ x \in 2..n
    BY <1>3, <1>5
  <2>2. f[x - 1] = f[1] + (x - 1) - 1
    BY <2>1, <1>2, <1>d
  <2>3. f[x] = f[x - 1] + 1
    BY <2>1
  <2> DEFINE a == f[1]
             b == f[x - 1]
  <2>4. a \in Nat /\ b \in Nat /\ x \in Nat
    BY <1>3, <2>1
  <2> HIDE DEF a, b
  <2>5. b = a + (x - 1) - 1 /\ f[x] = b + 1 /\ f[x] # a + x - 1
    BY <2>2, <2>3, <1>3 DEF a, b
  <2>6. QED
    BY <2>4, <2>5
<1>6. QED
  BY <1>4, <1>5

\* In an unbroken chain every hash covers one id more than the one before it.
LEMMA UnbrokenLengths ==
    ASSUME NEW q \in Seq(ShardEntries), Life!Unbroken(q)
    PROVE  \A i \in 1..Len(q) : Len(Life!HashOf(q[i])) = Len(Life!HashOf(q[1])) + i - 1
<1> DEFINE f == [i \in 1..Len(q) |-> Len(Life!HashOf(q[i]))]
<1>1. \A i \in 1..Len(q) : Len(Life!HashOf(q[i])) \in Nat
  BY HashesFacts DEF Chain
<1>2. f \in [1..Len(q) -> Nat]
  BY <1>1
<1>3. ASSUME NEW i \in 2..Len(q)
      PROVE  f[i] = f[i - 1] + 1
  <2>1. i \in 1..Len(q) /\ i - 1 \in 1..Len(q) /\ q[i].over = Life!HashOf(q[i - 1]) /\ q[i] \in ShardEntries
    BY <1>3 DEF Life!Unbroken
  <2>2. Len(Life!HashOf(q[i])) = Len(Life!HashOf(q[i - 1])) + 1
    BY <2>1, HashFacts
  <2>3. QED
    BY <2>1, <2>2
<1> HIDE DEF f
<1>n. Len(q) \in Nat
  OBVIOUS
<1>4. \A i \in 1..Len(q) : f[i] = f[1] + i - 1
  BY <1>n, <1>2, <1>3, GrowsByOne
<1>5. ASSUME NEW i \in 1..Len(q)
      PROVE  Len(Life!HashOf(q[i])) = Len(Life!HashOf(q[1])) + i - 1
  <2>1. 1 \in 1..Len(q)
    BY <1>n, <1>5
  <2>2. f[i] = Len(Life!HashOf(q[i])) /\ f[1] = Len(Life!HashOf(q[1]))
    BY <1>5, <2>1 DEF f
  <2>3. QED
    BY <1>4, <1>5, <2>2
<1>6. QED
  BY <1>5

\* A shard that verifies begins where its chain began: its pin counts as many
\* ids as it has entries, or fewer, and no hash covers more than the pin.
LEMMA VerifiedBegins ==
    ASSUME LifeTypes, PinLeads, Life!VerifyShard
    PROVE  \A i \in 1..Len(shard) : Len(Life!HashOf(shard[i])) = i
<1>1. CASE shard = <<>>
  BY <1>1
<1>2. CASE shard # <<>>
  <2> DEFINE n == Len(shard)
             h(i) == Len(Life!HashOf(shard[i]))
  <2>1. shard \in Seq(ShardEntries) /\ n \in Nat /\ n \in 1..n /\ 1 \in 1..n
    BY <1>2 DEF LifeTypes
  <2>2. \A i \in 1..n : h(i) = Len(shard[i].over) + 1 /\ h(i) \in Nat
    BY <2>1, HashFacts
  <2>3. pin.last \in Seq(Nat) /\ pin.count \in Nat /\ Len(pin.last) = pin.count
    BY DEF LifeTypes, PinLeads, Chain
  <2>4. h(1) >= 1 /\ h(n) <= pin.count
    BY <2>1, <2>2, <2>3, SMTT(30) DEF PinLeads
  <2>5. Life!Unbroken(shard)
    BY DEF Life!VerifyShard
  <2>6. \A i \in 1..n : h(i) = h(1) + i - 1
    BY <2>1, <2>5, UnbrokenLengths
  <2>7. h(n) = h(1) + n - 1
    BY <2>1, <2>6
  <2> HIDE DEF h
  <2>8. pin.last # <<>>
    BY <2>1, <2>2, <2>3, <2>4, <2>7
  <2>9. n > pin.count \/ (n = pin.count /\ Life!TipOf(shard) = pin.last)
    BY <2>8 DEF Life!VerifyShard
  <2>10. n <= pin.count
    BY <2>1, <2>2, <2>3, <2>4, <2>7
  <2>11. n = pin.count
    BY <2>1, <2>3, <2>9, <2>10
  <2>12. h(1) = 1
    BY <2>1, <2>2, <2>3, <2>4, <2>7, <2>11
  <2>13. \A i \in 1..n : h(i) = i
    BY <2>1, <2>2, <2>6, <2>12
  <2>14. QED
    BY <2>13 DEF h
<1>3. QED
  BY <1>1, <1>2

\* The archive of an unbroken chain: its hashes follow from its ids.
LEMMA ArchiveOfChain ==
    ASSUME NEW q \in Seq(ShardEntries), q # <<>>, Life!Unbroken(q)
    PROVE  /\ Life!ArchiveOf(q) \in Archives
           /\ Chained(Life!ArchiveOf(q).ids, Life!ArchiveOf(q).hashes)
<1> DEFINE ids == [i \in 1..Len(q) |-> q[i].id]
           hs == Life!Hashes(q)
<1>1. Life!ArchiveOf(q) = [ok |-> TRUE, ids |-> ids, hashes |-> hs, torn |-> FALSE]
  BY DEF Life!ArchiveOf
<1>e. \A i \in 1..Len(q) : q[i] \in ShardEntries
  OBVIOUS
<1>2. \A i \in 1..Len(q) : q[i].id \in Nat /\ q[i] \in ShardEntries /\ q[i].over \in Seq(Nat)
  BY <1>e DEF ShardEntries, Chain
<1>3. ids \in Seq(Nat) /\ Len(ids) = Len(q) /\ \A i \in 1..Len(q) : ids[i] = q[i].id
  BY <1>2
<1>4. /\ hs \in Seq(Chain) /\ Len(hs) = Len(q)
      /\ \A i \in 1..Len(q) : hs[i] = Append(q[i].over, q[i].id)
  BY HashesFacts DEF Life!HashOf
<1> HIDE DEF ids, hs
<1>5. Life!ArchiveOf(q) \in Archives /\ Life!ArchiveOf(q).ids = ids /\ Life!ArchiveOf(q).hashes = hs
  BY <1>1, <1>3, <1>4 DEF Archives
<1>6. Len(q) \in Nat /\ 1 \in 1..Len(q)
  OBVIOUS
<1>7. hs # <<>> /\ Len(ids) = Len(hs)
  BY <1>3, <1>4, <1>6
<1>8. Len(hs[1]) = 1 => hs[1] = <<ids[1]>>
  <2>1. SUFFICES ASSUME Len(hs[1]) = 1 PROVE hs[1] = <<ids[1]>>
    OBVIOUS
  <2>2. hs[1] = Append(q[1].over, ids[1]) /\ q[1].over \in Seq(Nat) /\ ids[1] \in Nat
    BY <1>2, <1>3, <1>4, <1>6
  <2>3. Len(q[1].over) = 0
    BY <2>1, <2>2
  <2>4. q[1].over = <<>>
    BY <2>2, <2>3
  <2>5. QED
    BY <2>2, <2>4
<1>9. ASSUME NEW i \in 2..Len(hs)
      PROVE  hs[i] = Append(hs[i - 1], ids[i])
  <2>1. i \in 1..Len(q) /\ i - 1 \in 1..Len(q) /\ i \in 2..Len(q)
    BY <1>9, <1>4, <1>6
  <2>2. q[i].over = Life!HashOf(q[i - 1])
    BY <2>1 DEF Life!Unbroken
  <2>3. hs[i - 1] = Life!HashOf(q[i - 1])
    BY <2>1, HashesFacts DEF hs
  <2>4. QED
    BY <2>1, <2>2, <2>3, <1>3, <1>4
<1>10. QED
  BY <1>5, <1>7, <1>8, <1>9 DEF Chained

\* A restore of such an archive begins with all of it to do,
LEMMA RestoreStarts ==
    ASSUME NEW ids \in Seq(Nat), NEW hs \in Seq(Chain), Chained(ids, hs), Len(hs[1]) = 1
    PROVE  Following(<<>>, <<>>, ids, hs)
<1>1. /\ hs # <<>> /\ Len(ids) = Len(hs) /\ hs[1] = <<ids[1]>> /\ Len(hs) \in Nat
      /\ 1 \in 1..Len(hs) /\ \A i \in 2..Len(hs) : hs[i] = Append(hs[i - 1], ids[i])
  BY DEF Chained
<1>2. \A i \in 1..Len(hs) : hs[i] \in Seq(Nat) /\ ids[i] \in Nat
  BY <1>1 DEF Chain
<1> DEFINE f == [i \in 1..Len(hs) |-> Len(hs[i])]
<1>3. f \in [1..Len(hs) -> Nat]
  BY <1>2
<1>4. ASSUME NEW i \in 2..Len(hs)
      PROVE  f[i] = f[i - 1] + 1
  <2>1. i \in 1..Len(hs) /\ i - 1 \in 1..Len(hs) /\ hs[i] = Append(hs[i - 1], ids[i])
    BY <1>1, <1>4
  <2>2. Len(hs[i]) = Len(hs[i - 1]) + 1
    BY <2>1, <1>2
  <2>3. QED
    BY <2>1, <2>2
<1> HIDE DEF f
<1>5. \A i \in 1..Len(hs) : f[i] = f[1] + i - 1
  BY <1>1, <1>3, <1>4, GrowsByOne
<1>6. ASSUME NEW i \in 1..Len(hs)
      PROVE  Len(hs[i]) = i
  <2>1. f[i] = Len(hs[i]) /\ f[1] = 1
    BY <1>1, <1>6 DEF f
  <2>2. QED
    BY <1>5, <1>6, <2>1
<1>7. ASSUME NEW i \in 1..Len(ids)
      PROVE  hs[0 + i] = Append(Before(hs, 0 + i), ids[i])
  <2>1. CASE i = 1
    BY <2>1, <1>1, <1>2 DEF Before
  <2>2. CASE i # 1
    BY <2>2, <1>1, <1>7 DEF Before
  <2>3. QED
    BY <2>1, <2>2
<1>8. Len(<<>>) = 0
  OBVIOUS
<1>9. QED
  BY <1>1, <1>6, <1>7, <1>8 DEF Following, Before

\* and an entry put back leaves one less: append chains it over the pin, and
\* its hash comes out as archived.
LEMMA RestoreGoesOn ==
    ASSUME NEW q \in Seq(ShardEntries), NEW tip \in Chain, NEW left \in Seq(Nat),
           NEW want \in Seq(Chain), left # <<>>, Following(q, tip, left, want)
    PROVE  Following(Append(q, [id |-> Head(left), over |-> tip]), Append(tip, Head(left)),
                     Tail(left), want)
<1> DEFINE e == [id |-> Head(left), over |-> tip]
           p == Append(q, e)
           t == Append(tip, Head(left))
           rest == Tail(left)
           k == Len(q)
<1>1. /\ want # <<>> /\ Len(want) = k + Len(left) /\ tip = Before(want, k + 1)
      /\ \A i \in 1..k : Life!HashOf(q[i]) = want[i]
      /\ \A i \in 1..Len(left) : want[k + i] = Append(Before(want, k + i), left[i])
      /\ \A i \in 1..Len(want) : Len(want[i]) = i
  BY DEF Following
<1>2. /\ Head(left) \in Nat /\ Head(left) = left[1] /\ 1 \in 1..Len(left) /\ k \in Nat /\ Len(left) \in Nat
      /\ rest \in Seq(Nat) /\ Len(rest) = Len(left) - 1 /\ \A i \in 1..Len(rest) : rest[i] = left[i + 1]
  OBVIOUS
<1>3. e \in ShardEntries /\ Life!HashOf(e) = t
  BY <1>2 DEF ShardEntries, Life!HashOf
<1>4. want[k + 1] = t
  BY <1>1, <1>2
<1> HIDE DEF e, t, rest
<1>5. /\ p \in Seq(ShardEntries) /\ Len(p) = k + 1 /\ p[k + 1] = e
      /\ \A i \in 1..k : p[i] = q[i]
  BY <1>3
<1> HIDE DEF p
<1>6. Len(want) = Len(p) + Len(rest)
  BY <1>1, <1>2, <1>5
<1>7. t = Before(want, Len(p) + 1)
  BY <1>2, <1>4, <1>5 DEF Before
<1>8. ASSUME NEW i \in 1..Len(p)
      PROVE  Life!HashOf(p[i]) = want[i]
  <2>1. CASE i \in 1..k
    BY <1>1, <1>5, <2>1
  <2>2. CASE i = k + 1
    BY <1>3, <1>4, <1>5, <2>2
  <2>3. QED
    BY <2>1, <2>2, <1>2, <1>5, <1>8
<1>9. ASSUME NEW i \in 1..Len(rest)
      PROVE  want[Len(p) + i] = Append(Before(want, Len(p) + i), rest[i])
  <2>1. i + 1 \in 1..Len(left) /\ rest[i] = left[i + 1] /\ Len(p) + i = k + (i + 1)
    BY <1>2, <1>5, <1>9
  <2>2. QED
    BY <2>1, <1>1
<1>10. Following(p, t, rest, want)
  BY <1>1, <1>6, <1>7, <1>8, <1>9 DEF Following
<1>11. QED
  BY <1>10 DEF p, e, t, rest

\* An empty shard, no jobs and no records.
LEMMA LifeStarts == Life!LcInit => LifeInv
<1>1. SUFFICES ASSUME Life!LcInit PROVE LifeInv
  OBVIOUS
<1>2. /\ shard = <<>> /\ pin = [last |-> <<>>, count |-> 0] /\ seals = <<>> /\ witness = <<>> /\ nextId = 1
      /\ sjob = [at |-> "idle", q |-> <<>>, copy |-> <<>>, alone |-> FALSE]
      /\ ejob = [at |-> "idle", q |-> <<>>, copy |-> <<>>, alone |-> FALSE]
      /\ cold = [ok |-> FALSE, ids |-> <<>>, hashes |-> <<>>, torn |-> FALSE]
      /\ rjob = [left |-> <<>>, on |-> FALSE, fresh |-> FALSE, alone |-> FALSE, skipped |-> 0, want |-> <<>>]
  BY <1>1 DEF Life!LcInit, Life!NoPin, Life!Idle, Life!NoFile, Life!NoRestore
<1>3. LifeTypes
  BY <1>2 DEF LifeTypes, ShardEntries, SealJobs, ExportJobs, Archives, Restores, Chain
<1>4. PinLeads
  BY <1>2 DEF PinLeads
<1>5. ExportChained /\ ArchiveChained /\ RestoreFollows /\ SealFollows /\ RecordsTrue
  BY <1>2 DEF ExportChained, ArchiveChained, RestoreFollows, Undisturbed, SealFollows, RecordsTrue
<1>6. QED
  BY <1>3, <1>4, <1>5 DEF LifeInv

\* An append chains to the pin, which then leads again; the hashes that the
\* shard had stay where they are.
LEMMA AppendKeeps ==
    ASSUME LifeInv, NEW id \in Nat, shard' = Life!Appended(id), pin' = Life!Pinned(id)
    PROVE  /\ shard' \in Seq(ShardEntries) /\ pin' \in [last: Chain, count: Nat] /\ PinLeads'
           /\ \A q \in Seq(Chain) : Covers(Life!Hashes(shard), q) => Covers(Life!Hashes(shard'), q)
<1>1. /\ shard \in Seq(ShardEntries) /\ pin \in [last: Chain, count: Nat] /\ PinLeads
      /\ pin.last \in Seq(Nat) /\ pin.count \in Nat
  BY DEF LifeInv, LifeTypes, Chain
<1> DEFINE e == [id |-> id, over |-> pin.last]
           n == Len(shard)
<1>2. e \in ShardEntries /\ e.over = pin.last
  BY <1>1 DEF ShardEntries, Chain
<1>3. shard' = Append(shard, e)
  BY DEF Life!Appended
<1> HIDE DEF e
<1>4. /\ shard' \in Seq(ShardEntries) /\ Len(shard') = n + 1 /\ n \in Nat /\ shard'[n + 1] = e
      /\ \A i \in 1..n : shard'[i] = shard[i]
  BY <1>1, <1>2, <1>3
<1>5. /\ pin' \in [last: Chain, count: Nat] /\ pin'.last = Append(pin.last, id)
      /\ pin'.count = pin.count + 1 /\ Len(pin'.last) = Len(pin.last) + 1
  BY <1>1 DEF Life!Pinned, Chain
<1>6. n <= pin.count
  <2>1. CASE n = 0
    BY <2>1, <1>1
  <2>2. CASE n # 0
    <3>1. n \in 1..n /\ shard[n] \in ShardEntries
      BY <2>2, <1>4, <1>1
    <3>2. Len(shard[n].over) \in Nat /\ n - 1 <= Len(shard[n].over) /\ Len(shard[n].over) < pin.count
      BY <3>1, <1>1, HashFacts DEF PinLeads
    <3>3. QED
      BY <3>2, <1>1, <1>4
  <2>3. QED
    BY <2>1, <2>2
<1>7. ASSUME NEW i \in 1..Len(shard')
      PROVE  i - 1 <= Len(shard'[i].over) /\ Len(shard'[i].over) < pin'.count
  <2>1. CASE i \in 1..n
    <3>1. shard'[i] = shard[i] /\ shard[i] \in ShardEntries
      BY <2>1, <1>4, <1>1
    <3>2. Len(shard[i].over) \in Nat /\ i - 1 <= Len(shard[i].over) /\ Len(shard[i].over) < pin.count
      BY <3>1, <2>1, <1>1, HashFacts DEF PinLeads
    <3>3. QED
      BY <3>1, <3>2, <1>5, <1>1, SMTT(30)
  <2>2. CASE i = n + 1
    <3>1. shard'[i].over = pin.last /\ Len(pin.last) = pin.count
      BY <2>2, <1>4, <1>2, <1>1 DEF PinLeads
    <3>2. QED
      BY <3>1, <2>2, <1>6, <1>5, <1>4, <1>1
  <2>3. QED
    BY <2>1, <2>2, <1>4, <1>7
<1>8. PinLeads'
  BY <1>5, <1>7, <1>1 DEF PinLeads
<1>9. ASSUME NEW q \in Seq(Chain), Covers(Life!Hashes(shard), q)
      PROVE  Covers(Life!Hashes(shard'), q)
  <2>1. /\ Len(Life!Hashes(shard)) = n /\ \A i \in 1..n : Life!Hashes(shard)[i] = Life!HashOf(shard[i])
    BY <1>1, HashesFacts
  <2>2. /\ Len(Life!Hashes(shard')) = n + 1
        /\ \A i \in 1..(n + 1) : Life!Hashes(shard')[i] = Life!HashOf(shard'[i])
    BY <1>4, HashesFacts
  <2>3. Len(q) <= n /\ Len(q) \in Nat /\ \A i \in 1..Len(q) : Life!Hashes(shard)[i] = q[i]
    BY <1>9, <2>1 DEF Covers
  <2>4. ASSUME NEW i \in 1..Len(q)
        PROVE  Life!Hashes(shard')[i] = q[i]
    <3>1. i \in 1..n /\ i \in 1..(n + 1)
      BY <2>3, <2>4, <1>4
    <3>2. QED
      BY <3>1, <2>1, <2>2, <2>3, <2>4, <1>4
  <2>5. QED
    BY <2>2, <2>3, <2>4, <1>4 DEF Covers
<1>10. QED
  BY <1>4, <1>5, <1>8, <1>9

\* All but the last element.
LEMMA FrontFacts ==
    ASSUME NEW S, NEW s \in Seq(S), s # <<>>
    PROVE  /\ Life!Front(s) \in Seq(S) /\ Len(Life!Front(s)) = Len(s) - 1 /\ Len(s) \in Nat
           /\ \A i \in 1..(Len(s) - 1) : i \in 1..Len(s) /\ Life!Front(s)[i] = s[i]
<1>1. Len(s) \in Nat /\ Len(s) # 0 /\ Len(s) - 1 \in Nat
  OBVIOUS
<1>2. Life!Front(s) = SubSeq(s, 1, Len(s) - 1)
  BY DEF Life!Front
<1> DEFINE n == Len(s) - 1
<1>w. n \in Nat /\ \A i \in 1..n : i \in 1..Len(s)
  BY <1>1
<1>h. Life!Front(s) = SubSeq(s, 1, n)
  BY <1>2
<1> HIDE DEF n
<1>v. SubSeq(s, 1, n) = [i \in 1..n |-> s[i]]
  BY <1>w
<1>3. Life!Front(s) \in Seq(S)
  BY <1>w, <1>h, <1>v
<1>4. Len(Life!Front(s)) = n
  BY <1>w, <1>h, <1>v
<1>5. \A i \in 1..(Len(s) - 1) : i \in 1..Len(s) /\ Life!Front(s)[i] = s[i]
  BY <1>w, <1>h, <1>v DEF n
<1>6. QED
  BY <1>1, <1>3, <1>4, <1>5 DEF n

\* Losing entries, with or without the pin, leaves the pin ahead.
LEMMA LossKeeps ==
    ASSUME LifeInv, shard # <<>>,
           \/ shard' = <<>> /\ pin' \in {pin, Life!NoPin}
           \/ shard' = Life!Front(shard) /\ pin' = pin
    PROVE  shard' \in Seq(ShardEntries) /\ pin' \in [last: Chain, count: Nat] /\ PinLeads'
<1>1. shard \in Seq(ShardEntries) /\ pin \in [last: Chain, count: Nat] /\ PinLeads
  BY DEF LifeInv, LifeTypes
<1>2. Life!NoPin \in [last: Chain, count: Nat] /\ Len(Life!NoPin.last) = Life!NoPin.count
  BY DEF Life!NoPin, Chain
<1>3. CASE shard' = <<>> /\ pin' \in {pin, Life!NoPin}
  <2>1. shard' \in Seq(ShardEntries) /\ Len(shard') = 0
    BY <1>3
  <2>2. pin' \in [last: Chain, count: Nat] /\ Len(pin'.last) = pin'.count
    BY <1>1, <1>2, <1>3 DEF PinLeads
  <2>3. QED
    BY <2>1, <2>2 DEF PinLeads
<1>4. CASE shard' = Life!Front(shard) /\ pin' = pin
  <2>1. /\ shard' \in Seq(ShardEntries) /\ Len(shard') = Len(shard) - 1 /\ Len(shard) \in Nat
        /\ \A i \in 1..Len(shard') : i \in 1..Len(shard) /\ shard'[i] = shard[i]
    BY <1>1, <1>4, FrontFacts
  <2>2. QED
    BY <2>1, <1>1, <1>4 DEF PinLeads
<1>5. QED
  BY <1>3, <1>4

\* Every step of a shard's life keeps the invariant.
LEMMA LifeSteps ==
    ASSUME LifeInv, Life!LcNext
    PROVE  LifeInv'
<1>t. /\ LifeTypes /\ PinLeads /\ ExportChained /\ ArchiveChained /\ RestoreFollows
      /\ SealFollows /\ RecordsTrue
  BY DEF LifeInv
<1>y. /\ shard \in Seq(ShardEntries) /\ pin \in [last: Chain, count: Nat] /\ nextId \in Nat
      /\ sjob \in SealJobs /\ ejob \in ExportJobs /\ cold \in Archives /\ rjob \in Restores
      /\ seals \in Seq(SealRecords) /\ witness \in Seq(Witnesses)
  BY <1>t DEF LifeTypes
<1>1. CASE Life!Write
  <2>1. /\ shard' = Life!Appended(nextId) /\ pin' = Life!Pinned(nextId) /\ nextId' = nextId + 1
        /\ rjob' = [rjob EXCEPT !.alone = FALSE] /\ UNCHANGED <<seals, sjob, cold, ejob, witness>>
    BY <1>1 DEF Life!Write
  <2>2. rjob' \in Restores /\ ~rjob'.alone
    BY <2>1, <1>y DEF Restores
  <2>3. /\ shard' \in Seq(ShardEntries) /\ pin' \in [last: Chain, count: Nat] /\ PinLeads'
        /\ \A q \in Seq(Chain) : Covers(Life!Hashes(shard), q) => Covers(Life!Hashes(shard'), q)
    BY <2>1, <1>y, AppendKeeps
  <2>4. LifeTypes'
    BY <2>1, <2>2, <2>3, <1>y DEF LifeTypes
  <2>5. RestoreFollows'
    BY <2>2 DEF RestoreFollows, Undisturbed
  <2>6. SealFollows'
    <3>1. sjob.q \in Seq(Chain)
      BY <1>y DEF SealJobs
    <3>2. QED
      BY <3>1, <2>1, <2>3, <1>t DEF SealFollows
  <2>7. ExportChained' /\ ArchiveChained' /\ RecordsTrue'
    BY <2>1, <1>t DEF ExportChained, ArchiveChained, RecordsTrue
  <2>8. QED
    BY <2>3, <2>4, <2>5, <2>6, <2>7 DEF LifeInv
<1>2. CASE Life!Lose
  <2>1. /\ shard # <<>>
        /\ \/ shard' = <<>> /\ pin' \in {pin, Life!NoPin}
           \/ shard' = Life!Front(shard) /\ pin' = pin
        /\ rjob' = [rjob EXCEPT !.alone = FALSE] /\ sjob' = [sjob EXCEPT !.alone = FALSE]
        /\ UNCHANGED <<seals, cold, ejob, witness, nextId>>
    BY <1>2 DEF Life!Lose
  <2>2. rjob' \in Restores /\ ~rjob'.alone
    BY <2>1, <1>y DEF Restores
  <2>3. sjob' \in SealJobs /\ ~sjob'.alone /\ sjob'.at = sjob.at /\ sjob'.q = sjob.q
    BY <2>1, <1>y DEF SealJobs
  <2>4. shard' \in Seq(ShardEntries) /\ pin' \in [last: Chain, count: Nat] /\ PinLeads'
    BY <2>1, LossKeeps
  <2>5. LifeTypes'
    BY <2>1, <2>2, <2>3, <2>4, <1>y DEF LifeTypes
  <2>6. RestoreFollows' /\ SealFollows'
    BY <2>2, <2>3, <1>t DEF RestoreFollows, Undisturbed, SealFollows
  <2>7. ExportChained' /\ ArchiveChained' /\ RecordsTrue'
    BY <2>1, <1>t DEF ExportChained, ArchiveChained, RecordsTrue
  <2>8. QED
    BY <2>4, <2>5, <2>6, <2>7 DEF LifeInv
<1>3. CASE UNCHANGED <<shard, pin, seals, sjob, cold, ejob, rjob, witness, nextId>>
  BY <1>3, <1>t DEF LifeInv, LifeTypes, PinLeads, ExportChained, ArchiveChained, RestoreFollows,
     Undisturbed, SealFollows, RecordsTrue
<1>4. ASSUME NEW m \in Managers,
             \/ Life!Drain(m) \/ Life!SealBegin(m) \/ Life!SealEnd(m) \/ Life!Archive(m)
             \/ Life!DrainOnTrigger(m) \/ Life!Restart(m)
      PROVE  UNCHANGED <<shard, pin, seals, sjob, cold, ejob, rjob, witness, nextId>>
  BY <1>4, Zenon DEF Life!Drain, Life!SealBegin, Life!SealEnd, Life!Archive, Life!DrainOnTrigger, Life!Restart
<1>5. CASE Life!SealRead
  <2>1. /\ Life!VerifyShard /\ shard # <<>>
        /\ sjob' = [Life!Idle EXCEPT !.at = "read", !.q = Life!Hashes(shard), !.alone = TRUE]
        /\ UNCHANGED <<shard, pin, seals, cold, ejob, rjob, witness, nextId>>
    BY <1>5 DEF Life!SealRead
  <2> DEFINE hs == Life!Hashes(shard)
  <2>2. /\ hs \in Seq(Chain) /\ Len(hs) = Len(shard)
        /\ \A i \in 1..Len(shard) : hs[i] = Life!HashOf(shard[i])
    BY <1>y, HashesFacts
  <2>3. \A i \in 1..Len(shard) : Len(Life!HashOf(shard[i])) = i
    BY <2>1, <1>t, VerifiedBegins
  <2> HIDE DEF hs
  <2>4. /\ sjob' \in SealJobs /\ sjob'.at = "read" /\ sjob'.q = hs
    <3>1. sjob' = [at |-> "read", q |-> hs, copy |-> <<>>, alone |-> TRUE]
      BY <2>1 DEF Life!Idle, hs
    <3>2. <<>> \in Seq(Chain)
      OBVIOUS
    <3>3. QED
      BY <3>1, <3>2, <2>2 DEF SealJobs
  <2>5. hs # <<>> /\ \A i \in 1..Len(hs) : Len(hs[i]) = i
    BY <2>1, <2>2, <2>3, <1>y
  <2>6. Life!Hashes(shard') = hs /\ Covers(hs, hs)
    BY <2>1, <2>2 DEF hs, Covers
  <2>7. SealFollows'
    BY <2>4, <2>5, <2>6 DEF SealFollows
  <2>8. LifeTypes'
    BY <2>1, <2>4, <1>y DEF LifeTypes
  <2>9. PinLeads' /\ ExportChained' /\ ArchiveChained' /\ RestoreFollows' /\ RecordsTrue'
    BY <2>1, <1>t DEF PinLeads, ExportChained, ArchiveChained, RestoreFollows, Undisturbed, RecordsTrue
  <2>10. QED
    BY <2>7, <2>8, <2>9 DEF LifeInv
<1>6. CASE Life!SealCopy
  <2>1. PICK archive \in BOOLEAN :
          sjob' = [sjob EXCEPT !.at = "copied", !.copy = IF archive THEN Life!Hashes(shard) ELSE <<>>]
    BY <1>6 DEF Life!SealCopy
  <2>2. sjob.at = "read" /\ UNCHANGED <<shard, pin, seals, cold, ejob, rjob, witness, nextId>>
    BY <1>6 DEF Life!SealCopy
  <2> DEFINE c == IF archive THEN Life!Hashes(shard) ELSE <<>>
  <2>3. c \in Seq(Chain) /\ (c # <<>> => c = Life!Hashes(shard))
    BY <1>y, HashesFacts
  <2> HIDE DEF c
  <2>4. /\ sjob' \in SealJobs /\ sjob'.at = "copied" /\ sjob'.q = sjob.q /\ sjob'.copy = c
        /\ sjob'.alone = sjob.alone
    <3>1. sjob' = [sjob EXCEPT !.at = "copied", !.copy = c]
      BY <2>1 DEF c
    <3>2. QED
      BY <3>1, <2>3, <1>y DEF SealJobs
  <2>5. SealFollows'
    BY <2>2, <2>3, <2>4, <1>t DEF SealFollows
  <2>6. LifeTypes'
    BY <2>2, <2>4, <1>y DEF LifeTypes
  <2>7. PinLeads' /\ ExportChained' /\ ArchiveChained' /\ RestoreFollows' /\ RecordsTrue'
    BY <2>2, <1>t DEF PinLeads, ExportChained, ArchiveChained, RestoreFollows, Undisturbed, RecordsTrue
  <2>8. QED
    BY <2>5, <2>6, <2>7 DEF LifeInv
<1>7. CASE Life!SealAppend
  <2>1. /\ sjob.at = "copied" /\ seals' = Append(seals, Life!SealRecord) /\ sjob' = Life!Idle
        /\ UNCHANGED <<shard, pin, cold, ejob, rjob, witness, nextId>>
    BY <1>7 DEF Life!SealAppend
  <2> DEFINE n == Len(sjob.q)
  <2>2. /\ sjob.q \in Seq(Chain) /\ sjob.copy \in Seq(Chain) /\ sjob.alone \in BOOLEAN /\ sjob.q # <<>>
        /\ n \in Nat /\ n \in 1..n /\ sjob.q[n] \in Chain /\ Len(sjob.q[n]) = n
    BY <2>1, <1>y, <1>t DEF SealJobs, SealFollows
  <2> DEFINE r == [count |-> n, last |-> sjob.q[n], copy |-> sjob.copy, whole |-> sjob.alone]
  <2>3. Life!SealRecord = r
    BY DEF Life!SealRecord, Life!Last
  <2>4. r \in SealRecords /\ SealTrue(r)
    <3>1. r \in SealRecords
      BY <2>2 DEF SealRecords
    <3>2. sjob.copy # <<>> /\ sjob.alone => n <= Len(sjob.copy) /\ sjob.copy[n] = sjob.q[n]
      BY <2>1, <2>2, <1>t DEF SealFollows, Covers
    <3>3. QED
      BY <3>1, <3>2, <2>2 DEF SealTrue
  <2> HIDE DEF r
  <2>5. /\ seals' \in Seq(SealRecords) /\ Len(seals') = Len(seals) + 1 /\ Len(seals) \in Nat
        /\ seals'[Len(seals) + 1] = r /\ \A i \in 1..Len(seals) : seals'[i] = seals[i]
    BY <2>1, <2>3, <2>4, <1>y
  <2>6. \A i \in 1..Len(seals') : SealTrue(seals'[i])
    BY <2>4, <2>5, <1>t DEF RecordsTrue
  <2>7. sjob' \in SealJobs /\ sjob'.at = "idle"
    BY <2>1 DEF SealJobs, Life!Idle
  <2>8. LifeTypes'
    BY <2>1, <2>5, <2>7, <1>y DEF LifeTypes
  <2>9. RecordsTrue'
    BY <2>1, <2>6, <1>t DEF RecordsTrue
  <2>10. PinLeads' /\ ExportChained' /\ ArchiveChained' /\ RestoreFollows' /\ SealFollows'
    BY <2>1, <2>7, <1>t DEF PinLeads, ExportChained, ArchiveChained, RestoreFollows, Undisturbed, SealFollows
  <2>11. QED
    BY <2>8, <2>9, <2>10 DEF LifeInv
<1>8. CASE Life!ExportRead
  <2>1. /\ shard # <<>> /\ Life!Unbroken(shard)
        /\ ejob' = [Life!Idle EXCEPT !.at = "write", !.q = shard]
        /\ UNCHANGED <<shard, pin, seals, sjob, cold, rjob, witness, nextId>>
    BY <1>8 DEF Life!ExportRead
  <2>2. ejob' \in ExportJobs /\ ejob'.q = shard
    <3>1. ejob' = [at |-> "write", q |-> shard, copy |-> <<>>, alone |-> FALSE]
      BY <2>1 DEF Life!Idle
    <3>2. QED
      BY <3>1, <1>y DEF ExportJobs
  <2>3. LifeTypes' /\ ExportChained'
    BY <2>1, <2>2, <1>y DEF LifeTypes, ExportChained
  <2>4. PinLeads' /\ SealFollows' /\ ArchiveChained' /\ RestoreFollows' /\ RecordsTrue'
    BY <2>1, <1>t DEF PinLeads, SealFollows, ArchiveChained, RestoreFollows, Undisturbed, RecordsTrue
  <2>5. QED
    BY <2>3, <2>4 DEF LifeInv
<1>9. CASE Life!ExportWrite
  <2>1. /\ ejob.at = "write" /\ ejob' = Life!Idle
        /\ cold' = Life!ArchiveOf(ejob.q) \/ cold' = Life!Torn
        /\ UNCHANGED <<shard, pin, seals, sjob, rjob, witness, nextId>>
    BY <1>9 DEF Life!ExportWrite
  <2>2. ejob' \in ExportJobs /\ ejob'.at = "idle"
    BY <2>1 DEF ExportJobs, Life!Idle
  <2>3. ejob.q \in Seq(ShardEntries) /\ ejob.q # <<>> /\ Life!Unbroken(ejob.q)
    BY <2>1, <1>y, <1>t DEF ExportJobs, ExportChained
  <2>4. Life!Torn \in Archives /\ ~Life!Torn.ok
    <3>1. Life!NoFile \in Archives /\ ~Life!NoFile.ok
      <4>1. <<>> \in Seq(Chain) /\ <<>> \in Seq(Nat)
        OBVIOUS
      <4>2. QED
        BY <4>1 DEF Life!NoFile, Archives
    <3>2. QED
      BY <3>1 DEF Life!Torn, Archives
  <2>5. cold' \in Archives /\ ArchiveChained'
    BY <2>1, <2>3, <2>4, ArchiveOfChain DEF ArchiveChained
  <2>6. LifeTypes' /\ ExportChained'
    BY <2>1, <2>2, <2>5, <1>y DEF LifeTypes, ExportChained
  <2>7. PinLeads' /\ SealFollows' /\ RestoreFollows' /\ RecordsTrue'
    BY <2>1, <1>t DEF PinLeads, SealFollows, RestoreFollows, Undisturbed, RecordsTrue
  <2>8. QED
    BY <2>5, <2>6, <2>7 DEF LifeInv
<1>10. CASE Life!RestoreBegin
  <2>1. /\ cold.ok
        /\ rjob' = [left |-> cold.ids, on |-> TRUE, fresh |-> shard = <<>> /\ pin = Life!NoPin,
                    alone |-> TRUE, skipped |-> 0, want |-> cold.hashes]
        /\ UNCHANGED <<shard, pin, seals, sjob, cold, ejob, witness, nextId>>
    BY <1>10 DEF Life!RestoreBegin, Life!ArchiveOk
  <2>2. cold.ids \in Seq(Nat) /\ cold.hashes \in Seq(Chain) /\ Chained(cold.ids, cold.hashes)
    BY <2>1, <1>y, <1>t DEF Archives, ArchiveChained
  <2>3. /\ rjob' \in Restores /\ rjob'.left = cold.ids /\ rjob'.want = cold.hashes
        /\ rjob'.fresh => shard = <<>> /\ pin = Life!NoPin
    <3>1. (shard = <<>> /\ pin = Life!NoPin) \in BOOLEAN
      OBVIOUS
    <3> DEFINE b == shard = <<>> /\ pin = Life!NoPin
    <3>2. b \in BOOLEAN /\ rjob' = [left |-> cold.ids, on |-> TRUE, fresh |-> b, alone |-> TRUE,
                                    skipped |-> 0, want |-> cold.hashes]
      BY <2>1, <3>1
    <3> HIDE DEF b
    <3>3. rjob' \in Restores /\ rjob'.left = cold.ids /\ rjob'.want = cold.hashes /\ rjob'.fresh = b
      BY <3>2, <2>2 DEF Restores
    <3>4. QED
      BY <3>3 DEF b
  <2>4. RestoreFollows'
    <3>1. SUFFICES ASSUME Undisturbed' PROVE Following(shard', pin'.last, rjob'.left, rjob'.want)
      BY DEF RestoreFollows
    <3>2. shard' = <<>> /\ pin'.last = <<>> /\ Len(cold.hashes[1]) = 1
      BY <3>1, <2>1, <2>3 DEF Undisturbed, Life!NoPin
    <3>3. Following(<<>>, <<>>, cold.ids, cold.hashes)
      BY <3>2, <2>2, RestoreStarts
    <3>4. QED
      BY <3>2, <3>3, <2>3
  <2>5. LifeTypes'
    BY <2>1, <2>3, <1>y DEF LifeTypes
  <2>6. PinLeads' /\ SealFollows' /\ ArchiveChained' /\ ExportChained' /\ RecordsTrue'
    BY <2>1, <1>t DEF PinLeads, SealFollows, ArchiveChained, ExportChained, RecordsTrue
  <2>7. QED
    BY <2>4, <2>5, <2>6 DEF LifeInv
<1>11. CASE Life!RestoreEntry
  <2>0. rjob.left # <<>> /\ UNCHANGED <<seals, sjob, cold, ejob, witness, nextId>>
    BY <1>11 DEF Life!RestoreEntry
  <2>l. /\ rjob.left \in Seq(Nat) /\ rjob.want \in Seq(Chain) /\ Head(rjob.left) \in Nat
        /\ Tail(rjob.left) \in Seq(Nat) /\ rjob.skipped \in Nat /\ pin.last \in Chain
    BY <2>0, <1>y DEF Restores
  <2>1. CASE /\ shard' = Life!Appended(Head(rjob.left)) /\ pin' = Life!Pinned(Head(rjob.left))
             /\ rjob' = [rjob EXCEPT !.left = Tail(@)]
    <3>1. /\ rjob' \in Restores /\ rjob'.left = Tail(rjob.left) /\ rjob'.want = rjob.want
          /\ Undisturbed' => Undisturbed
      BY <2>1, <2>l, <1>y DEF Restores, Undisturbed
    <3>2. /\ shard' \in Seq(ShardEntries) /\ pin' \in [last: Chain, count: Nat] /\ PinLeads'
          /\ \A q \in Seq(Chain) : Covers(Life!Hashes(shard), q) => Covers(Life!Hashes(shard'), q)
      BY <2>1, <2>l, AppendKeeps
    <3>3. RestoreFollows'
      <4>1. SUFFICES ASSUME Undisturbed' PROVE Following(shard', pin'.last, rjob'.left, rjob'.want)
        BY DEF RestoreFollows
      <4>2. Following(shard, pin.last, rjob.left, rjob.want)
        BY <4>1, <3>1, <1>t DEF RestoreFollows
      <4>3. /\ shard' = Append(shard, [id |-> Head(rjob.left), over |-> pin.last])
            /\ pin'.last = Append(pin.last, Head(rjob.left))
        BY <2>1 DEF Life!Appended, Life!Pinned
      <4>4. QED
        BY <4>2, <4>3, <3>1, <2>0, <2>l, <1>y, RestoreGoesOn
    <3>4. LifeTypes'
      BY <2>0, <3>1, <3>2, <1>y DEF LifeTypes
    <3>5. SealFollows'
      <4>1. sjob.q \in Seq(Chain)
        BY <1>y DEF SealJobs
      <4>2. QED
        BY <4>1, <2>0, <3>2, <1>t DEF SealFollows
    <3>6. ArchiveChained' /\ ExportChained' /\ RecordsTrue'
      BY <2>0, <1>t DEF ArchiveChained, ExportChained, RecordsTrue
    <3>7. QED
      BY <3>2, <3>3, <3>4, <3>5, <3>6 DEF LifeInv
  <2>2. CASE rjob' = [rjob EXCEPT !.left = Tail(@), !.skipped = @ + 1] /\ UNCHANGED <<shard, pin>>
    <3>1. rjob' \in Restores /\ rjob'.skipped = rjob.skipped + 1
      <4> DEFINE l == Tail(rjob.left)
                 k == rjob.skipped + 1
      <4>1. l \in Seq(Nat) /\ k \in Nat /\ rjob' = [rjob EXCEPT !.left = l, !.skipped = k]
        BY <2>2, <2>l
      <4> HIDE DEF l
      <4>2. rjob'.skipped = k
        BY <4>1, <1>y DEF Restores
      <4> HIDE DEF k
      <4>3. rjob' \in Restores
        BY <4>1, <1>y DEF Restores
      <4>4. QED
        BY <4>2, <4>3 DEF k
    <3>2. ~Undisturbed'
      BY <3>1, <2>l DEF Undisturbed
    <3>3. LifeTypes' /\ RestoreFollows'
      BY <2>0, <2>2, <3>1, <3>2, <1>y DEF LifeTypes, RestoreFollows
    <3>4. PinLeads' /\ SealFollows' /\ ArchiveChained' /\ ExportChained' /\ RecordsTrue'
      BY <2>0, <2>2, <1>t DEF PinLeads, SealFollows, ArchiveChained, ExportChained, RecordsTrue
    <3>5. QED
      BY <3>3, <3>4 DEF LifeInv
  <2>3. QED
    BY <1>11, <2>1, <2>2 DEF Life!RestoreEntry
<1>12. CASE Life!RestoreEnd
  <2>1. rjob' = Life!NoRestore /\ UNCHANGED <<shard, pin, seals, sjob, cold, ejob, witness, nextId>>
    BY <1>12 DEF Life!RestoreEnd
  <2>2. rjob' \in Restores /\ ~rjob'.on
    BY <2>1 DEF Life!NoRestore, Restores
  <2>3. LifeTypes' /\ RestoreFollows'
    BY <2>1, <2>2, <1>y DEF LifeTypes, RestoreFollows, Undisturbed
  <2>4. PinLeads' /\ SealFollows' /\ ArchiveChained' /\ ExportChained' /\ RecordsTrue'
    BY <2>1, <1>t DEF PinLeads, SealFollows, ArchiveChained, ExportChained, RecordsTrue
  <2>5. QED
    BY <2>3, <2>4 DEF LifeInv
<1>13. CASE Life!DeleteArchive
  <2>1. cold' = Life!NoFile /\ UNCHANGED <<shard, pin, seals, sjob, ejob, rjob, witness, nextId>>
    BY <1>13 DEF Life!DeleteArchive
  <2>2. cold' \in Archives /\ ~cold'.ok
    BY <2>1 DEF Life!NoFile, Archives
  <2>3. LifeTypes' /\ ArchiveChained'
    BY <2>1, <2>2, <1>y DEF LifeTypes, ArchiveChained
  <2>4. PinLeads' /\ SealFollows' /\ RestoreFollows' /\ ExportChained' /\ RecordsTrue'
    BY <2>1, <1>t DEF PinLeads, SealFollows, RestoreFollows, Undisturbed, ExportChained, RecordsTrue
  <2>5. QED
    BY <2>3, <2>4 DEF LifeInv
<1>14. CASE Life!Capture
  <2>1. /\ shard # <<>> /\ witness' = Append(witness, [count |-> Len(shard), tip |-> Life!TipOf(shard)])
        /\ UNCHANGED <<shard, pin, seals, sjob, cold, ejob, rjob, nextId>>
    BY <1>14 DEF Life!Capture
  <2> DEFINE r == [count |-> Len(shard), tip |-> Life!TipOf(shard)]
             n == Len(shard)
  <2>2. n \in Nat /\ n \in 1..n /\ shard[n] \in ShardEntries /\ Life!TipOf(shard) = Life!HashOf(shard[n])
    BY <2>1, <1>y, TipFacts
  <2>3. Len(Life!HashOf(shard[n])) = Len(shard[n].over) + 1 /\ Len(shard[n].over) \in Nat
        /\ Life!HashOf(shard[n]) \in Chain
    BY <2>2, HashFacts
  <2>4. n - 1 <= Len(shard[n].over)
    BY <2>2, <1>t DEF PinLeads
  <2>5. r \in Witnesses /\ r.count <= Len(r.tip)
    <3>1. r \in Witnesses /\ r.count = n /\ r.tip = Life!HashOf(shard[n])
      BY <2>2, <2>3 DEF Witnesses
    <3>2. QED
      BY <3>1, <2>2, <2>3, <2>4
  <2> HIDE DEF r
  <2>6. /\ witness' \in Seq(Witnesses) /\ Len(witness') = Len(witness) + 1 /\ Len(witness) \in Nat
        /\ witness'[Len(witness) + 1] = r /\ \A i \in 1..Len(witness) : witness'[i] = witness[i]
    BY <2>1, <2>5, <1>y DEF r
  <2>7. \A i \in 1..Len(witness') : witness'[i].count <= Len(witness'[i].tip)
    <3>1. ASSUME NEW i \in 1..Len(witness')
          PROVE  witness'[i].count <= Len(witness'[i].tip)
      <4>1. CASE i \in 1..Len(witness)
        BY <4>1, <2>6, <1>t DEF RecordsTrue
      <4>2. CASE i = Len(witness) + 1
        BY <4>2, <2>5, <2>6
      <4>3. QED
        BY <4>1, <4>2, <2>6, <3>1
    <3>2. QED
      BY <3>1
  <2>8. LifeTypes' /\ RecordsTrue'
    BY <2>1, <2>6, <2>7, <1>y, <1>t DEF LifeTypes, RecordsTrue
  <2>9. PinLeads' /\ SealFollows' /\ RestoreFollows' /\ ExportChained' /\ ArchiveChained'
    BY <2>1, <1>t DEF PinLeads, SealFollows, RestoreFollows, Undisturbed, ExportChained, ArchiveChained
  <2>10. QED
    BY <2>8, <2>9 DEF LifeInv
<1>15. QED
  BY <1>1, <1>2, <1>3, <1>4, <1>5, <1>6, <1>7, <1>8, <1>9, <1>10, <1>11, <1>12, <1>13, <1>14, Zenon
     DEF Life!LcNext

\* cold_storage.py, seal.py, witness.py: a restore that Restored describes gave
\* back the archived hashes, and the seal and the witness of them agree.
LEMMA LifeWhole ==
    ASSUME LifeInv
    PROVE  Life!ArchivesWhole
<1>t. LifeTypes /\ RestoreFollows /\ RecordsTrue
  BY DEF LifeInv
<1>y. /\ shard \in Seq(ShardEntries) /\ rjob \in Restores
      /\ seals \in Seq(SealRecords) /\ witness \in Seq(Witnesses)
  BY <1>t DEF LifeTypes
<1>1. \A i \in 1..Len(seals) :
        seals[i].copy # <<>> /\ seals[i].whole
          => Len(seals[i].copy) >= seals[i].count /\ seals[i].copy[seals[i].count] = seals[i].last
  <2>1. SUFFICES ASSUME NEW i \in 1..Len(seals), seals[i].copy # <<>>, seals[i].whole
                 PROVE  Len(seals[i].copy) >= seals[i].count /\ seals[i].copy[seals[i].count] = seals[i].last
    OBVIOUS
  <2>2. seals[i].count \in Nat /\ Len(seals[i].copy) \in Nat
    <3>1. seals[i] \in SealRecords
      BY <2>1, <1>y
    <3>2. seals[i].count \in Nat /\ seals[i].copy \in Seq(Chain)
      BY <3>1 DEF SealRecords
    <3>3. QED
      BY <3>2
  <2>3. QED
    BY <2>1, <2>2, <1>t DEF RecordsTrue, SealTrue
<1>2. ASSUME Life!Restored
      PROVE  /\ Life!Hashes(shard) = rjob.want
             /\ seals # <<>> /\ Head(seals).last = Life!Last(rjob.want) => Life!SealStatus(shard) = "matches"
             /\ witness # <<>> /\ Life!Last(witness).tip = Life!Last(rjob.want)
                  => Life!WitnessStatus(shard) = "ok"
  <2> DEFINE want == rjob.want
             n == Len(shard)
  <2>1. Following(shard, pin.last, <<>>, want) /\ want \in Seq(Chain)
    BY <1>2, <1>t, <1>y DEF Life!Restored, RestoreFollows, Undisturbed, Restores
  <2> HIDE DEF want
  <2>2. /\ want # <<>> /\ Len(want) = n /\ n \in Nat /\ n # 0
        /\ \A i \in 1..n : Life!HashOf(shard[i]) = want[i] /\ Len(want[i]) = i
    <3>1. want # <<>> /\ Len(want) = n + 0 /\ n \in Nat
      BY <2>1, <1>y DEF Following
    <3>2. QED
      BY <2>1, <3>1 DEF Following
  <2>3. /\ Life!Hashes(shard) \in Seq(Chain) /\ Len(Life!Hashes(shard)) = n
        /\ \A i \in 1..n : Life!Hashes(shard)[i] = want[i]
    BY <2>2, <1>y, HashesFacts
  <2>4. Life!Hashes(shard) = want
    BY <2>1, <2>2, <2>3
  <2>5. shard # <<>> /\ n \in 1..n /\ Life!TipOf(shard) = want[n] /\ Life!Last(want) = want[n]
    <3>1. shard # <<>> /\ n \in 1..n
      BY <2>2
    <3>2. Life!TipOf(shard) = Life!HashOf(shard[n])
      BY <3>1, <1>y, TipFacts
    <3>3. QED
      BY <3>1, <3>2, <2>2 DEF Life!Last
  <2>6. Len(want[n]) = n
    BY <2>2, <2>5
  <2>7. ASSUME seals # <<>>, Head(seals).last = want[n]
        PROVE  Life!SealStatus(shard) = "matches"
    <3>1. 1 \in 1..Len(seals) /\ Head(seals) = seals[1]
      BY <2>7, <1>y
    <3>2. Head(seals).count = n
      BY <3>1, <2>6, <2>7, <1>t DEF RecordsTrue, SealTrue
    <3>3. QED
      BY <3>2, <2>5, <2>7 DEF Life!SealStatus
  <2>8. ASSUME witness # <<>>, Life!Last(witness).tip = want[n]
        PROVE  Life!WitnessStatus(shard) = "ok"
    <3> DEFINE w == witness[Len(witness)]
    <3>1. Len(witness) \in 1..Len(witness) /\ Life!Last(witness) = w
      BY <2>8, <1>y DEF Life!Last
    <3>2. w.count \in Nat /\ w.count <= Len(w.tip)
      <4>1. w \in Witnesses
        BY <3>1, <1>y
      <4>2. w.count <= Len(w.tip)
        BY <3>1, <1>t DEF RecordsTrue
      <4> HIDE DEF w
      <4>3. w.count \in Nat
        BY <4>1 DEF Witnesses
      <4>4. QED
        BY <4>2, <4>3
    <3>3. w.tip = want[n]
      BY <3>1, <2>8
    <3> HIDE DEF w
    <3>4. w.count <= n
      BY <3>2, <3>3, <2>6
    <3>5. Life!StateMatches(w, shard)
      BY <3>2, <3>3, <3>4, <2>2, <2>5 DEF Life!StateMatches
    <3>6. QED
      BY <3>1, <3>5, <2>8 DEF Life!WitnessStatus
  <2>9. QED
    BY <2>4, <2>5, <2>7, <2>8 DEF want
<1>3. QED
  BY <1>1, <1>2 DEF Life!ArchivesWhole

\* A shard's life does not notice the steps of the other services.
LEMMA LifeAlone ==
    ASSUME LifeInv, RegistryInv, UNCHANGED lifeVars
    PROVE  LifeInv' /\ RegistryInv'
<1>1. UNCHANGED <<shard, pin, seals, sjob, cold, ejob, rjob, witness, nextId>>
      /\ UNCHANGED <<registry, cache, sealing>>
  BY DEF lifeVars
<1>2. LifeInv'
  BY <1>1 DEF LifeInv, LifeTypes, PinLeads, ExportChained, ArchiveChained, RestoreFollows,
     Undisturbed, SealFollows, RecordsTrue
<1>3. RegistryInv'
  BY <1>1 DEF RegistryInv, Life!LegalRegistry, Life!Recorded
<1>4. QED
  BY <1>2, <1>3

\* lifecycle.py, seal.py, cold_storage.py, witness.py, artifacts.py: whatever
\* is written, lost, exported, restored, sealed and witnessed in whatever
\* order, the registry is one legal path to archived, an undisturbed restore
\* gives back the archived chain and passes its seal and witness, a copy made
\* with a seal holds what the seal covers, and a stored artifact is readable;
\* with one process of each kind that may die and start again anywhere.
THEOREM ArchivesAreSound == Spec => []ArchivesSound
<1> DEFINE Inv == LifeInv /\ RegistryInv /\ ArtifactInv
<1>1. Init => Inv
  BY LifeStarts, RegistryStarts, ArtifactStarts DEF Init
<1>2. ASSUME Inv, [Next]_<<part, anchorVars, codecVars, lifeVars, relayVars, traceVars,
                     securityVars, artifactsVars, coverageVars, trackerVars, copyVars>>
      PROVE  Inv'
  <2>1. Life!TipOf(shard) \in Seq(Nat)
    BY <1>2, TipFacts DEF LifeInv, LifeTypes, Chain
  <2>2. UNCHANGED lifeVars => LifeInv' /\ RegistryInv'
    BY <1>2, LifeAlone
  <2>3. Life!LcNext => LifeInv' /\ RegistryInv'
    BY <1>2, <2>1, LifeSteps, RegistrySteps
  <2>4. UNCHANGED artifactsVars => ArtifactInv'
    BY <1>2, ArtifactAlone
  <2>5. Artifacts!AsNext => ArtifactInv'
    BY <1>2, ArtifactSteps
  <2>6. /\ UNCHANGED lifeVars \/ Life!LcNext
        /\ UNCHANGED artifactsVars \/ Artifacts!AsNext
    BY <1>2, Zenon DEF Next
  <2>7. QED
    BY <2>2, <2>3, <2>4, <2>5, <2>6
<1>3. Inv => ArchivesSound
  BY LifeWhole, ArtifactReadable DEF RegistryInv, ArchivesSound
<1>4. QED
  BY <1>1, <1>2, <1>3, PTL DEF Spec

-----------------------------------------------------------------------------
(* Anchoring: what became of the transaction.                              *)

Txs == [phase: {"none", "pool", "included", "executed"}, fate: {"open", "success", "fail"},
        path: {"none", "andromeda", "supernova"}]
Watches == [pc: {"off", "inclusion", "settling", "terminal"}, polls: Int,
            status: {"pending", "success", "fail"}]

\* An outcome was read, from the anchor's own transaction or from another's.
Told(o) ==
  /\ o \in {"success", "fail"}
  /\ foreign \/ (tx.phase = "executed" /\ tx.fate = o)

\* The entries of an anchor that hold an outcome.
Logged(o) == \E i \in 1..Len(entries) : entries[i] = o

OutcomeTypes ==
  /\ tx \in Txs /\ watch \in Watches /\ foreign \in BOOLEAN
  /\ anchor \in Anchor!States /\ entries \in Seq(Anchor!EntryTypes)

\* The inductive invariant of an anchor: a transaction on the old path was
\* executed where it was included, an executed one has its fate, a watch ends
\* with what was told, and the entries hold an outcome when it is the state.
OutcomeInv ==
  /\ OutcomeTypes
  /\ tx.path = "andromeda" => tx.phase = "executed"
  /\ tx.phase = "executed" => tx.fate # "open"
  /\ watch.pc = "terminal" => Told(watch.status)
  /\ anchor = "settled" => Told("success")
  /\ anchor = "failed" => Told("fail")
  /\ \A o \in {"settled", "failed", "rejected"} : Logged(o) <=> anchor = o

\* No transaction, no entry and no watch.
LEMMA OutcomeStarts == Anchor!Init => OutcomeInv
<1> SUFFICES ASSUME Anchor!Init PROVE OutcomeInv
  OBVIOUS
<1>1. /\ tx = [phase |-> "none", fate |-> "open", path |-> "none"]
      /\ watch = [pc |-> "off", polls |-> 0, status |-> "pending"]
      /\ foreign = FALSE /\ anchor = "intent_logged" /\ entries = <<>>
  BY DEF Anchor!Init, Anchor!NoTx, Anchor!NoWatch
<1>2. OutcomeTypes
  <2>1. tx \in Txs
    BY <1>1 DEF Txs
  <2>2. watch \in Watches
    BY <1>1 DEF Watches
  <2>3. anchor \in Anchor!States /\ entries \in Seq(Anchor!EntryTypes)
    BY <1>1 DEF Anchor!States
  <2>4. QED
    BY <1>1, <2>1, <2>2, <2>3, Zenon DEF OutcomeTypes
<1>3. tx.path = "none" /\ tx.phase = "none" /\ watch.pc = "off"
  BY <1>1
<1>4. \A o : ~Logged(o)
  BY <1>1 DEF Logged
<1>5. QED
  BY <1>1, <1>2, <1>3, <1>4 DEF OutcomeInv

\* An event leads from a state that is no outcome, and its entry is the state.
LEMMA EmitFacts ==
    ASSUME OutcomeInv, NEW ev, Anchor!Emit(ev)
    PROVE  /\ anchor' \in Anchor!States /\ entries' \in Seq(Anchor!EntryTypes)
           /\ \A o \in {"settled", "failed", "rejected"} : Logged(o)' <=> anchor' = o
           /\ anchor' = "settled" => ev = "exec_success"
           /\ anchor' = "failed" => ev = "exec_fail"
<1>1. PICK s \in Anchor!NextState(anchor, ev, verdict.regime) :
        anchor' = s /\ entries' = Append(entries, s)
  BY DEF Anchor!Emit
<1>2. PICK d \in Anchor!Dispatch : d[1] = anchor /\ d[2] = ev /\ d[3] = s
  BY <1>1 DEF Anchor!NextState
<1>3. /\ anchor \notin {"settled", "failed", "rejected"}
      /\ s \in {"submitted", "included", "rejected", "timed_out", "stuck", "settled", "failed"}
      /\ s = "settled" => ev = "exec_success"
      /\ s = "failed" => ev = "exec_fail"
  BY <1>2 DEF Anchor!Dispatch
<1>4. entries \in Seq(Anchor!EntryTypes) /\ s \in Anchor!EntryTypes /\ s \in Anchor!States
  BY <1>3 DEF OutcomeInv, OutcomeTypes, Anchor!EntryTypes, Anchor!States
<1>5. ASSUME NEW o \in {"settled", "failed", "rejected"}
      PROVE  Logged(o)' <=> anchor' = o
  <2>1. ~Logged(o)
    BY <1>3, <1>5 DEF OutcomeInv
  <2>2. /\ Len(entries') = Len(entries) + 1 /\ entries'[Len(entries) + 1] = s
        /\ \A i \in 1..Len(entries) : entries'[i] = entries[i]
        /\ Len(entries) \in Nat
    BY <1>1, <1>4
  <2>3. QED
    BY <1>1, <2>1, <2>2 DEF Logged
<1>6. QED
  BY <1>1, <1>3, <1>4, <1>5

\* A step that leaves the anchor and its entries alone.
LEMMA OutcomeKept ==
    ASSUME OutcomeInv, UNCHANGED <<anchor, entries>>, OutcomeTypes',
           tx'.path = "andromeda" => tx'.phase = "executed",
           tx'.phase = "executed" => tx'.fate # "open",
           watch'.pc = "terminal" => Told(watch.status)',
           \A o : Told(o) => Told(o)'
    PROVE  OutcomeInv'
<1>1. \A o : Logged(o)' <=> Logged(o)
  BY DEF Logged
<1>2. QED
  BY <1>1 DEF OutcomeInv

\* The steps of an anchor and of the chain.
LEMMA OutcomeSteps ==
    ASSUME OutcomeInv, Anchor!Next
    PROVE  OutcomeInv'
<1>t. OutcomeTypes
  BY DEF OutcomeInv
<1>k. ASSUME UNCHANGED <<tx, anchor, entries, watch, foreign>>
      PROVE  OutcomeInv'
  BY <1>k DEF OutcomeInv, OutcomeTypes, Told, Logged
<1>w. ASSUME UNCHANGED <<tx, anchor, entries, foreign>>, watch' \in Watches,
             watch'.pc = "terminal" => Told(watch.status)'
      PROVE  OutcomeInv'
  <2>1. OutcomeTypes'
    BY <1>w, <1>t DEF OutcomeTypes
  <2>2. \A o : Told(o) => Told(o)'
    BY <1>w DEF Told
  <2>3. QED
    BY <1>w, <2>1, <2>2, OutcomeKept DEF OutcomeInv
<1>o. Anchor!NoWatch \in Watches /\ Anchor!NoWatch.pc = "off"
  BY DEF Anchor!NoWatch, Watches
<1>1. CASE Anchor!Tick
  BY <1>1, <1>k DEF Anchor!Tick, Anchor!anchorVars
<1>2. CASE Anchor!Include
  <2>1. UNCHANGED <<anchor, entries, watch, foreign>> /\ tx.phase = "pool"
    BY <1>2 DEF Anchor!Include, Anchor!anchorVars
  <2>2. PICK fate \in {"success", "fail"} :
          \/ tx' = [phase |-> "executed", fate |-> fate, path |-> "andromeda"]
          \/ tx' = [phase |-> "included", fate |-> "open", path |-> "supernova"]
    BY <1>2 DEF Anchor!Include
  <2>3. tx' \in Txs /\ (tx'.path = "andromeda" => tx'.phase = "executed")
        /\ (tx'.phase = "executed" => tx'.fate # "open")
    BY <2>2 DEF Txs
  <2>4. \A o : Told(o) => Told(o)'
    BY <2>1 DEF Told
  <2>5. OutcomeTypes'
    BY <2>1, <2>3, <1>t DEF OutcomeTypes
  <2>6. watch'.pc = "terminal" => Told(watch.status)'
    <3>1. watch.pc = "terminal" => Told(watch.status)
      BY DEF OutcomeInv
    <3>2. QED
      BY <2>1, <3>1 DEF Told
  <2>7. QED
    BY <2>1, <2>3, <2>4, <2>5, <2>6, OutcomeKept
<1>3. CASE Anchor!Execute
  <2>1. UNCHANGED <<anchor, entries, watch, foreign>> /\ tx.phase = "included"
    BY <1>3 DEF Anchor!Execute, Anchor!anchorVars
  <2>2. PICK fate \in {"success", "fail"} : tx' = [tx EXCEPT !.phase = "executed", !.fate = fate]
    BY <1>3 DEF Anchor!Execute
  <2>3. tx' \in Txs /\ tx'.phase = "executed" /\ tx'.fate = fate
    BY <2>2, <1>t DEF Txs, OutcomeTypes
  <2>4. \A o : Told(o) => Told(o)'
    BY <2>1 DEF Told
  <2>5. OutcomeTypes'
    BY <2>1, <2>3, <1>t DEF OutcomeTypes
  <2>6. watch'.pc = "terminal" => Told(watch.status)'
    <3>1. watch.pc = "terminal" => Told(watch.status)
      BY DEF OutcomeInv
    <3>2. QED
      BY <2>1, <3>1 DEF Told
  <2>7. QED
    BY <2>1, <2>3, <2>4, <2>5, <2>6, OutcomeKept
<1>4. CASE Anchor!Refresh \/ Anchor!OnEpochTransition \/ Anchor!Invalidate
  BY <1>4, <1>k DEF Anchor!Refresh, Anchor!OnEpochTransition, Anchor!Invalidate, Anchor!anchorVars,
                    Anchor!chainVars
<1>5. CASE Anchor!Restart
  <2>1. UNCHANGED <<tx, anchor, entries, foreign>> /\ watch' = Anchor!NoWatch
    BY <1>5 DEF Anchor!Restart, Anchor!chainVars
  <2>2. QED
    BY <2>1, <1>o, <1>w
<1>6. CASE Anchor!Submit
  <2>1. /\ watch.pc = "off" /\ UNCHANGED <<watch, foreign>> /\ Anchor!Emit("submit")
        /\ tx' = [Anchor!NoTx EXCEPT !.phase = "pool"]
    BY <1>6 DEF Anchor!Submit
  <2>2. tx' \in Txs /\ tx'.phase = "pool" /\ tx'.path = "none"
    BY <2>1 DEF Anchor!NoTx, Txs
  <2>3. QED
    BY <2>1, <2>2, <1>t, EmitFacts DEF OutcomeInv, OutcomeTypes
<1>7. ASSUME NEW ev \in {"reject", "t1_timeout", "t3_timeout", "stuck_timeout"}, Anchor!CallerEvent(ev)
      PROVE  OutcomeInv'
  <2>1. /\ watch.pc = "off" /\ UNCHANGED <<watch, foreign>> /\ Anchor!Emit(ev)
        /\ tx' = tx \/ tx' = Anchor!NoTx
    BY <1>7 DEF Anchor!CallerEvent
  <2>2. /\ tx' \in Txs /\ (tx'.path = "andromeda" => tx'.phase = "executed")
        /\ (tx'.phase = "executed" => tx'.fate # "open")
    <3>1. /\ Anchor!NoTx \in Txs /\ Anchor!NoTx.path = "none" /\ Anchor!NoTx.phase = "none"
      BY DEF Anchor!NoTx, Txs
    <3>2. QED
      BY <2>1, <3>1 DEF OutcomeInv, OutcomeTypes
  <2>3. QED
    BY <2>1, <2>2, <1>t, <1>7, EmitFacts DEF OutcomeInv, OutcomeTypes
<1>8. CASE Anchor!WatchStart
  <2>1. UNCHANGED <<tx, anchor, entries, foreign>> /\ watch' = [Anchor!NoWatch EXCEPT !.pc = "inclusion"]
    BY <1>8 DEF Anchor!WatchStart, Anchor!chainVars
  <2>2. watch' \in Watches /\ watch'.pc = "inclusion"
    BY <2>1 DEF Anchor!NoWatch, Watches
  <2>3. QED
    BY <2>1, <2>2, <1>w
<1>9. CASE Anchor!PollInclusion
  <2>1. UNCHANGED <<tx, foreign>> /\ watch.pc = "inclusion"
    BY <1>9 DEF Anchor!PollInclusion, Anchor!chainVars
  <2>2. CASE UNCHANGED <<anchor, entries>>
               /\ (watch' = Anchor!NoWatch \/ watch' = [watch EXCEPT !.polls = watch.polls + 1])
    <3>1. watch' \in Watches /\ watch'.pc # "terminal"
      BY <2>1, <2>2, <1>o, <1>t DEF Watches, OutcomeTypes
    <3>2. QED
      BY <2>1, <2>2, <3>1, <1>w
  <2>3. CASE /\ tx.phase \in {"included", "executed"} /\ Anchor!Emit("include")
             /\ watch' = IF tx.path = "andromeda"
                         THEN [pc |-> "terminal", polls |-> 0, status |-> Anchor!ReadAndromeda]
                         ELSE [Anchor!NoWatch EXCEPT !.pc = "settling"]
    <3>1. watch' \in Watches /\ (watch'.pc = "terminal" => Told(watch.status)')
      <4>1. CASE tx.path = "andromeda"
        <5>1. tx.phase = "executed" /\ tx.fate \in {"success", "fail"}
          BY <4>1, <1>t DEF OutcomeInv, OutcomeTypes, Txs
        <5>2. watch' = [pc |-> "terminal", polls |-> 0, status |-> tx.fate]
          BY <2>3, <4>1, <5>1 DEF Anchor!ReadAndromeda
        <5>3. watch' \in Watches /\ watch'.status = tx.fate
          BY <5>1, <5>2 DEF Watches
        <5>4. QED
          BY <5>1, <5>3, <2>1 DEF Told
      <4>2. CASE tx.path # "andromeda"
        BY <2>3, <4>2 DEF Anchor!NoWatch, Watches
      <4>3. QED
        BY <4>1, <4>2
    <3>2. anchor' # "settled" /\ anchor' # "failed"
      BY <2>3, EmitFacts
    <3>3. QED
      BY <2>1, <2>3, <3>1, <3>2, <1>t, EmitFacts DEF OutcomeInv, OutcomeTypes
  <2>4. QED
    BY <1>9, <2>2, <2>3, Zenon DEF Anchor!PollInclusion
<1>10. ASSUME NEW others \in {"none", "executed", "failed"}, Anchor!PollSettling(others)
       PROVE  OutcomeInv'
  <2> DEFINE st == Anchor!ReadSupernova(others)
             own == Anchor!ReadSupernova("none")
  <2>1. /\ UNCHANGED <<tx, anchor, entries>> /\ watch.pc = "settling"
        /\ foreign' = (foreign \/ (st # "pending" /\ st # own))
        /\ watch' = IF st # "pending" THEN [pc |-> "terminal", polls |-> 0, status |-> st]
                    ELSE IF Anchor!LastPoll THEN Anchor!NoWatch
                    ELSE [watch EXCEPT !.polls = watch.polls + 1]
    BY <1>10 DEF Anchor!PollSettling, Anchor!chainVars
  <2>2. st \in {"success", "fail", "pending"}
    BY DEF Anchor!ReadSupernova, Anchor!FailSignals, Anchor!ClassifyNonFail
  <2>3. own # "pending" => tx.phase = "executed" /\ tx.fate = own
    BY DEF Anchor!ReadSupernova, Anchor!FailSignals, Anchor!ClassifyNonFail
  <2> HIDE DEF st, own
  <2>4. watch' \in Watches /\ (watch'.pc = "terminal" => st # "pending" /\ watch'.status = st)
    BY <2>1, <2>2, <1>o, <1>t DEF Watches, OutcomeTypes
  <2>5. st # "pending" => /\ st \in {"success", "fail"}
                          /\ foreign' \/ (tx'.phase = "executed" /\ tx'.fate = st)
    <3>1. st # "pending" /\ st # own => foreign'
      BY <2>1, Zenon
    <3>2. st # "pending" /\ st = own => tx'.phase = "executed" /\ tx'.fate = st
      BY <2>1, <2>3
    <3>3. QED
      BY <2>2, <3>1, <3>2
  <2>6. watch'.pc = "terminal" => Told(watch.status)'
    BY <2>4, <2>5, Zenon DEF Told
  <2>7. OutcomeTypes' /\ \A o : Told(o) => Told(o)'
    BY <2>1, <2>4, <1>t DEF OutcomeTypes, Told
  <2>8. QED
    BY <2>1, <2>6, <2>7, OutcomeKept DEF OutcomeInv
<1>11. CASE Anchor!Terminal
  <2>1. /\ watch.pc = "terminal" /\ UNCHANGED <<tx, foreign>> /\ watch' = Anchor!NoWatch
        /\ Anchor!Emit(Anchor!TerminalEvent(watch.status))
    BY <1>11 DEF Anchor!Terminal, Anchor!chainVars
  <2>2. Told(watch.status)
    BY <2>1 DEF OutcomeInv
  <2>3. /\ anchor' = "settled" => watch.status # "fail"
        /\ anchor' = "failed" => watch.status = "fail"
    <3>1. /\ anchor' = "settled" => Anchor!TerminalEvent(watch.status) = "exec_success"
          /\ anchor' = "failed" => Anchor!TerminalEvent(watch.status) = "exec_fail"
      BY <2>1, EmitFacts
    <3>2. QED
      BY <3>1 DEF Anchor!TerminalEvent
  <2>4. (anchor' = "settled" => Told("success")') /\ (anchor' = "failed" => Told("fail")')
    BY <2>1, <2>2, <2>3 DEF Told
  <2>5. QED
    BY <2>1, <2>4, <1>o, <1>t, EmitFacts DEF OutcomeInv, OutcomeTypes
<1>12. CASE Anchor!WatchFails
  <2>1. UNCHANGED <<tx, anchor, entries, foreign>> /\ watch' = Anchor!NoWatch
    BY <1>12 DEF Anchor!WatchFails, Anchor!chainVars
  <2>2. QED
    BY <2>1, <1>o, <1>w
<1>13. QED
  BY <1>1, <1>2, <1>3, <1>4, <1>5, <1>6, <1>7, <1>8, <1>9, <1>10, <1>11, <1>12, Zenon DEF Anchor!Next

\* An anchor does not notice the steps of the other services.
LEMMA OutcomeAlone ==
    ASSUME OutcomeInv, UNCHANGED anchorVars
    PROVE  OutcomeInv'
<1>1. UNCHANGED <<tx, anchor, entries, watch, foreign>>
  BY DEF anchorVars
<1>2. QED
  BY <1>1 DEF OutcomeInv, OutcomeTypes, Told, Logged

\* What the invariant is for.
LEMMA OutcomeTold == OutcomeInv => Anchor!AuditTellsOutcome
<1> SUFFICES ASSUME OutcomeInv PROVE Anchor!AuditTellsOutcome
  OBVIOUS
<1>1. DOMAIN entries = 1..Len(entries)
  BY DEF OutcomeInv, OutcomeTypes
<1>2. /\ Logged("settled") <=> anchor = "settled"
      /\ Logged("failed") <=> anchor = "failed"
      /\ Logged("rejected") <=> anchor = "rejected"
  BY DEF OutcomeInv
<1>3. /\ Anchor!VerifyAnchorChain(entries) = "ok" <=> anchor = "settled"
      /\ Anchor!VerifyAnchorChain(entries) = "execution_failed" <=> anchor \in {"failed", "rejected"}
  BY <1>1, <1>2 DEF Anchor!VerifyAnchorChain, Logged
<1>4. /\ anchor = "settled" => tx.fate = "success" \/ foreign
      /\ anchor = "failed" => tx.fate = "fail" \/ foreign
  BY Zenon DEF OutcomeInv, Told
<1>5. QED
  BY <1>3, <1>4 DEF Anchor!AuditTellsOutcome

-----------------------------------------------------------------------------
(* Anchoring: the regime of the network.                                   *)

\* The regime the network was in at time t.
Held(t) == IF t < network.since THEN "andromeda" ELSE network.regime

\* A verdict worth caching: fetched in one request, and true then.
Fetches == [regime: {"andromeda", "supernova"}, source: {"network_config"}, captured: Nat, cached: Nat]
Cached(v) ==
  \/ v = Anchor!NoVerdict
  \/ /\ v \in Fetches
     /\ v.captured <= anow /\ v.captured <= v.cached /\ v.cached <= v.captured + MaxDelay
     /\ Held(v.captured) = v.regime

\* A verdict given at time t.
Given(v, t) ==
  /\ v.captured \in Nat /\ v.captured <= anow
  /\ v.source = "network_config" =>
       /\ v.regime \in {"andromeda", "supernova"}
       /\ Held(v.captured) = v.regime
       /\ t - v.captured < Ttl[v.regime] + MaxDelay
  /\ v.regime = "andromeda" => Held(v.captured) = "andromeda"

\* The inductive invariant of the regime detector.
RegimeInv ==
  /\ anow \in Nat
  /\ network \in [regime: {"andromeda", "supernova"}, since: Nat] /\ network.since <= anow
  /\ Cached(disk)
  /\ acache = Anchor!Unread \/ Cached(acache)
  /\ Given(verdict, aasked)

\* Nothing is cached and no verdict was given.
LEMMA RegimeStarts == Anchor!Init => RegimeInv
<1> SUFFICES ASSUME Anchor!Init PROVE RegimeInv
  OBVIOUS
<1>1. /\ network \in [regime: {"andromeda", "supernova"}, since: {0}] /\ anow = 0
      /\ acache = Anchor!Unread /\ disk = Anchor!NoVerdict /\ verdict = Anchor!NoVerdict
  BY DEF Anchor!Init, Anchor!Regimes
<1>2. /\ Anchor!NoVerdict.captured = 0 /\ Anchor!NoVerdict.source = "none"
      /\ Anchor!NoVerdict.regime = "none"
  BY DEF Anchor!NoVerdict
<1>3. Given(verdict, aasked)
  BY <1>1, <1>2 DEF Given
<1>4. QED
  BY <1>1, <1>3 DEF RegimeInv, Cached

\* Time passes and the network may go over to supernova: what it was stays.
LEMMA HeldStays ==
    ASSUME RegimeInv, anow' \in Nat, anow <= anow',
           \/ network' = network
           \/ /\ network.regime = "andromeda" /\ anow < anow'
              /\ network' = [regime |-> "supernova", since |-> anow'],
           NEW t \in Nat, t <= anow
    PROVE  Held(t)' = Held(t)
BY DEF RegimeInv, Held

\* So what was worth caching, or given, stays so.
LEMMA RegimeKept ==
    ASSUME RegimeInv, anow' \in Nat, anow <= anow',
           \/ network' = network
           \/ /\ network.regime = "andromeda" /\ anow < anow'
              /\ network' = [regime |-> "supernova", since |-> anow'],
           NEW v, NEW t
    PROVE  /\ Cached(v) => Cached(v)'
           /\ Given(v, t) => Given(v, t)'
<1>0. anow \in Nat
  BY DEF RegimeInv
<1>1. ASSUME v.captured \in Nat, v.captured <= anow
      PROVE  Held(v.captured)' = Held(v.captured) /\ v.captured <= anow'
  <2>1. Held(v.captured)' = Held(v.captured)
    BY <1>1, HeldStays
  <2>2. QED
    BY <1>0, <1>1, <2>1
<1>2. Cached(v) => Cached(v)'
  BY <1>1 DEF Cached, Fetches
<1>3. Given(v, t) => Given(v, t)'
  BY <1>1 DEF Given
<1>4. QED
  BY <1>2, <1>3

\* What is loaded was worth caching.
LEMMA LoadedCached == RegimeInv => Cached(Anchor!Loaded)
BY DEF RegimeInv, Anchor!Loaded

\* A fresh verdict may be given now: it is no older than a lifetime and the
\* request that fetched it.
LEMMA FreshGiven ==
    ASSUME RegimeInv, Anchor!IsFresh(Anchor!Loaded)
    PROVE  Given(Anchor!Loaded, anow)
<1> DEFINE v == Anchor!Loaded
<1>1. Cached(v)
  BY LoadedCached
<1>2. v # Anchor!NoVerdict /\ anow - v.cached < Ttl[v.regime]
  BY DEF Anchor!IsFresh
<1> HIDE DEF v
<1>3. v \in Fetches /\ v.captured <= anow /\ v.cached <= v.captured + MaxDelay /\ Held(v.captured) = v.regime
  BY <1>1, <1>2 DEF Cached
<1>4. v.regime \in {"andromeda", "supernova"} /\ v.captured \in Nat /\ v.cached \in Nat
  BY <1>3 DEF Fetches
<1>5. Ttl[v.regime] \in Nat /\ MaxDelay \in Nat /\ anow \in Nat
  BY <1>4, Lifetimes DEF RegimeInv
<1>6. anow - v.captured < Ttl[v.regime] + MaxDelay
  BY <1>2, <1>3, <1>4, <1>5
<1>7. Given(v, anow)
  BY <1>3, <1>4, <1>6 DEF Given
<1>8. QED
  BY <1>7 DEF v

\* The fallback invents no andromeda.
LEMMA FallbackGiven ==
    ASSUME RegimeInv
    PROVE  Given(Anchor!Fallback, anow)
<1>1. CASE Anchor!Loaded # Anchor!NoVerdict
  <2> DEFINE v == Anchor!Loaded
             g == [v EXCEPT !.source = "cache"]
  <2>1. v \in Fetches /\ v.captured <= anow /\ Held(v.captured) = v.regime
    BY <1>1, LoadedCached DEF Cached
  <2>2. Anchor!Fallback = g
    BY <1>1 DEF Anchor!Fallback
  <2> HIDE DEF v
  <2>3. g.captured = v.captured /\ g.source = "cache" /\ g.regime = v.regime /\ v.captured \in Nat
    BY <2>1 DEF Fetches
  <2> HIDE DEF g
  <2>4. Given(g, anow)
    BY <2>1, <2>3 DEF Given
  <2>5. QED
    BY <2>2, <2>4
<1>2. CASE Anchor!Loaded = Anchor!NoVerdict
  <2> DEFINE g == [regime |-> "supernova", source |-> "fail_closed_default", captured |-> anow,
                   cached |-> anow]
  <2>1. Anchor!Fallback = g
    BY <1>2 DEF Anchor!Fallback
  <2>2. g.captured = anow /\ g.source = "fail_closed_default" /\ g.regime = "supernova"
    OBVIOUS
  <2>3. anow \in Nat
    BY DEF RegimeInv
  <2> HIDE DEF g
  <2>4. Given(g, anow)
    BY <2>2, <2>3 DEF Given
  <2>5. QED
    BY <2>1, <2>4
<1>3. QED
  BY <1>1, <1>2

\* A fetched verdict may be cached, and given when the request is over.
LEMMA FetchedGood ==
    ASSUME RegimeInv, NEW d \in 0..MaxDelay
    PROVE  Cached(Anchor!Fetched(d)) /\ Given(Anchor!Fetched(d), anow + d)
<1> DEFINE v == [regime |-> network.regime, source |-> "network_config", captured |-> anow,
                 cached |-> anow + d]
<1>0. MaxDelay \in Nat /\ anow \in Nat /\ network.regime \in {"andromeda", "supernova"}
      /\ network.since \in Nat /\ network.since <= anow
  BY Lifetimes DEF RegimeInv
<1>1. Anchor!Fetched(d) = v
  BY DEF Anchor!Fetched
<1>2. v \in Fetches
  BY <1>0 DEF Fetches
<1>3. v.regime = network.regime /\ v.source = "network_config" /\ v.captured = anow /\ v.cached = anow + d
  OBVIOUS
<1> HIDE DEF v
<1>4. Held(v.captured) = v.regime
  BY <1>0, <1>3 DEF Held
<1>5. v.captured <= anow /\ v.captured <= v.cached /\ v.cached <= v.captured + MaxDelay
  BY <1>0, <1>3
<1>6. Ttl[v.regime] \in Nat \ {0}
  BY <1>0, <1>3, Lifetimes
<1>7. anow + d - v.captured < Ttl[v.regime] + MaxDelay
  BY <1>0, <1>3, <1>6
<1>8. QED
  BY <1>0, <1>1, <1>2, <1>3, <1>4, <1>5, <1>7 DEF Cached, Given

\* Whatever is then cached and given.
LEMMA RegimeClosed ==
    ASSUME RegimeInv, anow' \in Nat, anow <= anow',
           \/ network' = network
           \/ /\ network.regime = "andromeda" /\ anow < anow'
              /\ network' = [regime |-> "supernova", since |-> anow'],
           NEW c, NEW f, NEW g, NEW t,
           acache' = c, disk' = f, verdict' = g, aasked' = t,
           c = Anchor!Unread \/ Cached(c), Cached(f), Given(g, t)
    PROVE  RegimeInv'
<1>1. /\ network' \in [regime: {"andromeda", "supernova"}, since: Nat]
      /\ network'.since <= anow'
  BY DEF RegimeInv
<1>2. Cached(c) => Cached(c)'
  BY RegimeKept
<1>3. Cached(f)' /\ Given(g, t)'
  BY RegimeKept
<1>4. Cached(disk)'
  BY <1>3 DEF Cached, Held
<1>5. (acache = Anchor!Unread \/ Cached(acache))'
  <2>1. Anchor!Unread' = Anchor!Unread
    BY DEF Anchor!Unread, Anchor!NoVerdict
  <2>2. CASE c = Anchor!Unread
    BY <2>1, <2>2
  <2>3. CASE Cached(c)
    BY <1>2, <2>3 DEF Cached, Held
  <2>4. QED
    BY <2>2, <2>3
<1>6. Given(verdict, aasked)'
  BY <1>3 DEF Given, Held
<1>7. QED
  BY <1>1, <1>4, <1>5, <1>6 DEF RegimeInv

\* The steps of the regime detector and of the chain.
LEMMA RegimeSteps ==
    ASSUME RegimeInv, Anchor!Next
    PROVE  RegimeInv'
<1>t. anow \in Nat /\ MaxDelay \in Nat
  BY Lifetimes DEF RegimeInv
<1>p. PICK c, f, g, t : acache' = c /\ disk' = f /\ verdict' = g /\ aasked' = t
  OBVIOUS
<1>n. Cached(Anchor!NoVerdict)
  BY DEF Cached
<1>k. ASSUME UNCHANGED <<network, anow, acache, disk, verdict, aasked>>
      PROVE  RegimeInv'
  BY <1>k DEF RegimeInv, Cached, Given, Held
<1>c. ASSUME network' = network, anow' \in Nat, anow <= anow',
             c = Anchor!Unread \/ Cached(c), Cached(f), Given(g, t)
      PROVE  RegimeInv'
  BY <1>c, <1>p, RegimeClosed
<1>l. Cached(Anchor!Loaded)
  BY LoadedCached
<1>1. CASE Anchor!Tick
  <2>1. /\ anow' = anow + 1
        /\ UNCHANGED <<acache, disk, verdict, aasked>>
        /\ \/ network' = network
           \/ network.regime = "andromeda" /\ network' = [regime |-> "supernova", since |-> anow']
    BY <1>1 DEF Anchor!Tick, Anchor!regimeVars
  <2>2. anow' \in Nat /\ anow < anow' /\ anow <= anow'
    BY <2>1, <1>t
  <2>3. (c = Anchor!Unread \/ Cached(c)) /\ Cached(f) /\ Given(g, t)
    BY <2>1, <1>p DEF RegimeInv
  <2>4. QED
    BY <2>1, <2>2, <2>3, <1>p, RegimeClosed
<1>2. CASE Anchor!Refresh
  <2>1. UNCHANGED <<network, anow>>
    BY <1>2 DEF Anchor!Refresh, Anchor!chainVars
  <2>2. CASE Anchor!Put(Anchor!Fetched(0)) /\ verdict' = Anchor!Fetched(0) /\ aasked' = anow
    <3>1. Cached(Anchor!Fetched(0)) /\ Given(Anchor!Fetched(0), anow)
      <4>1. 0 \in 0..MaxDelay /\ anow + 0 = anow
        BY <1>t
      <4>2. QED
        BY <4>1, FetchedGood
    <3>2. acache' = Anchor!Fetched(0) /\ disk' \in {Anchor!Fetched(0), disk}
      BY <2>2 DEF Anchor!Put
    <3>3. Cached(c) /\ Cached(f) /\ Given(g, t)
      BY <3>1, <3>2, <2>2, <1>p DEF RegimeInv
    <3>4. QED
      BY <3>3, <2>1, <1>t, <1>c
  <2>3. CASE verdict' = Anchor!Fallback /\ acache' = Anchor!Loaded /\ aasked' = anow /\ UNCHANGED disk
    <3>1. Cached(c) /\ Cached(f) /\ Given(g, t)
      BY <2>3, <1>p, <1>l, FallbackGiven DEF RegimeInv
    <3>2. QED
      BY <3>1, <2>1, <1>t, <1>c
  <2>4. QED
    BY <1>2, <2>2, <2>3 DEF Anchor!Refresh
<1>3. CASE Anchor!OnEpochTransition
  <2>1. UNCHANGED <<network, anow, verdict, aasked>> /\ Anchor!Put(Anchor!Fetched(0))
    BY <1>3 DEF Anchor!OnEpochTransition, Anchor!chainVars
  <2>2. Cached(Anchor!Fetched(0))
    <3>1. 0 \in 0..MaxDelay
      BY <1>t
    <3>2. QED
      BY <3>1, FetchedGood
  <2>3. acache' = Anchor!Fetched(0) /\ disk' \in {Anchor!Fetched(0), disk}
    BY <2>1 DEF Anchor!Put
  <2>4. Cached(c) /\ Cached(f) /\ Given(g, t)
    BY <2>1, <2>2, <2>3, <1>p DEF RegimeInv
  <2>5. QED
    BY <2>1, <2>4, <1>t, <1>c
<1>4. CASE Anchor!Invalidate
  <2>1. UNCHANGED <<network, anow, verdict, aasked>> /\ acache' = Anchor!NoVerdict
        /\ disk' \in {Anchor!NoVerdict, disk}
    BY <1>4 DEF Anchor!Invalidate, Anchor!chainVars
  <2>2. Cached(c) /\ Cached(f) /\ Given(g, t)
    BY <2>1, <1>n, <1>p DEF RegimeInv
  <2>3. QED
    BY <2>1, <2>2, <1>t, <1>c
<1>5. CASE Anchor!Restart
  <2>1. UNCHANGED <<network, anow, verdict, aasked, disk>> /\ acache' = Anchor!Unread
    BY <1>5 DEF Anchor!Restart, Anchor!chainVars
  <2>2. c = Anchor!Unread /\ Cached(f) /\ Given(g, t)
    BY <2>1, <1>p DEF RegimeInv
  <2>3. QED
    BY <2>1, <2>2, <1>t, <1>c
<1>6. CASE Anchor!Submit
  <2>0. Anchor!Current
    BY <1>6 DEF Anchor!Submit
  <2>1. CASE /\ Anchor!IsFresh(Anchor!Loaded)
             /\ verdict' = Anchor!Loaded /\ acache' = Anchor!Loaded /\ aasked' = anow
             /\ UNCHANGED <<disk, anow, network>>
    <3>1. Cached(c) /\ Cached(f) /\ Given(g, t)
      BY <2>1, <1>p, <1>l, FreshGiven DEF RegimeInv
    <3>2. QED
      BY <2>1, <3>1, <1>t, <1>c
  <2>2. ASSUME NEW d \in 0..MaxDelay, anow' = anow + d, Anchor!Put(Anchor!Fetched(d)),
               verdict' = Anchor!Fetched(d), aasked' = anow', UNCHANGED network
        PROVE  RegimeInv'
    <3>1. Cached(Anchor!Fetched(d)) /\ Given(Anchor!Fetched(d), anow + d)
      BY <2>2, FetchedGood
    <3>2. acache' = Anchor!Fetched(d) /\ disk' \in {Anchor!Fetched(d), disk}
      BY <2>2 DEF Anchor!Put
    <3>3. Cached(c) /\ Cached(f) /\ Given(g, t)
      BY <3>1, <3>2, <2>2, <1>p DEF RegimeInv
    <3>4. anow' \in Nat /\ anow <= anow'
      BY <2>2, <1>t
    <3>5. QED
      BY <3>3, <3>4, <2>2, <1>c
  <2>3. CASE /\ verdict' = Anchor!Fallback /\ acache' = Anchor!Loaded /\ aasked' = anow
             /\ UNCHANGED <<disk, anow, network>>
    <3>1. Cached(c) /\ Cached(f) /\ Given(g, t)
      BY <2>3, <1>p, <1>l, FallbackGiven DEF RegimeInv
    <3>2. QED
      BY <3>1, <2>3, <1>t, <1>c
  <2>4. QED
    BY <2>0, <2>1, <2>2, <2>3, Zenon DEF Anchor!Current
<1>7. CASE \/ Anchor!Include \/ Anchor!Execute \/ Anchor!WatchStart \/ Anchor!PollInclusion
           \/ Anchor!Terminal \/ Anchor!WatchFails
           \/ \E others \in {"none", "executed", "failed"} : Anchor!PollSettling(others)
           \/ \E ev \in {"reject", "t1_timeout", "t3_timeout", "stuck_timeout"} : Anchor!CallerEvent(ev)
  <2>1. UNCHANGED <<network, anow, acache, disk, verdict, aasked>>
    BY <1>7, Zenon DEF Anchor!Include, Anchor!Execute, Anchor!WatchStart, Anchor!PollInclusion,
       Anchor!Terminal, Anchor!WatchFails, Anchor!PollSettling, Anchor!CallerEvent,
       Anchor!chainVars, Anchor!regimeVars
  <2>2. QED
    BY <2>1, <1>k
<1>8. QED
  BY <1>1, <1>2, <1>3, <1>4, <1>5, <1>6, <1>7, Zenon DEF Anchor!Next

\* The detector does not notice the steps of the other services.
LEMMA RegimeAlone ==
    ASSUME RegimeInv, UNCHANGED anchorVars
    PROVE  RegimeInv'
<1>1. UNCHANGED <<network, anow, acache, disk, verdict, aasked>>
  BY DEF anchorVars
<1>2. QED
  BY <1>1 DEF RegimeInv, Cached, Given, Held

\* What the invariant is for.
LEMMA RegimeTold == RegimeInv => Anchor!RegimeEvidence
BY DEF RegimeInv, Given, Held, Anchor!RegimeEvidence

(* Anchoring (multiversx/), whatever the number of polls, the lifetimes of a  *)
(* verdict and the delay of a request: the audit of the logged entries says   *)
(* what became of the transaction, over timeouts, resubmissions and broken    *)
(* watches, and a verdict of the regime detector that is not a fallback was   *)
(* true less than one lifetime and one request before it was given.           *)
THEOREM AnchoringIsSound == Spec => []AnchoringSound
<1> DEFINE Inv == OutcomeInv /\ RegimeInv
<1>1. Init => Inv
  BY OutcomeStarts, RegimeStarts DEF Init
<1>2. ASSUME Inv, [Next]_<<part, anchorVars, codecVars, lifeVars, relayVars, traceVars,
                     securityVars, artifactsVars, coverageVars, trackerVars, copyVars>>
      PROVE  Inv'
  <2>1. UNCHANGED anchorVars => Inv'
    BY <1>2, OutcomeAlone, RegimeAlone
  <2>2. Anchor!Next => Inv'
    BY <1>2, OutcomeSteps, RegimeSteps
  <2>3. UNCHANGED anchorVars \/ Anchor!Next
    BY <1>2, Zenon DEF Next
  <2>4. QED
    BY <2>1, <2>2, <2>3
<1>3. Inv => AnchoringSound
  BY OutcomeTold, RegimeTold DEF AnchoringSound
<1>4. QED
  BY <1>1, <1>2, <1>3, PTL DEF Spec

-----------------------------------------------------------------------------
(* The index copies of agents.                                             *)

IdxFiles == [time: Nat, size: Nat]
Works == [do: {"idle", "look", "load", "write", "record"}, at: Nat, got: Seq(Nat),
          fill: {"no", "ensure", "helper"}]
Copys == [index: Seq(Nat), times: Seq(Nat)]

\* A call that fills the copy.
Fills(w) == w.do \in {"load", "record"} \/ w.fill # "no"

\* A copy whose times were those of the files when it was what they held: a
\* file that still has its time still has its content.
Paired(c) ==
  \/ c.index = <<>> \/ c.times = <<>>
  \/ /\ Len(c.index) = Files /\ Len(c.times) = Files
     /\ \A i \in 1..Files : /\ c.times[i] <= idx[i].time
                            /\ c.times[i] = idx[i].time => c.index[i] = idx[i].size

\* A call that nobody disturbed has read, or written, what the files hold.
CallUndisturbed(w, c) ==
  /\ ~Fills(w) => Paired(c)
  /\ w.do = "load" => Len(w.got) = w.at - 1 /\ \A i \in 1..(w.at - 1) : w.got[i] = idx[i].size
  /\ w.do = "write" /\ w.fill # "no" => \A i \in 1..(w.at - 1) : w.got[1] = idx[i].size
  /\ w.do = "record" => /\ Len(c.index) = Files /\ \A i \in 1..Files : c.index[i] = idx[i].size
                        /\ Len(w.got) = w.at - 1 /\ \A i \in 1..(w.at - 1) : w.got[i] = idx[i].time

Proper(w, c, r) ==
  /\ w \in Works /\ c \in Copys /\ r \in BOOLEAN
  /\ w.at \in 1..(Files + 1)
  /\ w.do \in {"idle", "look"} => w.fill = "no"
  /\ w.do = "write" => w.at <= Files /\ Len(w.got) = 1
  /\ r = FALSE => CallUndisturbed(w, c)

\* The inductive invariant of the copies.
CopiesInv ==
  /\ logged \in Nat /\ idx \in [1..Files -> IdxFiles]
  /\ work \in [Agents -> Works] /\ cached \in [Agents -> Copys] /\ raced \in [Agents -> BOOLEAN]
  /\ \A p \in Agents : Proper(work[p], cached[p], raced[p])

\* No file, no copy and no call.
LEMMA CopiesStart == Copies!AiInit => CopiesInv
<1> SUFFICES ASSUME Copies!AiInit PROVE CopiesInv
  OBVIOUS
<1> DEFINE w == [do |-> "idle", at |-> 1, got |-> <<>>, fill |-> "no"]
           c == [index |-> <<>>, times |-> <<>>]
<1>1. /\ logged = 0 /\ idx = [i \in 1..Files |-> [time |-> 0, size |-> 0]]
      /\ work = [p \in Agents |-> w] /\ cached = [p \in Agents |-> c]
      /\ raced = [p \in Agents |-> FALSE]
  BY DEF Copies!AiInit, Copies!Idle, Copies!NoneYet
<1>2. w \in Works /\ c \in Copys /\ w.do = "idle" /\ w.fill = "no" /\ w.at = 1 /\ c.index = <<>>
  BY DEF Works, Copys
<1> HIDE DEF w, c
<1>3. CallUndisturbed(w, c)
  BY <1>2 DEF CallUndisturbed, Fills, Paired
<1>4. Proper(w, c, FALSE)
  BY <1>2, <1>3, SomeFiles DEF Proper
<1>5. idx \in [1..Files -> IdxFiles]
  BY <1>1 DEF IdxFiles
<1>6. work \in [Agents -> Works] /\ cached \in [Agents -> Copys]
  BY <1>1, <1>2
<1>7. raced \in [Agents -> BOOLEAN]
  BY <1>1, Zenon
<1>8. \A p \in Agents : Proper(work[p], cached[p], raced[p])
  BY <1>1, <1>4
<1>9. QED
  BY <1>1, <1>5, <1>6, <1>7, <1>8 DEF CopiesInv

\* The next modification time is later than all before.
LEMMA LastTimeFacts ==
    ASSUME idx \in [1..Files -> IdxFiles]
    PROVE  Copies!LastTime \in Nat /\ \A i \in 1..Files : idx[i].time <= Copies!LastTime
<1> DEFINE T == {idx[i].time : i \in 1..Files}
<1>1. T \subseteq Nat /\ T # {}
  <2>1. 1 \in 1..Files
    BY SomeFiles
  <2>2. \A i \in 1..Files : idx[i].time \in Nat
    BY DEF IdxFiles
  <2>3. QED
    BY <2>1, <2>2
<1>2. IsFiniteSet(T)
  <2>1. IsFiniteSet(1..Files)
    BY SomeFiles, FS_Interval
  <2> DEFINE f == [i \in 1..Files |-> idx[i].time]
  <2>2. T = {f[i] : i \in 1..Files}
    OBVIOUS
  <2>3. f \in Surjection(1..Files, T)
    BY DEF Surjection
  <2>4. QED
    BY <2>1, <2>3, FS_Surjection
<1> HIDE DEF T
<1> DEFINE B == {b \in Nat : \A t \in T : t <= b}
<1>3. B # {}
  BY <1>1, <1>2, FiniteBounded
<1>4. PICK b \in B : \A x \in B : ~(x < b)
  BY <1>3, LeastNat
<1>5. b \in T
  <2>1. SUFFICES ASSUME b \notin T PROVE FALSE
    OBVIOUS
  <2>2. PICK t \in T : TRUE
    BY <1>1
  <2>3. t < b /\ t \in Nat /\ b \in Nat
    <3>1. t \in Nat /\ b \in Nat /\ t <= b
      BY <1>1, <1>4
    <3>2. t # b
      BY <2>1, <2>2
    <3>3. QED
      BY <3>1, <3>2
  <2>4. b - 1 \in Nat /\ b - 1 < b
    BY <2>3
  <2>5. \A u \in T : u <= b - 1
    <3>1. ASSUME NEW u \in T PROVE u \in Nat /\ u <= b /\ u # b
      BY <1>1, <1>4, <2>1
    <3>2. QED
      BY <3>1, <2>3
  <2>6. b - 1 \in B
    BY <2>4, <2>5
  <2>7. QED
    BY <2>4, <2>6, <1>4
<1>6. \A u \in T : u <= b
  BY <1>4
<1>7. (CHOOSE t \in T : \A u \in T : u <= t) \in T
      /\ \A u \in T : u <= (CHOOSE t \in T : \A v \in T : v <= t)
  BY <1>5, <1>6
<1>8. Copies!LastTime = CHOOSE t \in T : \A u \in T : u <= t
  BY DEF Copies!LastTime, T
<1>9. \A i \in 1..Files : idx[i].time \in T
  BY DEF T
<1>10. QED
  BY <1>1, <1>7, <1>8, <1>9

\* A step of one agent that replaces no file.
LEMMA CopyStep ==
    ASSUME CopiesInv, logged' \in Nat, UNCHANGED idx, NEW p \in Agents, NEW w, NEW c, NEW r,
           work' = [work EXCEPT ![p] = w], cached' = [cached EXCEPT ![p] = c],
           raced' = [raced EXCEPT ![p] = r], Proper(w, c, r)
    PROVE  CopiesInv'
<1>1. work \in [Agents -> Works] /\ cached \in [Agents -> Copys] /\ raced \in [Agents -> BOOLEAN]
      /\ w \in Works /\ c \in Copys /\ r \in BOOLEAN
  BY DEF CopiesInv, Proper
<1>2. work' \in [Agents -> Works] /\ cached' \in [Agents -> Copys]
  BY <1>1
<1>3. raced' \in [Agents -> BOOLEAN]
  BY <1>1, Zenon
<1>4. ASSUME NEW u, NEW v, NEW b, Proper(u, v, b)
      PROVE  Proper(u, v, b)'
  BY <1>4 DEF Proper, CallUndisturbed, Paired
<1>5. ASSUME NEW q \in Agents
      PROVE  Proper(work[q], cached[q], raced[q])'
  <2>1. PICK u, v, b : u = work'[q] /\ v = cached'[q] /\ b = raced'[q]
    OBVIOUS
  <2>2. Proper(u, v, b)
    <3>1. CASE q = p
      <4>1. work'[p] = w /\ cached'[p] = c /\ raced'[p] = r
        BY <1>1
      <4>2. QED
        BY <2>1, <3>1, <4>1
    <3>2. CASE q # p
      <4>1. work'[q] = work[q] /\ cached'[q] = cached[q] /\ raced'[q] = raced[q]
        BY <1>1, <3>2
      <4>2. QED
        BY <2>1, <4>1, <1>5 DEF CopiesInv
    <3>3. QED
      BY <3>1, <3>2
  <2>3. Proper(u, v, b)'
    BY <2>2, <1>4
  <2>4. QED
    BY <2>1, <2>3 DEF Proper, CallUndisturbed, Paired
<1>6. QED
  BY <1>2, <1>3, <1>5 DEF CopiesInv

\* What an agent's call and copy are.
LEMMA CopyFacts ==
    ASSUME CopiesInv, NEW p \in Agents
    PROVE  /\ work[p] \in Works /\ cached[p] \in Copys /\ raced[p] \in BOOLEAN
           /\ work[p] = [do |-> work[p].do, at |-> work[p].at, got |-> work[p].got, fill |-> work[p].fill]
           /\ cached[p] = [index |-> cached[p].index, times |-> cached[p].times]
           /\ Proper(work[p], cached[p], raced[p])
<1>1. work[p] \in Works /\ cached[p] \in Copys
  BY DEF CopiesInv
<1>2. raced[p] \in BOOLEAN
  BY Zenon DEF CopiesInv
<1>3. Proper(work[p], cached[p], raced[p])
  BY DEF CopiesInv
<1>4. QED
  BY <1>1, <1>2, <1>3 DEF Works, Copys

\* An entry is logged.
LEMMA CopiesLog ==
    ASSUME CopiesInv, Copies!LogEntry
    PROVE  CopiesInv'
<1>1. logged' \in Nat /\ UNCHANGED <<idx, cached, work, raced>>
  BY DEF Copies!LogEntry, CopiesInv
<1>2. QED
  BY <1>1 DEF CopiesInv, Proper, CallUndisturbed, Paired

\* A call begins, to build or to look.
LEMMA CopiesBegin ==
    ASSUME CopiesInv, NEW p \in Agents, Copies!IndexSessions(p) \/ Copies!Ask(p)
    PROVE  CopiesInv'
<1> DEFINE w == [do |-> "write", at |-> 1, got |-> <<logged>>, fill |-> "no"]
           v == [do |-> "look", at |-> 1, got |-> <<>>, fill |-> "no"]
<1>0. logged \in Nat /\ cached \in [Agents -> Copys]
  BY DEF CopiesInv
<1>1. /\ UNCHANGED <<logged, idx, cached, raced>> /\ work[p].do = "idle"
      /\ work' = [work EXCEPT ![p] = w] \/ work' = [work EXCEPT ![p] = v]
  BY DEF Copies!IndexSessions, Copies!Ask, Copies!Idle, Copies!Doing
<1>2. /\ w \in Works /\ w.do = "write" /\ w.at = 1 /\ w.fill = "no" /\ Len(w.got) = 1
      /\ v \in Works /\ v.do = "look" /\ v.at = 1 /\ v.fill = "no"
  BY <1>0 DEF Works
<1>3. 1 \in 1..(Files + 1) /\ 1 <= Files
  BY SomeFiles
<1>4. raced[p] = FALSE => Paired(cached[p])
  BY <1>1, CopyFacts DEF Proper, CallUndisturbed, Fills
<1> HIDE DEF w, v
<1>5. cached[p] \in Copys /\ raced[p] \in BOOLEAN
  BY CopyFacts
<1>6. Proper(w, cached[p], raced[p]) /\ Proper(v, cached[p], raced[p])
  BY <1>2, <1>3, <1>4, <1>5 DEF Proper, CallUndisturbed, Fills
<1>7. cached' = [cached EXCEPT ![p] = cached[p]] /\ raced' = [raced EXCEPT ![p] = raced[p]]
  BY <1>1 DEF CopiesInv
<1>8. PICK u, c, r : u = work'[p] /\ c = cached[p] /\ r = raced[p]
  OBVIOUS
<1>9. u \in {w, v} /\ work' = [work EXCEPT ![p] = u]
  BY <1>1, <1>8 DEF CopiesInv
<1>10. QED
  BY <1>0, <1>1, <1>6, <1>7, <1>8, <1>9, CopyStep

\* The call of an agent goes on: what it does next, or the next file.
LEMMA CallForms ==
    ASSUME CopiesInv, NEW p \in Agents
    PROVE  /\ \A what : Copies!Begin(p, what)
                = [work EXCEPT ![p] = [do |-> what, at |-> 1, got |-> <<>>, fill |-> work[p].fill]]
           /\ \A x : [work EXCEPT ![p].at = work[p].at + 1, ![p].got = Append(work[p].got, x)]
                = [work EXCEPT ![p] = [do |-> work[p].do, at |-> work[p].at + 1,
                                       got |-> Append(work[p].got, x), fill |-> work[p].fill]]
           /\ [work EXCEPT ![p].at = work[p].at + 1]
                = [work EXCEPT ![p] = [do |-> work[p].do, at |-> work[p].at + 1,
                                       got |-> work[p].got, fill |-> work[p].fill]]
           /\ \A x : [cached EXCEPT ![p].index = x]
                = [cached EXCEPT ![p] = [index |-> x, times |-> cached[p].times]]
           /\ \A x : [cached EXCEPT ![p].times = x]
                = [cached EXCEPT ![p] = [index |-> cached[p].index, times |-> x]]
<1>1. work \in [Agents -> Works] /\ cached \in [Agents -> Copys]
  BY DEF CopiesInv
<1>2. work[p] = [do |-> work[p].do, at |-> work[p].at, got |-> work[p].got, fill |-> work[p].fill]
      /\ cached[p] = [index |-> cached[p].index, times |-> cached[p].times]
  BY CopyFacts
<1>3. ASSUME NEW u \in Works, NEW x
      PROVE  [u EXCEPT !.do = x, !.at = 1, !.got = <<>>]
               = [do |-> x, at |-> 1, got |-> <<>>, fill |-> u.fill]
  <2>1. PICK g : g = <<>>
    OBVIOUS
  <2>2. PICK v : v = [u EXCEPT !.do = x]
    OBVIOUS
  <2>3. v = [do |-> x, at |-> u.at, got |-> u.got, fill |-> u.fill]
    BY <2>2 DEF Works
  <2>4. PICK y : y = [v EXCEPT !.at = 1]
    OBVIOUS
  <2>5. y = [do |-> x, at |-> 1, got |-> u.got, fill |-> u.fill]
    BY <2>3, <2>4
  <2>6. [y EXCEPT !.got = g] = [do |-> x, at |-> 1, got |-> g, fill |-> u.fill]
    BY <2>5
  <2>7. QED
    BY <2>1, <2>2, <2>4, <2>6, Zenon
<1>a. ASSUME NEW u \in Works, NEW f, NEW x
      PROVE  [u EXCEPT !.at = f, !.got = x] = [do |-> u.do, at |-> f, got |-> x, fill |-> u.fill]
  <2>1. PICK v : v = [u EXCEPT !.at = f]
    OBVIOUS
  <2>2. v = [do |-> u.do, at |-> f, got |-> u.got, fill |-> u.fill]
    BY <2>1 DEF Works
  <2>3. [v EXCEPT !.got = x] = [do |-> u.do, at |-> f, got |-> x, fill |-> u.fill]
    BY <2>2
  <2>4. QED
    BY <2>1, <2>3, Zenon
<1>b. ASSUME NEW u \in Works, NEW f
      PROVE  [u EXCEPT !.at = f] = [do |-> u.do, at |-> f, got |-> u.got, fill |-> u.fill]
  BY DEF Works
<1>4. ASSUME NEW d, NEW e, NEW x, cached[p] = [index |-> d, times |-> e]
      PROVE  /\ [cached[p] EXCEPT !.index = x] = [index |-> x, times |-> e]
             /\ [cached[p] EXCEPT !.times = x] = [index |-> d, times |-> x]
  BY <1>4
<1>5. ASSUME NEW what
      PROVE  Copies!Begin(p, what)
               = [work EXCEPT ![p] = [do |-> what, at |-> 1, got |-> <<>>, fill |-> work[p].fill]]
  <2>1. [work[p] EXCEPT !.do = what, !.at = 1, !.got = <<>>]
          = [do |-> what, at |-> 1, got |-> <<>>, fill |-> work[p].fill]
    BY <1>3, CopyFacts, ZenonT(40)
  <2>2. Copies!Begin(p, what) = [work EXCEPT ![p] = [work[p] EXCEPT !.do = what, !.at = 1, !.got = <<>>]]
    BY <1>1 DEF Copies!Begin
  <2>3. QED
    BY <2>1, <2>2, Zenon
<1>6. ASSUME NEW x
      PROVE  /\ [work EXCEPT ![p].at = work[p].at + 1, ![p].got = Append(work[p].got, x)]
                  = [work EXCEPT ![p] = [do |-> work[p].do, at |-> work[p].at + 1,
                                         got |-> Append(work[p].got, x), fill |-> work[p].fill]]
             /\ [work EXCEPT ![p].at = work[p].at + 1]
                  = [work EXCEPT ![p] = [do |-> work[p].do, at |-> work[p].at + 1,
                                         got |-> work[p].got, fill |-> work[p].fill]]
  <2> DEFINE f == work[p].at + 1
             g == Append(work[p].got, x)
  <2>1. /\ [work[p] EXCEPT !.at = f, !.got = g]
             = [do |-> work[p].do, at |-> f, got |-> g, fill |-> work[p].fill]
        /\ [work[p] EXCEPT !.at = f]
             = [do |-> work[p].do, at |-> f, got |-> work[p].got, fill |-> work[p].fill]
    <3> HIDE DEF f, g
    <3>1. work[p] \in Works
      BY CopyFacts
    <3>2. QED
      BY <3>1, <1>a, <1>b
  <2>2. /\ [work EXCEPT ![p].at = f, ![p].got = g] = [work EXCEPT ![p] = [work[p] EXCEPT !.at = f, !.got = g]]
        /\ [work EXCEPT ![p].at = f] = [work EXCEPT ![p] = [work[p] EXCEPT !.at = f]]
    <3> HIDE DEF f, g
    <3>1. QED
      BY <1>1
  <2>3. QED
    BY <2>1, <2>2, Zenon
<1>7. ASSUME NEW x
      PROVE  /\ [cached EXCEPT ![p].index = x]
                  = [cached EXCEPT ![p] = [index |-> x, times |-> cached[p].times]]
             /\ [cached EXCEPT ![p].times = x]
                  = [cached EXCEPT ![p] = [index |-> cached[p].index, times |-> x]]
  <2>1. /\ [cached[p] EXCEPT !.index = x] = [index |-> x, times |-> cached[p].times]
        /\ [cached[p] EXCEPT !.times = x] = [index |-> cached[p].index, times |-> x]
    BY <1>2, <1>4
  <2>2. /\ [cached EXCEPT ![p].index = x] = [cached EXCEPT ![p] = [cached[p] EXCEPT !.index = x]]
        /\ [cached EXCEPT ![p].times = x] = [cached EXCEPT ![p] = [cached[p] EXCEPT !.times = x]]
    BY <1>1
  <2>3. QED
    BY <2>1, <2>2, Zenon
<1>8. QED
  BY <1>5, <1>6, <1>7, Zenon

\* What a call may look like that builds, starts to fill, or is over.
LEMMA CallShapes ==
    ASSUME CopiesInv, NEW c \in Copys, NEW r \in BOOLEAN
    PROVE  /\ \A e \in {"ensure", "helper"} :
                Proper([do |-> "write", at |-> 1, got |-> <<logged>>, fill |-> e], c, r)
           /\ Proper([do |-> "load", at |-> 1, got |-> <<>>, fill |-> "no"], c, FALSE)
           /\ (r = FALSE => Paired(c)) =>
                Proper([do |-> "idle", at |-> 1, got |-> <<>>, fill |-> "no"], c, r)
           /\ \A e \in {"no", "ensure", "helper"} :
                (r = FALSE => Len(c.index) = Files /\ \A i \in 1..Files : c.index[i] = idx[i].size) =>
                  Proper([do |-> "record", at |-> 1, got |-> <<>>, fill |-> e], c, r)
<1>0. 1 \in 1..(Files + 1) /\ 1 <= Files /\ logged \in Nat /\ 1 - 1 = 0
  BY SomeFiles DEF CopiesInv
<1>1. ASSUME NEW e \in {"ensure", "helper"}
      PROVE  Proper([do |-> "write", at |-> 1, got |-> <<logged>>, fill |-> e], c, r)
  <2> DEFINE w == [do |-> "write", at |-> 1, got |-> <<logged>>, fill |-> e]
  <2>1. w \in Works /\ w.do = "write" /\ w.at = 1 /\ w.fill = e /\ Len(w.got) = 1
    BY <1>0, <1>1 DEF Works
  <2> HIDE DEF w
  <2>2. Proper(w, c, r)
    BY <1>0, <1>1, <2>1 DEF Proper, CallUndisturbed, Fills
  <2>3. QED
    BY <2>2 DEF w
<1>2. Proper([do |-> "load", at |-> 1, got |-> <<>>, fill |-> "no"], c, FALSE)
  <2> DEFINE w == [do |-> "load", at |-> 1, got |-> <<>>, fill |-> "no"]
  <2>1. w \in Works /\ w.do = "load" /\ w.at = 1 /\ w.fill = "no" /\ Len(w.got) = 0
    BY <1>0 DEF Works
  <2> HIDE DEF w
  <2>2. Proper(w, c, FALSE)
    BY <1>0, <2>1 DEF Proper, CallUndisturbed, Fills
  <2>3. QED
    BY <2>2 DEF w
<1>3. ASSUME r = FALSE => Paired(c)
      PROVE  Proper([do |-> "idle", at |-> 1, got |-> <<>>, fill |-> "no"], c, r)
  <2> DEFINE w == [do |-> "idle", at |-> 1, got |-> <<>>, fill |-> "no"]
  <2>1. w \in Works /\ w.do = "idle" /\ w.at = 1 /\ w.fill = "no"
    BY <1>0 DEF Works
  <2> HIDE DEF w
  <2>2. Proper(w, c, r)
    BY <1>0, <1>3, <2>1 DEF Proper, CallUndisturbed, Fills
  <2>3. QED
    BY <2>2 DEF w
<1>4. ASSUME NEW e \in {"no", "ensure", "helper"},
             r = FALSE => Len(c.index) = Files /\ \A i \in 1..Files : c.index[i] = idx[i].size
      PROVE  Proper([do |-> "record", at |-> 1, got |-> <<>>, fill |-> e], c, r)
  <2> DEFINE w == [do |-> "record", at |-> 1, got |-> <<>>, fill |-> e]
  <2>1. w \in Works /\ w.do = "record" /\ w.at = 1 /\ w.fill = e /\ Len(w.got) = 0
    BY <1>0, <1>4 DEF Works
  <2> HIDE DEF w
  <2>2. Proper(w, c, r)
    BY <1>0, <1>4, <2>1 DEF Proper, CallUndisturbed, Fills
  <2>3. QED
    BY <2>2 DEF w
<1>5. QED
  BY <1>1, <1>2, <1>3, <1>4

\* An agent looks whether its copy is the one the files hold.
LEMMA CopiesLook ==
    ASSUME CopiesInv, NEW p \in Agents, Copies!Look(p)
    PROVE  CopiesInv'
<1>0. UNCHANGED <<logged, idx, cached>> /\ work[p].do = "look" /\ logged' \in Nat
  BY DEF Copies!Look, Copies!Doing, CopiesInv
<1>1. /\ work[p] \in Works /\ work[p].fill = "no" /\ work[p].at \in 1..(Files + 1)
      /\ work[p].got \in Seq(Nat) /\ cached[p] \in Copys /\ raced[p] \in BOOLEAN
      /\ raced[p] = FALSE => Paired(cached[p])
  BY <1>0, CopyFacts DEF Proper, CallUndisturbed, Fills, Works
<1>2. PICK c, b : c = cached[p] /\ b = raced[p]
  OBVIOUS
<1>3. cached' = [cached EXCEPT ![p] = c] /\ raced = [raced EXCEPT ![p] = b]
  BY <1>0, <1>2 DEF CopiesInv
<1>4. CASE Copies!Stat(p) /\ UNCHANGED raced
  <2>1. work[p].at <= Files /\ idx[work[p].at].time \in Nat
    <3>1. work[p].at \in 1..Files
      BY <1>1, <1>4, SomeFiles DEF Copies!Stat
    <3>2. QED
      BY <3>1, SomeFiles DEF CopiesInv, IdxFiles
  <2>2. PICK w : w = [do |-> "look", at |-> work[p].at + 1,
                      got |-> Append(work[p].got, idx[work[p].at].time), fill |-> "no"]
    OBVIOUS
  <2>3. work' = [work EXCEPT ![p] = w]
    <3>1. PICK x : x = idx[work[p].at].time
      OBVIOUS
    <3>2. work' = [work EXCEPT ![p].at = work[p].at + 1, ![p].got = Append(work[p].got, x)]
      BY <1>4, <3>1 DEF Copies!Stat
    <3>3. work' = [work EXCEPT ![p] = [do |-> work[p].do, at |-> work[p].at + 1,
                                       got |-> Append(work[p].got, x), fill |-> work[p].fill]]
      BY <3>2, CallForms
    <3>4. QED
      BY <3>1, <3>3, <1>0, <1>1, <2>2, Zenon
  <2>4. w \in Works /\ w.do = "look" /\ w.fill = "no" /\ w.at \in 1..(Files + 1)
    BY <1>1, <2>1, <2>2, SomeFiles DEF Works
  <2>5. Proper(w, c, b)
    BY <1>1, <1>2, <2>4 DEF Proper, CallUndisturbed, Fills
  <2>6. QED
    BY <1>0, <1>3, <1>4, <2>3, <2>5, CopyStep
<1>5. CASE work' = [work EXCEPT ![p] = Copies!Idle] /\ UNCHANGED raced
  <2>1. PICK w : w = [do |-> "idle", at |-> 1, got |-> <<>>, fill |-> "no"]
    OBVIOUS
  <2>2. work' = [work EXCEPT ![p] = w]
    BY <1>5, <2>1 DEF Copies!Idle
  <2>3. Proper(w, c, b)
    BY <1>1, <1>2, <2>1, CallShapes
  <2>4. QED
    BY <1>0, <1>3, <1>5, <2>2, <2>3, CopyStep
<1>6. CASE work' = Copies!Begin(p, "load") /\ raced' = [raced EXCEPT ![p] = FALSE]
  <2>1. PICK w : w = [do |-> "load", at |-> 1, got |-> <<>>, fill |-> "no"]
    OBVIOUS
  <2>2. work' = [work EXCEPT ![p] = w]
    <3>1. work' = [work EXCEPT ![p] = [do |-> "load", at |-> 1, got |-> <<>>, fill |-> work[p].fill]]
      BY <1>6, CallForms, ZenonT(40)
    <3>2. QED
      BY <3>1, <1>1, <2>1, Zenon
  <2>3. Proper(w, c, FALSE)
    BY <1>1, <1>2, <2>1, CallShapes
  <2>4. QED
    BY <1>0, <1>3, <1>6, <2>2, <2>3, CopyStep
<1>7. QED
  BY <1>4, <1>5, <1>6, Zenon DEF Copies!Look

\* One more file is read: what was read so far and the next.
LEMMA NextRead ==
    ASSUME NEW g \in Seq(Nat), NEW a \in Nat, a >= 1, NEW x \in Nat, NEW f,
           Len(g) = a - 1, \A i \in 1..(a - 1) : g[i] = f[i], x = f[a]
    PROVE  Len(Append(g, x)) = a /\ \A i \in 1..a : Append(g, x)[i] = f[i]
<1>1. Len(Append(g, x)) = Len(g) + 1
  OBVIOUS
<1>2. ASSUME NEW i \in 1..a
      PROVE  Append(g, x)[i] = f[i]
  <2>1. CASE i = a
    <3>1. i = Len(g) + 1
      BY <2>1
    <3>2. Append(g, x)[i] = x
      BY <3>1
    <3>3. QED
      BY <2>1, <3>2
  <2>2. CASE i # a
    <3>1. i \in 1..Len(g) /\ i \in 1..(a - 1)
      BY <1>2, <2>2
    <3>2. Append(g, x)[i] = g[i]
      BY <3>1
    <3>3. QED
      BY <3>1, <3>2
  <2>3. QED
    BY <2>1, <2>2
<1>3. QED
  BY <1>1, <1>2

\* An agent reads the files, or builds them first.
LEMMA CopiesLoad ==
    ASSUME CopiesInv, NEW p \in Agents, Copies!Load(p)
    PROVE  CopiesInv'
<1>0. UNCHANGED <<logged, idx, raced>> /\ work[p].do = "load" /\ logged' \in Nat
  BY DEF Copies!Load, Copies!Doing, CopiesInv
<1>1. /\ work[p] \in Works /\ work[p].fill \in {"no", "ensure", "helper"} /\ work[p].at \in 1..(Files + 1)
      /\ work[p].got \in Seq(Nat) /\ cached[p] \in Copys /\ raced[p] \in BOOLEAN
      /\ raced[p] = FALSE => /\ Len(work[p].got) = work[p].at - 1
                             /\ \A i \in 1..(work[p].at - 1) : work[p].got[i] = idx[i].size
  BY <1>0, CopyFacts DEF Proper, CallUndisturbed, Works
<1>2. PICK c, b : c = cached[p] /\ b = raced[p]
  OBVIOUS
<1>3. cached = [cached EXCEPT ![p] = c] /\ raced' = [raced EXCEPT ![p] = b]
  BY <1>0, <1>2 DEF CopiesInv
<1>4. ASSUME NEW e \in {"ensure", "helper"}, Copies!Build(p, e)
      PROVE  CopiesInv'
  <2>1. PICK w : w = [do |-> "write", at |-> 1, got |-> <<logged>>, fill |-> e]
    OBVIOUS
  <2>2. work' = [work EXCEPT ![p] = w] /\ UNCHANGED cached
    BY <1>4, <2>1 DEF Copies!Build
  <2>3. Proper(w, c, b)
    BY <1>1, <1>2, <1>4, <2>1, CallShapes
  <2>4. QED
    BY <1>0, <1>3, <2>2, <2>3, CopyStep
<1>5. CASE /\ work[p].at <= Files
           /\ work' = [work EXCEPT ![p].at = @ + 1, ![p].got = Append(@, idx[work[p].at].size)]
           /\ UNCHANGED <<cached, builds>>
  <2>0. work[p].at \in 1..Files
    BY <1>1, <1>5, SomeFiles
  <2>1. PICK x : x = idx[work[p].at].size
    OBVIOUS
  <2>2. x \in Nat
    BY <2>0, <2>1 DEF CopiesInv, IdxFiles
  <2>3. PICK w : w = [do |-> "load", at |-> work[p].at + 1, got |-> Append(work[p].got, x),
                      fill |-> work[p].fill]
    OBVIOUS
  <2>4. work' = [work EXCEPT ![p] = w]
    <3>1. work' = [work EXCEPT ![p].at = work[p].at + 1, ![p].got = Append(work[p].got, x)]
      BY <1>5, <2>1
    <3>2. work' = [work EXCEPT ![p] = [do |-> work[p].do, at |-> work[p].at + 1,
                                       got |-> Append(work[p].got, x), fill |-> work[p].fill]]
      BY <3>1, CallForms
    <3>3. QED
      BY <3>2, <1>0, <2>3, Zenon
  <2>5. /\ w \in Works /\ w.do = "load" /\ w.at = work[p].at + 1 /\ w.at \in 1..(Files + 1)
        /\ w.got = Append(work[p].got, x)
    BY <1>1, <2>0, <2>2, <2>3, SomeFiles DEF Works
  <2>6. b = FALSE => Len(w.got) = w.at - 1 /\ \A i \in 1..(w.at - 1) : w.got[i] = idx[i].size
    <3> SUFFICES ASSUME b = FALSE
                 PROVE  Len(w.got) = w.at - 1 /\ \A i \in 1..(w.at - 1) : w.got[i] = idx[i].size
      OBVIOUS
    <3>1. /\ Len(work[p].got) = work[p].at - 1
          /\ \A i \in 1..(work[p].at - 1) : work[p].got[i] = idx[i].size
      BY <1>1, <1>2
    <3>2. PICK g, a, f : /\ g = work[p].got /\ a = work[p].at
                         /\ f = [i \in 1..Files |-> idx[i].size]
      OBVIOUS
    <3>3. /\ g \in Seq(Nat) /\ a \in Nat /\ a >= 1 /\ a <= Files /\ Files \in Nat
          /\ Len(g) = a - 1 /\ w.got = Append(g, x) /\ w.at = a + 1
      BY <1>1, <2>0, <2>5, <3>1, <3>2, SomeFiles
    <3>4. \A i \in 1..Files : f[i] = idx[i].size
      BY <3>2
    <3>5. x = f[a] /\ \A i \in 1..(a - 1) : g[i] = f[i]
      <4>1. \A i \in 1..(a - 1) : i \in 1..Files /\ g[i] = idx[i].size
        BY <3>1, <3>2, <3>3
      <4>2. a \in 1..Files
        BY <3>3
      <4>3. QED
        BY <2>1, <3>2, <3>4, <4>1, <4>2
    <3>6. Len(Append(g, x)) = a /\ \A i \in 1..a : Append(g, x)[i] = f[i]
      BY <2>2, <3>3, <3>5, NextRead
    <3>7. w.at - 1 = a /\ \A i \in 1..a : i \in 1..Files
      BY <3>3
    <3>8. QED
      BY <3>3, <3>4, <3>6, <3>7
  <2>7. Proper(w, c, b)
    BY <1>1, <1>2, <2>5, <2>6 DEF Proper, CallUndisturbed, Fills
  <2>8. QED
    BY <1>0, <1>3, <1>5, <2>4, <2>7, CopyStep
<1>6. CASE work[p].at > Files /\ Copies!Fill(p, work[p].got)
  <2>1. PICK w, d : /\ w = [do |-> "record", at |-> 1, got |-> <<>>, fill |-> work[p].fill]
                    /\ d = [index |-> work[p].got, times |-> cached[p].times]
    OBVIOUS
  <2>2. work' = [work EXCEPT ![p] = w]
    <3>1. work' = [work EXCEPT ![p] = [do |-> "record", at |-> 1, got |-> <<>>, fill |-> work[p].fill]]
      BY <1>6, CallForms, ZenonT(40) DEF Copies!Fill
    <3>2. QED
      BY <3>1, <2>1, Zenon
  <2>3. cached' = [cached EXCEPT ![p] = d]
    BY <1>6, <2>1, CallForms DEF Copies!Fill
  <2>4. d \in Copys /\ d.index = work[p].got
    BY <1>1, <2>1 DEF Copys
  <2>5. b = FALSE => Len(d.index) = Files /\ \A i \in 1..Files : d.index[i] = idx[i].size
    <3>1. work[p].at = Files + 1 /\ work[p].at - 1 = Files
      BY <1>1, <1>6, SomeFiles
    <3>2. QED
      BY <1>1, <1>2, <2>4, <3>1
  <2>6. Proper(w, d, b)
    <3>1. b \in BOOLEAN
      BY <1>1, <1>2
    <3>2. QED
      BY <1>1, <2>1, <2>4, <2>5, <3>1, CallShapes
  <2>7. QED
    BY <1>0, <1>3, <2>2, <2>3, <2>6, CopyStep
<1>7. QED
  BY <1>4, <1>5, <1>6, Zenon DEF Copies!Load

\* An agent notes the times of the files it filled its copy from.
LEMMA CopiesRecord ==
    ASSUME CopiesInv, NEW p \in Agents, Copies!Record(p)
    PROVE  CopiesInv'
<1>0. UNCHANGED <<logged, idx, raced>> /\ work[p].do = "record" /\ logged' \in Nat
  BY DEF Copies!Record, Copies!Doing, CopiesInv
<1>1. /\ work[p] \in Works /\ work[p].fill \in {"no", "ensure", "helper"} /\ work[p].at \in 1..(Files + 1)
      /\ work[p].got \in Seq(Nat) /\ cached[p] \in Copys /\ raced[p] \in BOOLEAN
      /\ raced[p] = FALSE =>
           /\ Len(cached[p].index) = Files /\ \A i \in 1..Files : cached[p].index[i] = idx[i].size
           /\ Len(work[p].got) = work[p].at - 1
           /\ \A i \in 1..(work[p].at - 1) : work[p].got[i] = idx[i].time
  BY <1>0, CopyFacts DEF Proper, CallUndisturbed, Works
<1>2. PICK c, b : c = cached[p] /\ b = raced[p]
  OBVIOUS
<1>3. cached = [cached EXCEPT ![p] = c] /\ raced' = [raced EXCEPT ![p] = b]
  BY <1>0, <1>2 DEF CopiesInv
<1>4. \A i \in 1..Files : idx[i].time \in Nat /\ idx[i].size \in Nat
  BY DEF CopiesInv, IdxFiles
<1>5. CASE Copies!Stat(p) /\ UNCHANGED cached
  <2>0. work[p].at \in 1..Files
    BY <1>1, <1>5, SomeFiles DEF Copies!Stat
  <2>1. PICK x : x = idx[work[p].at].time
    OBVIOUS
  <2>2. x \in Nat
    BY <2>0, <2>1, <1>4
  <2>3. PICK w : w = [do |-> "record", at |-> work[p].at + 1, got |-> Append(work[p].got, x),
                      fill |-> work[p].fill]
    OBVIOUS
  <2>4. work' = [work EXCEPT ![p] = w]
    <3>1. work' = [work EXCEPT ![p].at = work[p].at + 1, ![p].got = Append(work[p].got, x)]
      BY <1>5, <2>1 DEF Copies!Stat
    <3>2. work' = [work EXCEPT ![p] = [do |-> work[p].do, at |-> work[p].at + 1,
                                       got |-> Append(work[p].got, x), fill |-> work[p].fill]]
      BY <3>1, CallForms
    <3>3. QED
      BY <3>2, <1>0, <2>3, Zenon
  <2>5. /\ w \in Works /\ w.do = "record" /\ w.at = work[p].at + 1 /\ w.at \in 1..(Files + 1)
        /\ w.got = Append(work[p].got, x)
    BY <1>1, <2>0, <2>2, <2>3, SomeFiles DEF Works
  <2>6. b = FALSE => Len(w.got) = w.at - 1 /\ \A i \in 1..(w.at - 1) : w.got[i] = idx[i].time
    <3> SUFFICES ASSUME b = FALSE
                 PROVE  Len(w.got) = w.at - 1 /\ \A i \in 1..(w.at - 1) : w.got[i] = idx[i].time
      OBVIOUS
    <3>1. /\ Len(work[p].got) = work[p].at - 1
          /\ \A i \in 1..(work[p].at - 1) : work[p].got[i] = idx[i].time
      BY <1>1, <1>2
    <3>2. PICK g, a, f : /\ g = work[p].got /\ a = work[p].at
                         /\ f = [i \in 1..Files |-> idx[i].time]
      OBVIOUS
    <3>3. /\ g \in Seq(Nat) /\ a \in Nat /\ a >= 1 /\ a <= Files /\ Files \in Nat
          /\ Len(g) = a - 1 /\ w.got = Append(g, x) /\ w.at = a + 1
      BY <1>1, <2>0, <2>5, <3>1, <3>2, SomeFiles
    <3>4. \A i \in 1..Files : f[i] = idx[i].time
      BY <3>2
    <3>5. x = f[a] /\ \A i \in 1..(a - 1) : g[i] = f[i]
      <4>1. \A i \in 1..(a - 1) : i \in 1..Files /\ g[i] = idx[i].time
        BY <3>1, <3>2, <3>3
      <4>2. a \in 1..Files
        BY <3>3
      <4>3. QED
        BY <2>1, <3>2, <3>4, <4>1, <4>2
    <3>6. Len(Append(g, x)) = a /\ \A i \in 1..a : Append(g, x)[i] = f[i]
      BY <2>2, <3>3, <3>5, NextRead
    <3>7. w.at - 1 = a /\ \A i \in 1..a : i \in 1..Files
      BY <3>3
    <3>8. QED
      BY <3>3, <3>4, <3>6, <3>7
  <2>7. Proper(w, c, b)
    BY <1>1, <1>2, <2>5, <2>6 DEF Proper, CallUndisturbed, Fills
  <2>8. QED
    BY <1>0, <1>3, <1>5, <2>4, <2>7, CopyStep
<1>6. CASE /\ cached' = [cached EXCEPT ![p].times = Copies!Times(p)]
           /\ work' = [work EXCEPT ![p] = Copies!Idle]
  <2>1. PICK w, d : /\ w = [do |-> "idle", at |-> 1, got |-> <<>>, fill |-> "no"]
                    /\ d = [index |-> cached[p].index, times |-> Copies!Times(p)]
    OBVIOUS
  <2>2. work' = [work EXCEPT ![p] = w]
    BY <1>6, <2>1 DEF Copies!Idle
  <2>3. cached' = [cached EXCEPT ![p] = d]
    BY <1>6, <2>1, CallForms
  <2>4. Copies!Times(p) \in Seq(Nat)
    BY <1>1 DEF Copies!Times, Copies!NoneYet
  <2>5. d \in Copys /\ d.index = cached[p].index /\ d.times = Copies!Times(p)
    BY <1>1, <2>1, <2>4 DEF Copys
  <2>6. b = FALSE => Paired(d)
    <3> SUFFICES ASSUME b = FALSE, d.times # <<>> PROVE Paired(d)
      BY DEF Paired
    <3>1. work[p].at > Files /\ d.times = work[p].got
      BY <2>5 DEF Copies!Times, Copies!NoneYet
    <3>2. work[p].at - 1 = Files
      BY <1>1, <3>1, SomeFiles, SMTT(30)
    <3>3. /\ Len(d.index) = Files /\ Len(d.times) = Files
          /\ \A i \in 1..Files : d.index[i] = idx[i].size /\ d.times[i] = idx[i].time
      BY <1>1, <1>2, <2>5, <3>1, <3>2
    <3>4. QED
      BY <3>3, <1>4 DEF Paired
  <2>7. Proper(w, d, b)
    <3>1. b \in BOOLEAN
      BY <1>1, <1>2
    <3>2. QED
      BY <2>1, <2>5, <2>6, <3>1, CallShapes
  <2>8. QED
    BY <1>0, <1>3, <2>2, <2>3, <2>7, CopyStep
<1>7. QED
  BY <1>5, <1>6, Zenon DEF Copies!Record

\* A file is replaced: it gets a time later than all before.
LEMMA CopiesWrite ==
    ASSUME CopiesInv, NEW p \in Agents, Copies!Write(p)
    PROVE  CopiesInv'
<1>0. /\ logged \in Nat /\ logged' = logged /\ idx \in [1..Files -> IdxFiles] /\ work[p].do = "write"
      /\ work \in [Agents -> Works] /\ cached \in [Agents -> Copys] /\ Files \in Nat /\ Files >= 1
  BY SomeFiles DEF Copies!Write, Copies!Doing, CopiesInv
<1>1. /\ work[p] \in Works /\ work[p].fill \in {"no", "ensure", "helper"} /\ work[p].at \in 1..Files
      /\ work[p].got \in Seq(Nat) /\ Len(work[p].got) = 1 /\ cached[p] \in Copys /\ raced[p] \in BOOLEAN
      /\ raced[p] = FALSE /\ work[p].fill = "no" => Paired(cached[p])
      /\ raced[p] = FALSE /\ work[p].fill # "no" =>
           \A i \in 1..(work[p].at - 1) : work[p].got[1] = idx[i].size
  <2>1. /\ work[p] \in Works /\ cached[p] \in Copys /\ raced[p] \in BOOLEAN
        /\ Proper(work[p], cached[p], raced[p])
    BY CopyFacts
  <2>2. work[p].at \in 1..(Files + 1) /\ work[p].at <= Files /\ Len(work[p].got) = 1
    BY <1>0, <2>1 DEF Proper
  <2>3. work[p].fill \in {"no", "ensure", "helper"} /\ work[p].got \in Seq(Nat)
    BY <2>1 DEF Works
  <2>4. work[p].at \in 1..Files
    BY <1>0, <2>2
  <2>5. raced[p] = FALSE /\ work[p].fill = "no" => Paired(cached[p])
    BY <1>0, <2>1 DEF Proper, CallUndisturbed, Fills
  <2>6. raced[p] = FALSE /\ work[p].fill # "no" =>
           \A i \in 1..(work[p].at - 1) : work[p].got[1] = idx[i].size
    BY <1>0, <2>1 DEF Proper, CallUndisturbed
  <2>7. QED
    BY <2>1, <2>2, <2>3, <2>4, <2>5, <2>6
<1>2. PICK j, g, n, e, c, b : /\ j = work[p].at /\ g = work[p].got[1] /\ n = Copies!LastTime + 1
                              /\ e = work[p].fill /\ c = cached[p] /\ b = raced[p]
  OBVIOUS
<1>3. /\ j \in 1..Files /\ g \in Nat /\ n \in Nat /\ e \in {"no", "ensure", "helper"}
      /\ c \in Copys /\ b \in BOOLEAN /\ \A i \in 1..Files : idx[i].time \in Nat /\ idx[i].time < n
      /\ b = FALSE /\ e = "no" => Paired(c)
      /\ b = FALSE /\ e # "no" => \A i \in 1..(j - 1) : g = idx[i].size
  <2>1. Copies!LastTime \in Nat /\ \A i \in 1..Files : idx[i].time <= Copies!LastTime
    BY <1>0, LastTimeFacts
  <2>2. \A i \in 1..Files : idx[i].time \in Nat
    BY <1>0 DEF IdxFiles
  <2>3. work[p].got[1] \in Nat
    BY <1>1
  <2>4. n \in Nat /\ \A i \in 1..Files : idx[i].time \in Nat /\ idx[i].time < n
    BY <1>2, <2>1, <2>2
  <2>5. QED
    BY <1>1, <1>2, <2>3, <2>4
<1>4. /\ idx' \in [1..Files -> IdxFiles] /\ idx'[j].time = n /\ idx'[j].size = g
      /\ \A i \in 1..Files : i # j => idx'[i] = idx[i]
  <2>1. PICK y : y = [time |-> n, size |-> g]
    OBVIOUS
  <2>2. y \in IdxFiles /\ y.time = n /\ y.size = g
    BY <1>3, <2>1 DEF IdxFiles
  <2>3. idx' = [idx EXCEPT ![j] = y]
    BY <1>2, <2>1 DEF Copies!Write
  <2>4. QED
    BY <1>0, <1>3, <2>2, <2>3
<1>5. ASSUME NEW d \in Copys, Paired(d)
      PROVE  Paired(d)'
  <2>1. CASE d.index = <<>> \/ d.times = <<>>
    BY <2>1 DEF Paired
  <2>2. CASE /\ Len(d.index) = Files /\ Len(d.times) = Files
             /\ \A i \in 1..Files : /\ d.times[i] <= idx[i].time
                                    /\ d.times[i] = idx[i].time => d.index[i] = idx[i].size
    <3>1. ASSUME NEW i \in 1..Files
          PROVE  /\ d.times[i] <= idx'[i].time
                 /\ d.times[i] = idx'[i].time => d.index[i] = idx'[i].size
      <4>1. CASE i = j
        <5>1. d.times \in Seq(Nat)
          BY DEF Copys
        <5>2. d.times[i] \in Nat
          BY <2>2, <5>1, <3>1
        <5>3. d.times[i] <= idx[i].time /\ idx[i].time < n /\ idx[i].time \in Nat /\ idx'[i].time = n
          BY <2>2, <1>3, <1>4, <4>1
        <5>4. d.times[i] < n
          BY <5>2, <5>3, <1>3
        <5>5. QED
          BY <5>2, <5>3, <5>4, <1>3
      <4>2. CASE i # j
        BY <1>4, <2>2, <4>2
      <4>3. QED
        BY <4>1, <4>2
    <3>2. QED
      BY <2>2, <3>1 DEF Paired
  <2>3. QED
    BY <1>5, <2>1, <2>2 DEF Paired
<1>6. /\ raced' \in [Agents -> BOOLEAN] /\ raced'[p] = b
      /\ \A q \in Agents : q # p /\ raced'[q] = FALSE => raced[q] = FALSE /\ ~Fills(work[q])
  <2>1. raced' = [q \in Agents |-> raced[q] \/ (q # p /\ Copies!Filling(q))]
    BY DEF Copies!Write
  <2>2. raced \in [Agents -> BOOLEAN]
    BY DEF CopiesInv
  <2>3. ASSUME NEW q \in Agents
        PROVE  raced'[q] = (raced[q] \/ (q # p /\ Copies!Filling(q)))
    BY <2>1, Zenon
  <2>4. \A q \in Agents : Copies!Filling(q) <=> Fills(work[q])
    BY DEF Copies!Filling, Fills
  <2>5. raced' \in [Agents -> BOOLEAN]
    BY <2>1, <2>2, Zenon
  <2>6. raced'[p] = raced[p]
    <3>1. raced[p] = TRUE \/ raced[p] = FALSE
      BY <2>2, Zenon
    <3>2. raced'[p] = (raced[p] \/ (p # p /\ Copies!Filling(p)))
      BY <2>3
    <3>3. raced'[p] <=> raced[p]
      BY <3>2, Zenon
    <3>4. raced'[p] = TRUE \/ raced'[p] = FALSE
      BY <2>5, Zenon
    <3>5. CASE raced[p] = TRUE
      <4>1. raced'[p] # FALSE
        BY <3>3, <3>5, Zenon
      <4>2. QED
        BY <3>4, <3>5, <4>1, Zenon
    <3>6. CASE raced[p] = FALSE
      <4>1. raced'[p] # TRUE
        BY <3>3, <3>6, Zenon
      <4>2. QED
        BY <3>4, <3>6, <4>1, Zenon
    <3>7. QED
      BY <3>1, <3>5, <3>6, Zenon
  <2>7. ASSUME NEW q \in Agents, q # p, raced'[q] = FALSE
        PROVE  raced[q] = FALSE /\ ~Fills(work[q])
    <3>1. raced[q] = TRUE \/ raced[q] = FALSE
      BY <2>2, Zenon
    <3>2. ~(raced[q] \/ (q # p /\ Copies!Filling(q)))
      BY <2>3, <2>7, Zenon
    <3>3. QED
      BY <2>4, <2>7, <3>1, <3>2, Zenon
  <2>8. QED
    BY <1>2, <2>5, <2>6, <2>7
<1>7. ASSUME NEW q \in Agents, q # p, NEW w, NEW d, NEW r,
             w = work[q], d = cached[q], r = raced'[q]
      PROVE  Proper(w, d, r)'
  <2>1. Proper(w, d, raced[q]) /\ w \in Works /\ d \in Copys /\ r \in BOOLEAN
    BY <1>6, <1>7, CopyFacts
  <2>2. r = FALSE => Paired(d) /\ ~Fills(w)
    BY <1>6, <1>7, <2>1 DEF Proper, CallUndisturbed
  <2>3. r = FALSE => Paired(d)' /\ ~Fills(w)
    BY <1>5, <2>1, <2>2
  <2>4. r = FALSE => CallUndisturbed(w, d)'
    <3> SUFFICES ASSUME Paired(d)', ~Fills(w) PROVE CallUndisturbed(w, d)'
      BY <2>3
    <3>1. w.do # "load" /\ w.do # "record" /\ w.fill = "no"
      BY DEF Fills
    <3>2. QED
      BY <3>1 DEF CallUndisturbed
  <2>5. QED
    BY <2>1, <2>4 DEF Proper
<1>8. ASSUME NEW w, NEW d, work' = [work EXCEPT ![p] = w], cached' = [cached EXCEPT ![p] = d],
             Proper(w, d, b)'
      PROVE  CopiesInv'
  <2>1. w \in Works /\ d \in Copys
    BY <1>8 DEF Proper
  <2>2. work' \in [Agents -> Works] /\ cached' \in [Agents -> Copys]
    BY <1>0, <1>8, <2>1
  <2>3. ASSUME NEW q \in Agents
        PROVE  Proper(work[q], cached[q], raced[q])'
    <3>1. PICK u, v, r : u = work'[q] /\ v = cached'[q] /\ r = raced'[q]
      OBVIOUS
    <3>2. Proper(u, v, r)'
      <4>1. CASE q = p
        <5>1. u = w /\ v = d /\ r = b
          BY <1>0, <1>6, <1>8, <3>1, <4>1
        <5>2. QED
          BY <1>8, <5>1
      <4>2. CASE q # p
        <5>1. u = work[q] /\ v = cached[q]
          BY <1>0, <1>8, <3>1, <4>2
        <5>2. QED
          BY <1>7, <3>1, <4>2, <5>1
      <4>3. QED
        BY <4>1, <4>2
    <3>3. QED
      BY <3>1, <3>2 DEF Proper, CallUndisturbed, Paired
  <2>4. QED
    BY <1>0, <1>4, <1>6, <2>2, <2>3 DEF CopiesInv
<1>9. CASE work[p].at < Files /\ work' = [work EXCEPT ![p].at = @ + 1] /\ UNCHANGED cached
  <2>1. PICK w : w = [do |-> "write", at |-> j + 1, got |-> work[p].got, fill |-> e]
    OBVIOUS
  <2>2. work' = [work EXCEPT ![p] = w]
    <3>1. work' = [work EXCEPT ![p].at = work[p].at + 1]
      BY <1>9
    <3>2. work' = [work EXCEPT ![p] = [do |-> work[p].do, at |-> work[p].at + 1,
                                       got |-> work[p].got, fill |-> work[p].fill]]
      BY <3>1, CallForms
    <3>3. QED
      BY <3>2, <1>0, <1>2, <2>1, Zenon
  <2>3. cached' = [cached EXCEPT ![p] = c]
    BY <1>0, <1>2, <1>9
  <2>4. j + 1 \in 1..(Files + 1) /\ j + 1 <= Files /\ j + 1 \in Nat /\ (j + 1) - 1 = j
    BY <1>0, <1>2, <1>3, <1>9
  <2>5. /\ w \in Works /\ w.do = "write" /\ w.at = j + 1 /\ w.fill = e
        /\ w.got \in Seq(Nat) /\ Len(w.got) = 1 /\ w.got[1] = g
    BY <1>1, <1>2, <1>3, <2>1, <2>4 DEF Works
  <2>6. b = FALSE /\ e # "no" => \A i \in 1..j : w.got[1] = idx'[i].size
    <3>1. ASSUME b = FALSE, e # "no", NEW i \in 1..j
          PROVE  g = idx'[i].size
      <4>1. CASE i = j
        BY <1>4, <4>1
      <4>2. CASE i # j
        <5>1. i \in 1..(j - 1) /\ i \in 1..Files
          BY <1>0, <1>3, <3>1, <4>2
        <5>2. QED
          BY <1>3, <1>4, <3>1, <4>2, <5>1
      <4>3. QED
        BY <4>1, <4>2
    <3>2. QED
      BY <2>5, <3>1
  <2>7. b = FALSE => CallUndisturbed(w, c)'
    <3> SUFFICES ASSUME b = FALSE PROVE CallUndisturbed(w, c)'
      OBVIOUS
    <3>1. ~Fills(w) => Paired(c)'
      BY <1>3, <1>5, <2>5 DEF Fills
    <3>2. w.fill # "no" => \A i \in 1..(w.at - 1) : w.got[1] = idx'[i].size
      BY <2>4, <2>5, <2>6
    <3>3. QED
      BY <2>5, <3>1, <3>2 DEF CallUndisturbed
  <2>8. Proper(w, c, b)'
    BY <1>3, <2>4, <2>5, <2>7 DEF Proper
  <2>9. QED
    BY <1>8, <2>2, <2>3, <2>8
<1>10. CASE e = "no" /\ work' = [work EXCEPT ![p] = Copies!Idle] /\ UNCHANGED cached
  <2>1. PICK w : w = [do |-> "idle", at |-> 1, got |-> <<>>, fill |-> "no"]
    OBVIOUS
  <2>2. work' = [work EXCEPT ![p] = w] /\ cached' = [cached EXCEPT ![p] = c]
    BY <1>0, <1>2, <1>10, <2>1 DEF Copies!Idle
  <2>3. w \in Works /\ w.do = "idle" /\ w.at = 1 /\ w.fill = "no" /\ 1 \in 1..(Files + 1)
    BY <1>0, <2>1 DEF Works
  <2>4. b = FALSE => Paired(c)'
    BY <1>3, <1>5, <1>10
  <2>5. b = FALSE => CallUndisturbed(w, c)'
    BY <2>3, <2>4 DEF CallUndisturbed
  <2>6. Proper(w, c, b)'
    BY <1>3, <2>3, <2>5 DEF Proper
  <2>7. QED
    BY <1>8, <2>2, <2>6
<1>11. CASE Copies!Build(p, "helper")
  <2>1. PICK w : w = [do |-> "write", at |-> 1, got |-> <<logged>>, fill |-> "helper"]
    OBVIOUS
  <2>2. work' = [work EXCEPT ![p] = w] /\ cached' = [cached EXCEPT ![p] = c]
    BY <1>0, <1>2, <1>11, <2>1 DEF Copies!Build
  <2>3. /\ w \in Works /\ w.do = "write" /\ w.at = 1 /\ w.fill = "helper" /\ Len(w.got) = 1
        /\ 1 \in 1..(Files + 1) /\ 1 <= Files /\ 1 - 1 = 0
    BY <1>0, <2>1 DEF Works
  <2>4. CallUndisturbed(w, c)'
    BY <2>3 DEF CallUndisturbed, Fills
  <2>5. Proper(w, c, b)'
    BY <1>3, <2>3, <2>4 DEF Proper
  <2>6. QED
    BY <1>8, <2>2, <2>5
<1>12. CASE ~(work[p].at < Files) /\ e # "no" /\ Copies!Fill(p, [i \in 1..Files |-> work[p].got[1]])
  <2>1. PICK w, h, d : /\ w = [do |-> "record", at |-> 1, got |-> <<>>, fill |-> e]
                       /\ h = [i \in 1..Files |-> g]
                       /\ d = [index |-> h, times |-> cached[p].times]
    OBVIOUS
  <2>2. work' = [work EXCEPT ![p] = w]
    <3>1. work' = [work EXCEPT ![p] = [do |-> "record", at |-> 1, got |-> <<>>, fill |-> work[p].fill]]
      BY <1>12, CallForms, ZenonT(40) DEF Copies!Fill
    <3>2. QED
      BY <3>1, <1>2, <2>1, Zenon
  <2>3. cached' = [cached EXCEPT ![p] = d]
    <3>1. cached' = [cached EXCEPT ![p].index = h]
      BY <1>2, <1>12, <2>1 DEF Copies!Fill
    <3>2. QED
      BY <2>1, <3>1, CallForms
  <2>4. h \in Seq(Nat) /\ Len(h) = Files /\ \A i \in 1..Files : h[i] = g
    BY <1>0, <1>3, <2>1
  <2>5. d \in Copys /\ d.index = h
    <3>1. cached[p].times \in Seq(Nat)
      BY <1>1 DEF Copys
    <3>2. QED
      BY <2>1, <2>4, <3>1 DEF Copys
  <2>6. b = FALSE => \A i \in 1..Files : d.index[i] = idx'[i].size
    <3>1. j = Files
      BY <1>0, <1>2, <1>3, <1>12
    <3>2. ASSUME b = FALSE, NEW i \in 1..Files
          PROVE  g = idx'[i].size
      <4>1. CASE i = j
        BY <1>4, <4>1
      <4>2. CASE i # j
        <5>1. i \in 1..(j - 1)
          BY <1>0, <3>1, <3>2, <4>2
        <5>2. QED
          BY <1>3, <1>4, <1>12, <3>2, <4>2, <5>1
      <4>3. QED
        BY <4>1, <4>2
    <3>3. QED
      BY <2>4, <2>5, <3>2
  <2>7. /\ w \in Works /\ w.do = "record" /\ w.at = 1 /\ w.fill = e /\ Len(w.got) = 0
        /\ 1 \in 1..(Files + 1) /\ 1 - 1 = 0
    BY <1>0, <1>3, <2>1 DEF Works
  <2>8. b = FALSE => CallUndisturbed(w, d)'
    BY <2>4, <2>5, <2>6, <2>7 DEF CallUndisturbed, Fills
  <2>9. Proper(w, d, b)'
    BY <1>3, <2>5, <2>7, <2>8 DEF Proper
  <2>10. QED
    BY <1>8, <2>2, <2>3, <2>9
<1>13. QED
  <2>1. CASE work[p].at < Files
    BY <1>9, <2>1, Zenon DEF Copies!Write
  <2>2. CASE ~(work[p].at < Files) /\ work[p].fill = "no"
    BY <1>2, <1>10, <2>2, Zenon DEF Copies!Write
  <2>3. CASE ~(work[p].at < Files) /\ work[p].fill # "no"
    <3>1. CASE work[p].fill = "ensure" /\ work[p].got[1] = 0
      BY <1>11, <2>3, <3>1, Zenon DEF Copies!Write
    <3>2. CASE ~(work[p].fill = "ensure" /\ work[p].got[1] = 0)
      BY <1>2, <1>12, <2>3, <3>2, Zenon DEF Copies!Write
    <3>3. QED
      BY <3>1, <3>2
  <2>4. QED
    BY <2>1, <2>2, <2>3

\* Steps of the other parts.
LEMMA CopiesAlone ==
    ASSUME CopiesInv, UNCHANGED copyVars
    PROVE  CopiesInv'
BY DEF CopiesInv, copyVars, Proper, CallUndisturbed, Paired

\* A copy is served only with all its times, and then is what the files hold.
LEMMA CopiesHold == CopiesInv => Copies!UndisturbedCopyCurrent
<1> SUFFICES ASSUME CopiesInv, NEW p \in Agents, Copies!Served(p), ~raced[p]
             PROVE  cached[p].index = [i \in 1..Files |-> idx[i].size]
  BY DEF Copies!UndisturbedCopyCurrent
<1>1. /\ work[p].do = "idle" /\ cached[p].index # <<>>
      /\ cached[p].times = [i \in 1..Files |-> idx[i].time]
  BY DEF Copies!Served, Copies!Doing, Copies!NoneYet
<1>2. raced[p] = FALSE
  <2>1. raced[p] \in BOOLEAN
    BY CopyFacts
  <2>2. QED
    BY <2>1, Zenon
<1>3. Paired(cached[p]) /\ cached[p].index \in Seq(Nat)
  BY <1>1, <1>2, CopyFacts DEF Proper, CallUndisturbed, Fills, Copys
<1>4. Files \in Nat /\ Files >= 1
  BY SomeFiles
<1>5. cached[p].times # <<>>
  <2>1. 1 \in DOMAIN cached[p].times
    BY <1>1, <1>4
  <2>2. QED
    BY <2>1
<1>6. /\ Len(cached[p].index) = Files
      /\ \A i \in 1..Files : cached[p].index[i] = idx[i].size
  BY <1>1, <1>3, <1>5 DEF Paired
<1>7. PICK s : s = cached[p].index
  OBVIOUS
<1>8. s \in Seq(Nat) /\ Len(s) = Files
  BY <1>3, <1>6, <1>7
<1>9. s = [i \in 1..Files |-> s[i]]
  BY <1>8
<1>10. \A i \in 1..Files : s[i] = idx[i].size
  BY <1>6, <1>7
<1>11. QED
  BY <1>7, <1>9, <1>10

(* The copy an agent serves from memory, when nobody else replaced a file  *)
(* while it was filled, is what the index files hold, for any number of    *)
(* agents, files, entries and builds (_get_cached_rr_builder).             *)
THEOREM CopiesAreCurrent == Spec => []Copies!UndisturbedCopyCurrent
<1>1. Init => CopiesInv
  BY CopiesStart DEF Init
<1>2. ASSUME CopiesInv, [Next]_<<part, anchorVars, codecVars, lifeVars, relayVars, traceVars,
                     securityVars, artifactsVars, coverageVars, trackerVars, copyVars>>
      PROVE  CopiesInv'
  <2>1. CASE UNCHANGED copyVars
    BY <1>2, <2>1, CopiesAlone
  <2>2. CASE Copies!AiNext
    <3>1. CASE Copies!LogEntry
      BY <1>2, <3>1, CopiesLog
    <3>2. ASSUME NEW p \in Agents,
                 \/ Copies!IndexSessions(p) \/ Copies!Ask(p) \/ Copies!Look(p)
                 \/ Copies!Load(p) \/ Copies!Write(p) \/ Copies!Record(p)
          PROVE  CopiesInv'
      BY <1>2, <3>2, CopiesBegin, CopiesLook, CopiesLoad, CopiesWrite, CopiesRecord
    <3>3. QED
      BY <2>2, <3>1, <3>2, Zenon DEF Copies!AiNext
  <2>3. QED
    BY <1>2, <2>1, <2>2, Zenon DEF Next
<1>3. CopiesInv => Copies!UndisturbedCopyCurrent
  BY CopiesHold
<1>4. QED
  BY <1>1, <1>2, <1>3, PTL DEF Spec

-----------------------------------------------------------------------------
(* The state file of the session tracker.                                  *)

InSave(p) == step[p] \in {"lock", "write"}

\* While no process was killed and no two saves overlapped, the one save that
\* has opened the file finds it empty when it writes.
TrackerInv ==
  /\ step \in [Trackers -> {"idle", "open", "lock", "write"}]
  /\ kills \in Nat /\ overlap \in BOOLEAN
  /\ sfile.text \in {"none", "empty", "garbled", "whole"}
  /\ kills = 0 /\ overlap = FALSE =>
       /\ \A p, q \in Trackers : InSave(p) /\ InSave(q) => p = q
       /\ sfile.text = "empty" <=> \E p \in Trackers : InSave(p)
       /\ sfile.text # "garbled"
       /\ locker # Tracker!Nobody => locker \in Trackers /\ step[locker] = "write"

\* No file and no process.
LEMMA TrackerStarts == Tracker!StInit => TrackerInv
<1> SUFFICES ASSUME Tracker!StInit PROVE TrackerInv
  OBVIOUS
<1>1. /\ step = [p \in Trackers |-> "idle"] /\ kills = 0 /\ overlap = FALSE
      /\ sfile.text = "none" /\ locker = Tracker!Nobody
  BY DEF Tracker!StInit
<1>2. \A p \in Trackers : ~InSave(p)
  BY <1>1 DEF InSave
<1>3. overlap \in BOOLEAN
  BY <1>1, Zenon
<1>4. step \in [Trackers -> {"idle", "open", "lock", "write"}]
  BY <1>1
<1>5. QED
  BY <1>1, <1>2, <1>3, <1>4 DEF TrackerInv

\* A step that is no part of a save but may begin one.
LEMMA TrackerBegins ==
    ASSUME TrackerInv, NEW p \in Trackers, UNCHANGED <<sfile, locker, kills, overlap>>,
           \/ UNCHANGED step
           \/ step[p] = "idle" /\ step' = [step EXCEPT ![p] = "open"]
    PROVE  TrackerInv'
<1>1. step \in [Trackers -> {"idle", "open", "lock", "write"}]
  BY DEF TrackerInv
<1>2. step' \in [Trackers -> {"idle", "open", "lock", "write"}]
  BY <1>1
<1>3. \A q \in Trackers : InSave(q)' <=> InSave(q)
  BY <1>1 DEF InSave
<1>4. \A q \in Trackers : step'[q] = "write" <=> step[q] = "write"
  BY <1>1
<1>5. QED
  BY <1>2, <1>3, <1>4 DEF TrackerInv

\* A save opens the file, which empties it.
LEMMA TrackerOpens ==
    ASSUME TrackerInv, NEW p \in Trackers, Tracker!SaveOpen(p)
    PROVE  TrackerInv'
<1>1. /\ step[p] = "open" /\ step' = [step EXCEPT ![p] = "lock"] /\ kills' = kills /\ locker' = locker
      /\ sfile'.text = "empty"
  BY DEF Tracker!SaveOpen
<1>2. step \in [Trackers -> {"idle", "open", "lock", "write"}] /\ overlap \in BOOLEAN
  BY DEF TrackerInv
<1>3. step' \in [Trackers -> {"idle", "open", "lock", "write"}]
  BY <1>1, <1>2
<1>4. overlap' = (overlap \/ \E q \in Trackers \ {p} : step[q] \in {"lock", "write"})
  BY DEF Tracker!SaveOpen
<1>5. overlap' \in BOOLEAN
  BY <1>2, <1>4, Zenon
<1>6. overlap' = FALSE => overlap = FALSE /\ \A q \in Trackers \ {p} : ~InSave(q)
  <2>1. overlap = TRUE \/ overlap = FALSE
    BY <1>2, Zenon
  <2>2. overlap' = FALSE => ~(overlap \/ \E q \in Trackers \ {p} : step[q] \in {"lock", "write"})
    BY <1>4, Zenon
  <2>3. QED
    BY <2>1, <2>2, Zenon DEF InSave
<1>7. /\ \A q \in Trackers \ {p} : step'[q] = step[q] /\ (InSave(q)' <=> InSave(q))
      /\ InSave(p)'
  BY <1>1, <1>2 DEF InSave
<1>8. kills' = 0 /\ overlap' = FALSE =>
        /\ \A q \in Trackers : InSave(q)' => q = p
        /\ locker' # Tracker!Nobody => locker' \in Trackers /\ step'[locker'] = "write"
  <2> SUFFICES ASSUME kills' = 0, overlap' = FALSE
               PROVE  /\ \A q \in Trackers : InSave(q)' => q = p
                      /\ locker' # Tracker!Nobody => locker' \in Trackers /\ step'[locker'] = "write"
    OBVIOUS
  <2>1. locker # Tracker!Nobody => locker \in Trackers /\ step[locker] = "write"
    BY <1>1, <1>6 DEF TrackerInv
  <2>2. locker # Tracker!Nobody => locker # p
    BY <1>1, <2>1
  <2>3. locker # Tracker!Nobody => step'[locker] = "write"
    BY <1>7, <2>1, <2>2
  <2>4. QED
    BY <1>1, <1>6, <1>7, <2>1, <2>3
<1>9. QED
  BY <1>1, <1>3, <1>5, <1>7, <1>8 DEF TrackerInv

\* A save takes the lock.
LEMMA TrackerLocks ==
    ASSUME TrackerInv, NEW p \in Trackers, Tracker!SaveLock(p)
    PROVE  TrackerInv'
<1>1. /\ step[p] = "lock" /\ step' = [step EXCEPT ![p] = "write"] /\ locker' = p
      /\ UNCHANGED <<sfile, kills, overlap>>
  BY DEF Tracker!SaveLock
<1>2. step \in [Trackers -> {"idle", "open", "lock", "write"}]
  BY DEF TrackerInv
<1>3. step' \in [Trackers -> {"idle", "open", "lock", "write"}] /\ step'[p] = "write"
  BY <1>1, <1>2
<1>4. \A q \in Trackers : InSave(q)' <=> InSave(q)
  BY <1>1, <1>2 DEF InSave
<1>5. QED
  BY <1>1, <1>3, <1>4 DEF TrackerInv

\* A save writes its text and gives the lock back.
LEMMA TrackerWrites ==
    ASSUME TrackerInv, NEW p \in Trackers, Tracker!SaveWrite(p)
    PROVE  TrackerInv'
<1>1. /\ step[p] = "write" /\ step' = [step EXCEPT ![p] = "idle"] /\ locker' = Tracker!Nobody
      /\ UNCHANGED <<kills, overlap>> /\ sfile' = Tracker!Written(held[p])
  BY DEF Tracker!SaveWrite
<1>2. step \in [Trackers -> {"idle", "open", "lock", "write"}]
  BY DEF TrackerInv
<1>3. step' \in [Trackers -> {"idle", "open", "lock", "write"}]
  BY <1>1, <1>2
<1>4. sfile'.text \in {"garbled", "whole"} /\ (sfile.text = "empty" => sfile'.text = "whole")
  BY <1>1 DEF Tracker!Written
<1>5. InSave(p) /\ ~InSave(p)' /\ \A q \in Trackers \ {p} : InSave(q)' <=> InSave(q)
  BY <1>1, <1>2 DEF InSave
<1>6. kills' = 0 /\ overlap' = FALSE => sfile'.text = "whole" /\ \A q \in Trackers : ~InSave(q)'
  BY <1>1, <1>4, <1>5 DEF TrackerInv
<1>7. QED
  BY <1>1, <1>3, <1>4, <1>6 DEF TrackerInv

\* A process gives up waiting for the lock: then two saves had overlapped, or
\* it had not begun one.
LEMMA TrackerGivesUp ==
    ASSUME TrackerInv, NEW p \in Trackers, Tracker!Timeout(p)
    PROVE  TrackerInv'
<1>1. /\ locker # Tracker!Nobody /\ locker # p /\ step[p] \in {"lock", "idle"}
      /\ step' = [step EXCEPT ![p] = "idle"] /\ UNCHANGED <<sfile, locker, kills, overlap>>
  BY DEF Tracker!Timeout
<1>2. step \in [Trackers -> {"idle", "open", "lock", "write"}]
  BY DEF TrackerInv
<1>3. step' \in [Trackers -> {"idle", "open", "lock", "write"}]
  BY <1>1, <1>2
<1>4. kills = 0 /\ overlap = FALSE => step' = step
  <2> SUFFICES ASSUME kills = 0, overlap = FALSE PROVE step' = step
    OBVIOUS
  <2>1. locker \in Trackers /\ InSave(locker)
    BY <1>1 DEF TrackerInv, InSave
  <2>2. ~InSave(p)
    BY <1>1, <2>1 DEF TrackerInv
  <2>3. step[p] = "idle"
    BY <1>1, <2>2 DEF InSave
  <2>4. QED
    BY <1>1, <1>2, <2>3
<1>5. QED
  BY <1>1, <1>3, <1>4 DEF TrackerInv, InSave

\* A process is killed.
LEMMA TrackerKilled ==
    ASSUME TrackerInv, NEW p \in Trackers, NEW torn \in BOOLEAN, Tracker!Kill(p, torn)
    PROVE  TrackerInv'
<1>1. kills' = kills + 1 /\ kills \in Nat /\ UNCHANGED overlap /\ step' = [step EXCEPT ![p] = "idle"]
  BY DEF Tracker!Kill, TrackerInv
<1>2. sfile'.text \in {"none", "empty", "garbled", "whole"}
  <2>1. sfile' = [text |-> "garbled", state |-> Tracker!NewState] \/ sfile' = sfile
    BY Zenon DEF Tracker!Kill
  <2>2. QED
    BY <2>1 DEF TrackerInv
<1>3. step' \in [Trackers -> {"idle", "open", "lock", "write"}]
  BY <1>1 DEF TrackerInv
<1>4. kills' \in Nat /\ kills' # 0
  BY <1>1
<1>5. QED
  BY <1>1, <1>2, <1>3, <1>4 DEF TrackerInv

\* The steps of the tracker.
LEMMA TrackerSteps ==
    ASSUME TrackerInv, Tracker!StNext
    PROVE  TrackerInv'
<1>1. PICK p \in Trackers :
        \/ Tracker!Construct(p) \/ Tracker!StartSession(p) \/ Tracker!EndSession(p)
        \/ Tracker!RecordHeartbeat(p) \/ Tracker!SaveOpen(p) \/ Tracker!SaveLock(p)
        \/ Tracker!SaveWrite(p) \/ Tracker!Timeout(p)
        \/ \E torn \in BOOLEAN : Tracker!Kill(p, torn)
  BY Zenon DEF Tracker!StNext
<1>2. CASE Tracker!Construct(p) \/ Tracker!EndSession(p)
  <2>1. UNCHANGED <<sfile, step, locker, kills, overlap>>
    BY <1>2 DEF Tracker!Construct, Tracker!EndSession
  <2>2. QED
    BY <2>1, TrackerBegins
<1>3. CASE Tracker!StartSession(p)
  <2>1. /\ UNCHANGED <<sfile, locker, kills, overlap>>
        /\ step[p] = "idle" /\ step' = [step EXCEPT ![p] = "open"]
    BY <1>3 DEF Tracker!StartSession, Tracker!Calls, Tracker!Saving
  <2>2. QED
    BY <2>1, TrackerBegins
<1>4. CASE Tracker!RecordHeartbeat(p)
  <2>1. UNCHANGED <<sfile, locker, kills, overlap>> /\ step[p] = "idle"
    BY <1>4 DEF Tracker!RecordHeartbeat, Tracker!Calls, Tracker!Saving
  <2>2. UNCHANGED step \/ step' = [step EXCEPT ![p] = "open"]
    BY <1>4, Zenon DEF Tracker!RecordHeartbeat
  <2>3. QED
    BY <2>1, <2>2, TrackerBegins
<1>5. CASE Tracker!SaveOpen(p) \/ Tracker!SaveLock(p) \/ Tracker!SaveWrite(p) \/ Tracker!Timeout(p)
  BY <1>5, TrackerOpens, TrackerLocks, TrackerWrites, TrackerGivesUp
<1>6. CASE \E torn \in BOOLEAN : Tracker!Kill(p, torn)
  BY <1>6, TrackerKilled
<1>7. QED
  BY <1>1, <1>2, <1>3, <1>4, <1>5, <1>6

\* Steps of the other parts.
LEMMA TrackerAlone ==
    ASSUME TrackerInv, UNCHANGED trackerVars
    PROVE  TrackerInv'
BY DEF TrackerInv, trackerVars, InSave

(* With nobody saving, the tracker's state file loads unless a process was *)
(* killed or two saves overlapped, for any number of processes, sessions   *)
(* and heartbeats: opening the file before the lock is taken is the only   *)
(* other way to lose it (SessionTracker._save_state, core/session.py).     *)
THEOREM StateFileLoads == Spec => []Tracker!LoadsUnlessBroken
<1>1. Init => TrackerInv
  BY TrackerStarts DEF Init
<1>2. ASSUME TrackerInv, [Next]_<<part, anchorVars, codecVars, lifeVars, relayVars, traceVars,
                     securityVars, artifactsVars, coverageVars, trackerVars, copyVars>>
      PROVE  TrackerInv'
  <2>1. CASE UNCHANGED trackerVars
    BY <1>2, <2>1, TrackerAlone
  <2>2. CASE Tracker!StNext
    BY <1>2, <2>2, TrackerSteps
  <2>3. QED
    BY <1>2, <2>1, <2>2, Zenon DEF Next
<1>3. TrackerInv => Tracker!LoadsUnlessBroken
  <2> SUFFICES ASSUME TrackerInv, Tracker!Unreadable, \A p \in Trackers : ~Tracker!Saving(p),
                      ~(kills > 0), ~overlap
               PROVE  FALSE
    BY DEF Tracker!LoadsUnlessBroken
  <2>1. kills = 0
    BY DEF TrackerInv
  <2>2. overlap = FALSE
    <3>1. overlap \in BOOLEAN
      BY DEF TrackerInv
    <3>2. QED
      BY <3>1, Zenon
  <2>3. sfile.text = "empty"
    BY <2>1, <2>2 DEF TrackerInv, Tracker!Unreadable
  <2>4. PICK p \in Trackers : InSave(p)
    BY <2>1, <2>2, <2>3 DEF TrackerInv
  <2>5. QED
    BY <2>4 DEF InSave, Tracker!Saving
<1>4. QED
  BY <1>1, <1>2, <1>3, PTL DEF Spec
=============================================================================
