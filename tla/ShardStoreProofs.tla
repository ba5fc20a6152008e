------------------------- MODULE ShardStoreProofs -------------------------
(* Theorems about ShardStore, for every number of processes, every rotation *)
(* limit and every bound on writes and faults.                              *)
EXTENDS ShardStore, OrderLemmas

----------------------------------------------------------------------------
(* Type correctness *)

\* Counting lines of the shard gives a natural number.
LEMMA LineCount ==
    ASSUME log \in Seq(Line), NEW S, S \subseteq DOMAIN log
    PROVE  Cardinality(S) \in Nat
<1>1. DOMAIN log = 1 .. Len(log) /\ Len(log) \in Nat
  OBVIOUS
<1>2. IsFiniteSet(1 .. Len(log))
  BY <1>1, FS_Interval
<1>3. IsFiniteSet(S)
  BY <1>1, <1>2, FS_Subset
<1>4. QED
  BY <1>3, FS_CardinalityType

\* The newest of some lines is a line of the shard.
LEMMA NewestLine ==
    ASSUME log \in Seq(Line), NEW S, S \subseteq DOMAIN log, S # {}
    PROVE  /\ (CHOOSE i \in S : \A j \in S : j <= i) \in S
           /\ \A k \in S : k <= CHOOSE i \in S : \A j \in S : j <= i
<1>1. DOMAIN log = 1 .. Len(log) /\ Len(log) \in Nat
  OBVIOUS
<1>2. \E i \in S : \A j \in S : j <= i
  BY <1>1, GreatestPosition
<1> DEFINE Last(i) == i \in S /\ \A j \in S : j <= i
<1>3. Last(CHOOSE i : Last(i))
  <2>1. \E i : Last(i)
    BY <1>2
  <2> HIDE DEF Last
  <2>2. QED
    BY <2>1, Zenon
<1>4. QED
  BY <1>3, Zenon

\* What truncation leaves is a prefix of the lines.
LEMMA PrefixLines ==
    ASSUME NEW S, NEW s \in Seq(S), NEW n \in 0 .. Len(s) - 1
    PROVE  LET t == SubSeq(s, 1, n)
           IN  t \in Seq(S) /\ \A i \in DOMAIN t : i \in DOMAIN s /\ t[i] = s[i]
<1>1. n \in Nat /\ Len(s) \in Nat /\ n < Len(s) /\ DOMAIN s = 1 .. Len(s)
  OBVIOUS
<1>2. \A k \in 1 .. n : s[k] \in S
  BY <1>1
<1>3. SubSeq(s, 1, n) = [i \in 1 .. n |-> s[i]]
  BY <1>1
<1>4. QED
  BY <1>1, <1>2, <1>3

\* Tail and tip are hashes.
LEMMA TailType ==
    ASSUME log \in Seq(Line)
    PROVE  TailHash \in Nat /\ LastHash \in Nat
<1>1. ASSUME NEW m \in DOMAIN log
      PROVE  log[m].hash \in Nat
  <2>1. log[m] \in Line
    BY <1>1
  <2>2. QED
    BY <2>1 DEF Line
<1>2. Readable \subseteq DOMAIN log /\ Readable \cap InTailWindow \subseteq DOMAIN log
  BY DEF Readable
<1>3. TailHash \in Nat
  <2> DEFINE seen == Readable \cap InTailWindow
             m == CHOOSE i \in seen : \A j \in seen : j <= i
  <2>1. CASE seen = {}
    BY <2>1 DEF TailHash, NoHash
  <2>2. CASE seen # {}
    <3>1. m \in seen
      BY <1>2, <2>2, NewestLine
    <3>2. TailHash = log[m].hash
      BY <2>2 DEF TailHash
    <3> HIDE DEF m
    <3>3. QED
      BY <1>1, <1>2, <3>1, <3>2
  <2>3. QED
    BY <2>1, <2>2
<1>4. LastHash \in Nat
  <2> DEFINE m == CHOOSE i \in Readable : \A j \in Readable : j <= i
  <2>1. CASE Readable = {}
    BY <2>1 DEF LastHash, NoHash
  <2>2. CASE Readable # {}
    <3>1. m \in Readable
      BY <1>2, <2>2, NewestLine
    <3>2. LastHash = log[m].hash
      BY <2>2 DEF LastHash
    <3> HIDE DEF m
    <3>3. QED
      BY <1>1, <1>2, <3>1, <3>2
  <2>3. QED
    BY <2>1, <2>2
<1>5. QED
  BY <1>3, <1>4

\* Writing a line leaves a sequence of lines.
LEMMA ExtendedType ==
    ASSUME log \in Seq(Line), NEW line \in Line
    PROVE  Extended(line) \in Seq(Line)
<1>1. CASE Len(log) > 0 /\ log[Len(log)].seg = line.seg /\ ~log[Len(log)].closed
  <2> DEFINE n == Len(log)
             merged == [line EXCEPT !.hash = NoHash, !.prev = NoHash, !.parses = FALSE,
                                    !.big = @ \/ log[n].big]
  <2>1. n \in 1 .. Len(log) /\ log[n] \in Line
    BY <1>1
  <2>2. merged \in Line
    BY <2>1 DEF Line, NoHash
  <2>3. Extended(line) = [log EXCEPT ![n] = merged]
    BY <1>1 DEF Extended
  <2> HIDE DEF merged
  <2>4. QED
    BY <2>1, <2>2, <2>3
<1>2. CASE ~(Len(log) > 0 /\ log[Len(log)].seg = line.seg /\ ~log[Len(log)].closed)
  <2>1. Extended(line) = Append(log, line)
    BY <1>2 DEF Extended
  <2>2. QED
    BY <2>1
<1>3. QED
  BY <1>1, <1>2

\* The segment append resolves is a number with a count.
LEMMA ActiveSegmentType ==
    ASSUME TypeOK
    PROVE  ActiveSegment \in [active : Nat, event_count : Nat]
<1>1. Cardinality({i \in DOMAIN log : log[i].seg = newest}) \in Nat
  BY LineCount DEF TypeOK
<1>2. QED
  BY <1>1, ShardAssumption DEF TypeOK, ActiveSegment

\* What Leave does to the types: the call's locals are cleared.
LEMMA LeaveType ==
    ASSUME TypeOK, NEW p \in Procs, Leave(p)
    PROVE  /\ lock' \subseteq Procs
           /\ pc' \in [Procs -> PCs]
           /\ loc' \in [Procs -> Locals]
<1>1. NoLocals \in Locals
  BY DEF NoLocals, Locals, NoHash
<1>2. QED
  BY <1>1 DEF TypeOK, Leave, Goto, PCs

\* Assigning one local variable of a call keeps its type.
LEMMA LocalsType ==
    ASSUME TypeOK, NEW p \in Procs
    PROVE  /\ loc[p] \in Locals
           /\ \A n \in Nat : [loc[p] EXCEPT !.hash = n] \in Locals
           /\ \A n \in Nat : [loc[p] EXCEPT !.count = n] \in Locals
           /\ \A b \in BOOLEAN : [loc[p] EXCEPT !.accept = b] \in Locals
           /\ [loc[p] EXCEPT !.fd = "none"] \in Locals
           /\ \A n \in Nat : [loc[p] EXCEPT !.fd = "tmp", !.count = n] \in Locals
           /\ \A r \in Locals : [loc EXCEPT ![p] = r] \in [Procs -> Locals]
<1>1. loc[p] \in Locals /\ \A r \in Locals : [loc EXCEPT ![p] = r] \in [Procs -> Locals]
  BY DEF TypeOK
<1>2. ASSUME NEW r \in Locals, NEW n \in Nat, NEW b \in BOOLEAN
      PROVE  /\ [r EXCEPT !.hash = n] \in Locals
             /\ [r EXCEPT !.count = n] \in Locals
             /\ [r EXCEPT !.accept = b] \in Locals
             /\ [r EXCEPT !.fd = "none"] \in Locals
             /\ [r EXCEPT !.fd = "tmp", !.count = n] \in Locals
  BY <1>2 DEF Locals
<1>3. QED
  BY <1>1, <1>2

\* Every step keeps the types.
LEMMA TypeStep == TypeOK /\ [Next]_vars => TypeOK'
<1> SUFFICES ASSUME TypeOK, [Next]_vars
             PROVE  TypeOK'
  OBVIOUS
<1> USE ShardAssumption
<1>a. NoLocals \in Locals
  BY DEF NoLocals, Locals, NoHash
<1>b. TailHash \in Nat /\ LastHash \in Nat
  BY TailType DEF TypeOK
<1>c. Cardinality(Readable) \in Nat /\ Len(log) \in Nat
  BY LineCount DEF TypeOK, Readable
<1>d. Lost \subseteq Nat
  BY DEF TypeOK, Lost
<1>e. ASSUME NEW p \in Procs PROVE loc[p] \in Locals
  BY <1>e DEF TypeOK
<1>1. ASSUME NEW p \in Procs, AppendBegin(p)
      PROVE  TypeOK'
  <2>1. meta' \in [active : Nat, event_count : Nat] /\ newest' \in Nat
    BY <1>1, ActiveSegmentType DEF AppendBegin, TypeOK
  <2>2. PICK b \in EntrySizes :
          loc' = [loc EXCEPT ![p] = [NoLocals EXCEPT !.op = "append", !.seg = meta'.active,
                                                     !.prev = pin.last_hash, !.big = b]]
    BY <1>1 DEF AppendBegin
  <2>3. [NoLocals EXCEPT !.op = "append", !.seg = meta'.active,
                         !.prev = pin.last_hash, !.big = b] \in Locals
    BY <1>a, <2>1 DEF TypeOK, Locals, PinFile
  <2>4. loc' \in [Procs -> Locals]
    BY <2>2, <2>3 DEF TypeOK
  <2>5. pc' \in [Procs -> PCs]
    BY <1>1 DEF AppendBegin, Goto, TypeOK, PCs
  <2>6. QED
    BY <1>1, <2>1, <2>4, <2>5 DEF AppendBegin, TypeOK, ghosts, faults
<1>2. ASSUME NEW p \in Procs, AppendWrite(p)
      PROVE  TypeOK'
  <2>1. NewLine(p) \in Line
    BY <1>e DEF NewLine, Line, Locals, TypeOK
  <2>2. log' \in Seq(Line)
    BY <1>2, <2>1, ExtendedType DEF AppendWrite, TypeOK
  <2>a. loc' = [loc EXCEPT ![p] = [loc[p] EXCEPT !.hash = written + 1]] /\ written + 1 \in Nat
    BY <1>2, SMTT(30) DEF AppendWrite, TypeOK
  <2>3. loc' \in [Procs -> Locals]
    BY <2>a, LocalsType
  <2>4. pc' \in [Procs -> PCs]
    BY <1>2 DEF AppendWrite, Goto, TypeOK, PCs
  <2>5. QED
    <3>1. UNCHANGED <<pin, tmp, meta, newest, lock, ghosts, faults>> /\ written' = written + 1
      BY <1>2 DEF AppendWrite
    <3>2. QED
      BY <2>2, <2>3, <2>4, <3>1 DEF TypeOK, ghosts, faults
<1>3. ASSUME NEW p \in Procs, AppendTorn(p)
      PROVE  TypeOK'
  <2>1. NewLine(p) \in Line
    BY <1>e DEF NewLine, Line, Locals, TypeOK
  <2> DEFINE whole == [NewLine(p) EXCEPT !.closed = FALSE]
             part(b) == [NewLine(p) EXCEPT !.closed = FALSE, !.parses = FALSE,
                                           !.hash = NoHash, !.prev = NoHash, !.big = b]
  <2>2. PICK fragment \in {whole} \cup {part(b) : b \in {FALSE, loc[p].big}} :
          log' = Extended(fragment)
    BY <1>3 DEF AppendTorn
  <2>3. whole \in Line /\ \A b \in BOOLEAN : part(b) \in Line
    BY <2>1 DEF Line, NoHash
  <2>4. fragment \in Line
    <3>1. loc[p].big \in BOOLEAN
      BY <1>e DEF Locals
    <3> HIDE DEF whole, part
    <3>2. QED
      BY <2>2, <2>3, <3>1
  <2>5. log' \in Seq(Line)
    BY <2>2, <2>4, ExtendedType DEF TypeOK
  <2>6. torn' \in 0 .. MaxTorn
    BY <1>3, SMTT(30) DEF AppendTorn, TypeOK
  <2>7. QED
    <3>1. /\ UNCHANGED <<pin, tmp, meta, newest, ghosts, fails, truncations>>
          /\ written' = written + 1 /\ Leave(p)
      BY <1>3 DEF AppendTorn
    <3>2. lock' \subseteq Procs /\ pc' \in [Procs -> PCs] /\ loc' \in [Procs -> Locals]
      BY <3>1, LeaveType
    <3> HIDE DEF whole, part
    <3>3. /\ pin' = pin /\ tmp' = tmp /\ meta' = meta /\ newest' = newest
          /\ committed' = committed /\ acked' = acked /\ forgiven' = forgiven
          /\ fails' = fails /\ truncations' = truncations
      BY <3>1 DEF ghosts
    <3>4. QED
      BY <2>5, <2>6, <3>1, <3>2, <3>3 DEF TypeOK
<1>4. ASSUME NEW p \in Procs, AppendMeta(p)
      PROVE  TypeOK'
  <2>1. meta' \in [active : Nat, event_count : Nat]
    BY <1>4, SMTT(30) DEF AppendMeta, TypeOK
  <2>2. acked' \subseteq Nat
    BY <1>4, <1>e DEF AppendMeta, TypeOK, Locals
  <2>3. Leave(p)
    BY <1>4 DEF AppendMeta
  <2>4. QED
    BY <1>4, <2>1, <2>2, <2>3, LeaveType DEF AppendMeta, TypeOK, faults
<1>5. ASSUME NEW p \in Procs, OpenTmp(p)
      PROVE  TypeOK'
  <2>a. PICK n \in Nat : loc' = [loc EXCEPT ![p] = [loc[p] EXCEPT !.fd = "tmp", !.count = n]]
    <3> DEFINE n == IF loc[p].op = "append" THEN pin.entry_count + 1 ELSE loc[p].count
    <3>1. n \in Nat
      BY <1>e DEF TypeOK, Locals, PinFile
    <3>2. loc' = [loc EXCEPT ![p] = [loc[p] EXCEPT !.fd = "tmp", !.count = n]]
      BY <1>5 DEF OpenTmp
    <3> HIDE DEF n
    <3>3. QED
      BY <3>1, <3>2
  <2>1. loc' \in [Procs -> Locals]
    BY <2>a, LocalsType
  <2>2. tmp' \in PinFile
    BY <1>5 DEF OpenTmp, Garbled, PinFile, NoHash
  <2>3. pc' \in [Procs -> PCs]
    BY <1>5 DEF OpenTmp, Goto, TypeOK, PCs
  <2>4. QED
    BY <1>5, <2>1, <2>2, <2>3 DEF OpenTmp, TypeOK, ghosts, faults
<1>6. ASSUME NEW p \in Procs, DumpTmp(p)
      PROVE  TypeOK'
  <2> DEFINE new == [kind |-> "json", last_hash |-> loc[p].hash, entry_count |-> loc[p].count]
  <2>a. new \in PinFile /\ Garbled \in PinFile
    <3>1. loc[p].hash \in Nat /\ loc[p].count \in Nat
      BY <1>e DEF Locals
    <3>2. QED
      BY <3>1 DEF PinFile, Garbled, NoHash
  <2>b. tmp' \in {tmp, new, Garbled} /\ pin' \in {pin, new, Garbled}
    BY <1>6 DEF DumpTmp, Overwrites
  <2>1. tmp' \in PinFile /\ pin' \in PinFile
    <3> HIDE DEF new
    <3>1. QED
      BY <2>a, <2>b DEF TypeOK
  <2>2. loc' \in [Procs -> Locals]
    BY <1>6, LocalsType DEF DumpTmp
  <2>3. pc' \in [Procs -> PCs]
    BY <1>6 DEF DumpTmp, Goto, TypeOK, PCs
  <2>4. QED
    BY <1>6, <2>1, <2>2, <2>3 DEF DumpTmp, TypeOK, ghosts, faults
<1>7. ASSUME NEW p \in Procs, ReplaceTmp(p)
      PROVE  TypeOK'
  <2> DEFINE moved == [q \in Procs |->
                         [loc[q] EXCEPT !.fd = IF @ = "tmp" THEN "pin"
                                               ELSE IF @ = "pin" THEN "gone" ELSE @]]
  <2>1. moved \in [Procs -> Locals]
    BY <1>e DEF Locals
  <2>2. loc' = moved \/ loc' = [moved EXCEPT ![p] = NoLocals]
    BY <1>7 DEF ReplaceTmp
  <2>3. loc' \in [Procs -> Locals]
    <3> HIDE DEF moved
    <3>1. QED
      BY <1>a, <2>1, <2>2
  <2>4. pc' \in [Procs -> PCs] /\ lock' \subseteq Procs
    BY <1>7 DEF ReplaceTmp, Goto, TypeOK, PCs
  <2>5. pin' \in PinFile /\ tmp' \in PinFile
    BY <1>7 DEF ReplaceTmp, TypeOK, PinFile, Absent, NoHash
  <2>6. committed' \subseteq Nat /\ forgiven' \subseteq Nat
    BY <1>7, <1>d DEF ReplaceTmp, TypeOK, PinFile
  <2>7. QED
    BY <1>7, <2>3, <2>4, <2>5, <2>6 DEF ReplaceTmp, TypeOK, faults
<1>8. ASSUME NEW p \in Procs, ReplaceFails(p)
      PROVE  TypeOK'
  BY <1>8, LeaveType DEF ReplaceFails, TypeOK, ghosts, faults
<1>9. ASSUME NEW p \in Procs, RecoverBegin(p)
      PROVE  TypeOK'
  <2>1. [NoLocals EXCEPT !.op = "reconcile", !.prev = pin.last_hash] \in Locals
    BY <1>a DEF TypeOK, Locals, PinFile
  <2>2. loc' \in [Procs -> Locals]
    BY <1>9, <2>1 DEF RecoverBegin, TypeOK
  <2>3. pc' \in [Procs -> PCs]
    BY <1>9 DEF RecoverBegin, Goto, TypeOK, PCs
  <2>4. QED
    BY <1>9, <2>2, <2>3 DEF RecoverBegin, TypeOK, ghosts, faults
<1>10. ASSUME NEW p \in Procs, RecoverTail(p)
       PROVE  TypeOK'
  <2>1. CASE Leave(p)
    BY <1>10, <2>1, LeaveType DEF RecoverTail, TypeOK, ghosts, faults
  <2>2. CASE /\ loc' = [loc EXCEPT ![p].hash = TailHash]
             /\ Goto(p, "count")
             /\ UNCHANGED lock
    <3>1. loc' \in [Procs -> Locals]
      BY <2>2, <1>b, LocalsType
    <3>2. pc' \in [Procs -> PCs]
      BY <2>2 DEF Goto, TypeOK, PCs
    <3>3. QED
      BY <1>10, <2>2, <3>1, <3>2 DEF RecoverTail, TypeOK, ghosts, faults
  <2>3. QED
    BY <1>10, <2>1, <2>2 DEF RecoverTail
<1>11. ASSUME NEW p \in Procs, RecoverCount(p)
       PROVE  TypeOK'
  <2>1. loc' \in [Procs -> Locals]
    BY <1>11, <1>c, LocalsType DEF RecoverCount
  <2>2. pc' \in [Procs -> PCs]
    BY <1>11 DEF RecoverCount, Goto, TypeOK, PCs
  <2>3. QED
    BY <1>11, <2>1, <2>2 DEF RecoverCount, TypeOK, ghosts, faults
<1>12. ASSUME NEW p \in Procs, NEW a \in BOOLEAN, RecoverDecide(p, a)
       PROVE  TypeOK'
  <2> DEFINE nonforward == pin.kind = "json" /\ loc[p].count <= pin.entry_count
  <2>1. CASE Leave(p)
    BY <1>12, <2>1, LeaveType DEF RecoverDecide, TypeOK, ghosts, faults
  <2>2. CASE /\ loc' = [loc EXCEPT ![p].accept = nonforward]
             /\ Goto(p, "open")
             /\ UNCHANGED lock
    <3>1. nonforward \in BOOLEAN
      OBVIOUS
    <3>2. loc' \in [Procs -> Locals]
      <4> HIDE DEF nonforward
      <4>1. QED
        BY <2>2, <3>1, LocalsType
    <3>3. pc' \in [Procs -> PCs]
      BY <2>2 DEF Goto, TypeOK, PCs
    <3>4. QED
      BY <1>12, <2>2, <3>2, <3>3 DEF RecoverDecide, TypeOK, ghosts, faults
  <2>3. QED
    BY <1>12, <2>1, <2>2 DEF RecoverDecide
<1>13. ASSUME NEW p \in Procs, VerifyRead(p)
       PROVE  TypeOK'
  <2>1. ChainBroken \in BOOLEAN
    BY DEF ChainBroken
  <2>2. [NoLocals EXCEPT !.op = "verify", !.count = Cardinality(Readable),
                         !.hash = LastHash, !.broken = ChainBroken, !.missing = Lost]
        \in Locals
    BY <1>a, <1>b, <1>c, <1>d, <2>1 DEF Locals
  <2>3. loc' \in [Procs -> Locals]
    BY <1>13, <2>2 DEF VerifyRead, TypeOK
  <2>4. pc' \in [Procs -> PCs]
    BY <1>13 DEF VerifyRead, Goto, TypeOK, PCs
  <2>5. QED
    BY <1>13, <2>3, <2>4 DEF VerifyRead, TypeOK, ghosts, faults
<1>14. ASSUME NEW p \in Procs, VerifyPin(p)
       PROVE  TypeOK'
  BY <1>14, LeaveType DEF VerifyPin, TypeOK, ghosts, faults
<1>15. ASSUME NEW p \in Procs, Fail(p)
       PROVE  TypeOK'
  <2>1. fails' \in 0 .. MaxFails
    BY <1>15 DEF Fail, TypeOK
  <2>2. QED
    BY <1>15, <2>1, LeaveType DEF Fail, TypeOK, ghosts
<1>16. CASE LoseMeta
  <2>1. fails' \in 0 .. MaxFails
    BY <1>16 DEF LoseMeta, TypeOK
  <2>2. QED
    BY <1>16, <2>1 DEF LoseMeta, TypeOK, ghosts
<1>17. CASE Truncate
  <2>1. PICK n \in 0 .. Len(log) - 1 : log' = SubSeq(log, 1, n)
    BY <1>17 DEF Truncate
  <2>2. log' \in Seq(Line)
    BY <2>1, PrefixLines DEF TypeOK
  <2>3. truncations' \in 0 .. MaxTruncations
    BY <1>17 DEF Truncate, TypeOK
  <2>4. QED
    BY <1>17, <2>2, <2>3 DEF Truncate, TypeOK, ghosts
<1>18. CASE UNCHANGED vars
  BY <1>18 DEF vars, ghosts, faults, TypeOK
<1>19. QED
  BY <1>1, <1>2, <1>3, <1>4, <1>5, <1>6, <1>7, <1>8, <1>9, <1>10, <1>11, <1>12, <1>13,
     <1>14, <1>15, <1>16, <1>17, <1>18 DEF Next, Step

\* The files and the processes' state keep their types, whatever fails.
THEOREM TypeCorrect == Spec => []TypeOK
<1>1. Init => TypeOK
  BY ShardAssumption DEF Init, TypeOK, PinFile, Absent, PCs, Locals, NoLocals, NoHash
<1>2. QED
  BY <1>1, TypeStep, PTL DEF Spec

----------------------------------------------------------------------------
(* Write order.  WriteOrder is not inductive: it needs that the metadata names the      *)
(* newest segment file, and that a process about to write was told that segment and    *)
(* still holds the lock, so that no rotation happened since.                            *)

SegmentInv ==
    /\ meta.active \in {0, newest}
    /\ \A i \in DOMAIN log : log[i].seg <= newest
    /\ \A p \in Procs : pc[p] = "write" => p \in lock /\ loc[p].seg = newest
    /\ WriteOrder

\* Which lines a write can change: the last one, or a new one after it, both of the
\* segment it was made to.
LEMMA ExtendedLines ==
    ASSUME log \in Seq(Line), NEW line \in Line
    PROVE  /\ Len(Extended(line)) \in {Len(log), Len(log) + 1}
           /\ Len(Extended(line)) >= 1
           /\ \A i \in DOMAIN Extended(line) :
                IF i = Len(Extended(line)) THEN Extended(line)[i].seg = line.seg
                ELSE i \in DOMAIN log /\ Extended(line)[i] = log[i]
<1>1. CASE Len(log) > 0 /\ log[Len(log)].seg = line.seg /\ ~log[Len(log)].closed
  <2> DEFINE n == Len(log)
             merged == [line EXCEPT !.hash = NoHash, !.prev = NoHash, !.parses = FALSE,
                                    !.big = @ \/ log[n].big]
  <2>1. n \in 1 .. Len(log)
    BY <1>1
  <2>2. merged.seg = line.seg
    BY DEF Line
  <2>3. Extended(line) = [log EXCEPT ![n] = merged]
    BY <1>1 DEF Extended
  <2> HIDE DEF merged
  <2>4. QED
    BY <2>1, <2>2, <2>3
<1>2. CASE ~(Len(log) > 0 /\ log[Len(log)].seg = line.seg /\ ~log[Len(log)].closed)
  <2>1. Extended(line) = Append(log, line)
    BY <1>2 DEF Extended
  <2>2. QED
    BY <2>1
<1>3. QED
  BY <1>1, <1>2

\* A write to the newest segment keeps the order.
LEMMA WriteKeepsOrder ==
    ASSUME TypeOK, SegmentInv, NEW line \in Line, line.seg = newest,
           log' = Extended(line), newest' = newest
    PROVE  WriteOrder' /\ \A i \in DOMAIN log' : log'[i].seg <= newest'
<1>1. \A i \in DOMAIN log' : IF i = Len(log') THEN log'[i].seg = newest
                             ELSE i \in DOMAIN log /\ log'[i] = log[i]
  BY ExtendedLines DEF TypeOK
<1>2. log' \in Seq(Line) /\ newest \in Nat
  BY ExtendedType DEF TypeOK
<1>3. \A i \in DOMAIN log' : log'[i].seg <= newest
  BY <1>1, <1>2 DEF SegmentInv
<1>4. ASSUME NEW i \in DOMAIN log', NEW j \in DOMAIN log', i < j
      PROVE  log'[i].seg <= log'[j].seg
  <2>1. i # Len(log')
    BY <1>2, <1>4
  <2>2. CASE j = Len(log')
    BY <1>1, <1>3, <2>2
  <2>3. CASE j # Len(log')
    BY <1>1, <1>4, <2>1, <2>3 DEF SegmentInv, WriteOrder
  <2>4. QED
    BY <2>2, <2>3
<1>5. QED
  BY <1>3, <1>4 DEF WriteOrder

\* Every step keeps SegmentInv.
LEMMA SegmentStep == TypeOK /\ SegmentInv /\ [Next]_vars => SegmentInv'
<1> SUFFICES ASSUME TypeOK, SegmentInv, [Next]_vars
             PROVE  SegmentInv'
  OBVIOUS
<1>1. ASSUME NEW p \in Procs, AppendBegin(p)
      PROVE  SegmentInv'
  <2>1. lock = {} /\ lock' = {p} /\ log' = log /\ pc' = [pc EXCEPT ![p] = "write"]
    BY <1>1 DEF AppendBegin, Goto
  <2>2. meta' = ActiveSegment /\ ActiveSegment \in [active : Nat, event_count : Nat]
    BY <1>1, ActiveSegmentType DEF AppendBegin
  <2>3. newest' = meta'.active /\ newest <= newest'
    BY <1>1, <2>2 DEF AppendBegin, ActiveSegment, SegmentInv, TypeOK
  <2>4. loc'[p].seg = meta'.active
    BY <1>1 DEF AppendBegin, TypeOK, NoLocals, Locals
  <2>5. \A q \in Procs : pc'[q] = "write" => q = p
    BY <2>1 DEF SegmentInv, TypeOK
  <2>6. \A i \in DOMAIN log' : log'[i].seg <= newest'
    <3>0. \A i \in DOMAIN log : log[i] \in Line
      BY DEF TypeOK
    <3>1. \A i \in DOMAIN log : log[i].seg \in Nat
      BY <3>0 DEF Line
    <3>2. newest \in Nat /\ newest' \in Nat
      BY <2>2, <2>3 DEF TypeOK
    <3>3. QED
      BY <2>1, <2>3, <3>1, <3>2 DEF SegmentInv
  <2>7. QED
    BY <2>1, <2>3, <2>4, <2>5, <2>6 DEF SegmentInv, WriteOrder
<1>2. ASSUME NEW p \in Procs, AppendWrite(p)
      PROVE  SegmentInv'
  <2>1. NewLine(p) \in Line /\ NewLine(p).seg = newest
    <3>1. loc[p] \in Locals /\ loc[p].seg = newest
      BY <1>2 DEF AppendWrite, SegmentInv, TypeOK
    <3>2. QED
      BY <3>1 DEF NewLine, Line, Locals, TypeOK
  <2>2. log' = Extended(NewLine(p)) /\ UNCHANGED <<newest, meta, lock>>
    BY <1>2 DEF AppendWrite
  <2>3. WriteOrder' /\ \A i \in DOMAIN log' : log'[i].seg <= newest'
    BY <2>1, <2>2, WriteKeepsOrder
  <2>4. \A q \in Procs : pc'[q] = "write" => pc[q] = "write" /\ loc'[q] = loc[q]
    BY <1>2 DEF AppendWrite, Goto, TypeOK
  <2>5. QED
    BY <2>2, <2>3, <2>4 DEF SegmentInv
<1>3. ASSUME NEW p \in Procs, AppendTorn(p)
      PROVE  SegmentInv'
  <2>1. NewLine(p) \in Line /\ NewLine(p).seg = newest
    <3>1. loc[p] \in Locals /\ loc[p].seg = newest
      BY <1>3 DEF AppendTorn, SegmentInv, TypeOK
    <3>2. QED
      BY <3>1 DEF NewLine, Line, Locals, TypeOK
  <2> DEFINE whole == [NewLine(p) EXCEPT !.closed = FALSE]
             part(b) == [NewLine(p) EXCEPT !.closed = FALSE, !.parses = FALSE,
                                           !.hash = NoHash, !.prev = NoHash, !.big = b]
  <2>2. PICK fragment \in {whole} \cup {part(b) : b \in {FALSE, loc[p].big}} :
          log' = Extended(fragment)
    BY <1>3 DEF AppendTorn
  <2>3. /\ whole \in Line /\ whole.seg = newest
        /\ \A b \in BOOLEAN : part(b) \in Line /\ part(b).seg = newest
    BY <2>1 DEF Line, NoHash
  <2>4. fragment \in Line /\ fragment.seg = newest
    <3>1. loc[p].big \in BOOLEAN
      BY DEF Locals, TypeOK
    <3> HIDE DEF whole, part
    <3>2. QED
      BY <2>2, <2>3, <3>1
  <2>5. Leave(p) /\ UNCHANGED <<newest, meta>>
    BY <1>3 DEF AppendTorn
  <2> HIDE DEF whole, part
  <2>6. WriteOrder' /\ \A i \in DOMAIN log' : log'[i].seg <= newest'
    BY <2>2, <2>4, <2>5, WriteKeepsOrder
  <2>7. \A q \in Procs : pc'[q] = "write" =>
           pc[q] = "write" /\ loc'[q] = loc[q] /\ (q \in lock => q \in lock')
    BY <2>5 DEF Leave, Goto, TypeOK
  <2>8. QED
    BY <2>5, <2>6, <2>7 DEF SegmentInv
<1>4. ASSUME log' = log, newest' = newest, meta'.active \in {0, meta.active},
             \A q \in Procs : pc'[q] = "write" =>
               pc[q] = "write" /\ loc'[q].seg = loc[q].seg /\ (q \in lock => q \in lock')
      PROVE  SegmentInv'
  BY <1>4 DEF SegmentInv, WriteOrder
<1>5. ASSUME NEW p \in Procs, Leave(p), log' = log, newest' = newest,
             meta'.active \in {0, meta.active}
      PROVE  SegmentInv'
  <2>1. \A q \in Procs : pc'[q] = "write" =>
          pc[q] = "write" /\ loc'[q].seg = loc[q].seg /\ (q \in lock => q \in lock')
    BY <1>5 DEF Leave, Goto, TypeOK
  <2>2. QED
    BY <1>4, <1>5, <2>1
<1>6. ASSUME NEW p \in Procs, AppendMeta(p) \/ VerifyPin(p) \/ ReplaceFails(p) \/ Fail(p)
      PROVE  SegmentInv'
  <2>1. Leave(p) /\ log' = log /\ newest' = newest /\ meta'.active \in {0, meta.active}
    BY <1>6 DEF AppendMeta, VerifyPin, ReplaceFails, Fail, TypeOK
  <2>2. QED
    BY <1>5, <2>1
<1>7. ASSUME NEW p \in Procs, OpenTmp(p) \/ DumpTmp(p) \/ RecoverBegin(p) \/ RecoverCount(p)
                              \/ VerifyRead(p)
      PROVE  SegmentInv'
  <2>1. log' = log /\ newest' = newest /\ meta' = meta /\ lock' = lock
    BY <1>7 DEF OpenTmp, DumpTmp, RecoverBegin, RecoverCount, VerifyRead
  <2>2. \A q \in Procs : pc'[q] = "write" => pc[q] = "write" /\ loc'[q] = loc[q]
    BY <1>7 DEF OpenTmp, DumpTmp, RecoverBegin, RecoverCount, VerifyRead, Goto, TypeOK
  <2>3. QED
    BY <1>4, <2>1, <2>2
<1>8. ASSUME NEW p \in Procs, ReplaceTmp(p)
      PROVE  SegmentInv'
  <2>1. log' = log /\ newest' = newest /\ meta' = meta /\ lock \ {p} \subseteq lock'
    BY <1>8 DEF ReplaceTmp
  <2>2. \A q \in Procs : pc'[q] = "write" => q # p /\ pc[q] = "write"
    BY <1>8 DEF ReplaceTmp, Goto, TypeOK
  <2>3. \A q \in Procs : q # p => loc'[q].seg = loc[q].seg
    BY <1>8, ZenonT(40) DEF ReplaceTmp, TypeOK, Locals
  <2>4. QED
    BY <1>4, <2>1, <2>2, <2>3
<1>9. ASSUME NEW p \in Procs,
             RecoverTail(p) \/ \E a \in BOOLEAN : RecoverDecide(p, a)
      PROVE  SegmentInv'
  <2>1. log' = log /\ newest' = newest /\ meta' = meta
    BY <1>9 DEF RecoverTail, RecoverDecide
  <2>2. CASE Leave(p)
    BY <1>5, <2>1, <2>2
  <2>3. CASE ~Leave(p)
    <3>1. lock' = lock /\ \A q \in Procs : pc'[q] = "write" => pc[q] = "write" /\ loc'[q] = loc[q]
      BY <1>9, <2>3 DEF RecoverTail, RecoverDecide, Goto, TypeOK
    <3>2. QED
      BY <1>4, <2>1, <3>1
  <2>4. QED
    BY <2>2, <2>3
<1>10. CASE LoseMeta
  BY <1>4, <1>10 DEF LoseMeta
<1>11. CASE Truncate
  <2>1. PICK n \in 0 .. Len(log) - 1 : log' = SubSeq(log, 1, n)
    BY <1>11 DEF Truncate
  <2>2. \A i \in DOMAIN log' : i \in DOMAIN log /\ log'[i] = log[i]
    BY <2>1, PrefixLines DEF TypeOK
  <2>3. WriteOrder' /\ \A i \in DOMAIN log' : log'[i].seg <= newest
    BY <2>2 DEF SegmentInv, WriteOrder
  <2>4. QED
    BY <1>11, <2>3 DEF Truncate, SegmentInv
<1>12. CASE UNCHANGED vars
  BY <1>4, <1>12 DEF vars
<1>13. QED
  BY <1>1, <1>2, <1>3, <1>6, <1>7, <1>8, <1>9, <1>10, <1>11, <1>12 DEF Next, Step

\* Reading the segments by number is reading in write order: whatever crashed, was torn,
\* truncated or rotated, and even when segment_meta.json was lost.
THEOREM SegmentsInWriteOrder == Spec => []WriteOrder
<1>1. Init => SegmentInv
  BY DEF Init, SegmentInv, WriteOrder
<1>2. SegmentInv => WriteOrder
  BY DEF SegmentInv
<1>3. QED
  BY <1>1, <1>2, TypeCorrect, SegmentStep, PTL DEF Spec
----------------------------------------------------------------------------
(* The pin and the segment sizes when reconcile_shard runs undisturbed      *)
(* (QuietRecovery): at startup, before the processes that append.           *)

Busy(p) == loc[p].op \in {"append", "reconcile"}

\* What a process is doing, and what it is about to publish: never a step back.
ProcPin(p) ==
    /\ loc[p].op = "append" => p \in lock
    /\ pc[p] = "idle" => loc[p] = NoLocals
    /\ pc[p] \in {"write", "meta"} => loc[p].op = "append"
    /\ pc[p] \in {"tail", "count", "decide"} => loc[p].op = "reconcile"
    /\ pc[p] \in {"open", "dump", "replace"} => Busy(p)
    /\ pc[p] = "observe" => loc[p].op = "verify"
    /\ loc[p].fd = IF pc[p] = "dump" THEN "tmp" ELSE "none"
    /\ pc[p] = "dump" => tmp = Garbled
    /\ pc[p] = "replace" =>
         tmp = [kind |-> "json", last_hash |-> loc[p].hash, entry_count |-> loc[p].count]
    /\ pc[p] \in {"dump", "replace"} /\ loc[p].op = "append" =>
         loc[p].count = pin.entry_count + 1
    /\ pc[p] \in {"open", "dump", "replace"} /\ loc[p].op = "reconcile" /\ ~loc[p].accept =>
         loc[p].count >= pin.entry_count

\* One process at a time is between the first and the last step of append or of
\* reconcile_shard, so the temporary file is private to it and the pin is never garbled.
PinInv ==
    /\ \A p, q \in Procs : Busy(p) /\ Busy(q) => p = q
    /\ \A p \in Procs : ProcPin(p)
    /\ pin = Absent \/ pin.kind = "json"

----------------------------------------------------------------------------
(* The pin *)

\* A process that takes no part in a step keeps ProcPin: either the files it relies on
\* are untouched, or the process that touches them is the only busy one.
LEMMA OthersPin ==
    ASSUME TypeOK, PinInv, NEW p \in Procs, NEW q \in Procs, q # p,
           pc'[q] = pc[q], loc'[q] = loc[q], q \in lock => q \in lock',
           Busy(p) \/ (tmp' = tmp /\ pin' = pin)
    PROVE  ProcPin(q)'
<1>1. ProcPin(q)
  BY DEF PinInv
<1>2. CASE tmp' = tmp /\ pin' = pin
  BY <1>1, <1>2 DEF ProcPin, Busy
<1>3. CASE Busy(p)
  <2>1. ~Busy(q)
    BY <1>3 DEF PinInv
  <2>2. pc[q] \in {"idle", "observe"}
    BY <1>1, <2>1 DEF ProcPin, Busy, TypeOK, PCs
  <2>3. QED
    BY <1>1, <2>1, <2>2 DEF ProcPin, Busy
<1>4. QED
  BY <1>2, <1>3

\* A step of p that leaves the other processes' calls alone, sets none of the files they
\* use, and leaves p with ProcPin, keeps PinInv.
LEMMA PinStepOf ==
    ASSUME TypeOK, PinInv, NEW p \in Procs,
           \A q \in Procs : q # p => pc'[q] = pc[q] /\ loc'[q] = loc[q],
           \A q \in lock : q # p => q \in lock',
           Busy(p) \/ (tmp' = tmp /\ pin' = pin),
           Busy(p)' => Busy(p) \/ \A q \in Procs : ~Busy(q),
           ProcPin(p)', pin' = Absent \/ pin'.kind = "json"
    PROVE  PinInv'
<1>1. \A q \in Procs : ProcPin(q)'
  <2> SUFFICES ASSUME NEW q \in Procs, q # p
               PROVE  ProcPin(q)'
    OBVIOUS
  <2>1. QED
    BY OthersPin
<1>2. \A q \in Procs : q # p /\ Busy(q)' => Busy(q)
  BY DEF Busy
<1>3. \A q, r \in Procs : Busy(q)' /\ Busy(r)' => q = r
  BY <1>2 DEF PinInv
<1>4. QED
  BY <1>1, <1>3 DEF PinInv

\* The call of p ends.
LEMMA PinLeave ==
    ASSUME TypeOK, PinInv, NEW p \in Procs, Leave(p), tmp' = tmp, pin' = pin
    PROVE  PinInv'
<1>1. pc'[p] = "idle" /\ loc'[p] = NoLocals
  BY DEF Leave, Goto, TypeOK
<1>2. ProcPin(p)' /\ ~Busy(p)'
  BY <1>1 DEF ProcPin, Busy, NoLocals
<1>3. \A q \in Procs : q # p => pc'[q] = pc[q] /\ loc'[q] = loc[q]
  BY DEF Leave, Goto, TypeOK
<1>4. \A q \in lock : q # p => q \in lock'
  BY DEF Leave
<1>5. pin' = Absent \/ pin'.kind = "json"
  BY DEF PinInv
<1>6. QED
  BY <1>2, <1>3, <1>4, <1>5, PinStepOf

\* Every step keeps PinInv when reconcile_shard runs undisturbed.
LEMMA PinStep == QuietRecovery /\ TypeOK /\ PinInv /\ [Next]_vars => PinInv'
<1> SUFFICES ASSUME QuietRecovery, TypeOK, PinInv, [Next]_vars
             PROVE  PinInv'
  OBVIOUS
<1>a. ASSUME NEW p \in Procs
      PROVE  ProcPin(p) /\ loc[p] \in Locals /\ pc[p] \in PCs
  BY <1>a DEF PinInv, TypeOK
<1>b. pin = Absent \/ pin.kind = "json"
  BY DEF PinInv
<1>1. ASSUME NEW p \in Procs, AppendBegin(p)
      PROVE  PinInv'
  <2>1. \A q \in Procs : ~Busy(q)
    BY <1>1, <1>a DEF AppendBegin, Busy, ProcPin
  <2>2. pc' = [pc EXCEPT ![p] = "write"] /\ lock' = {p} /\ lock = {} /\ tmp' = tmp /\ pin' = pin
    BY <1>1 DEF AppendBegin, Goto
  <2>3. loc'[p].op = "append" /\ loc'[p].fd = "none"
    BY <1>1 DEF AppendBegin, TypeOK, NoLocals
  <2>4. \A q \in Procs : q # p => pc'[q] = pc[q] /\ loc'[q] = loc[q]
    BY <1>1, <2>2 DEF AppendBegin, TypeOK
  <2>5. ProcPin(p)'
    BY <2>2, <2>3 DEF ProcPin, TypeOK
  <2>6. QED
    BY <1>b, <2>1, <2>2, <2>4, <2>5, PinStepOf
<1>2. ASSUME NEW p \in Procs, AppendWrite(p)
      PROVE  PinInv'
  <2>1. pc'[p] = "open" /\ pc[p] = "write" /\ UNCHANGED <<lock, tmp, pin>>
    BY <1>2 DEF AppendWrite, Goto, TypeOK
  <2>2. loc'[p] = [loc[p] EXCEPT !.hash = written + 1]
    BY <1>2 DEF AppendWrite, TypeOK
  <2>3. \A q \in Procs : q # p => pc'[q] = pc[q] /\ loc'[q] = loc[q]
    BY <1>2 DEF AppendWrite, Goto, TypeOK
  <2>4. loc[p].op = "append" /\ loc'[p].op = "append" /\ loc'[p].fd = "none" /\ p \in lock
    BY <2>1, <2>2, <1>a DEF ProcPin, Locals
  <2>5. ProcPin(p)' /\ Busy(p)
    BY <2>1, <2>4 DEF ProcPin, Busy
  <2>6. QED
    BY <1>b, <2>1, <2>3, <2>5, PinStepOf
<1>3. ASSUME NEW p \in Procs,
             AppendTorn(p) \/ AppendMeta(p) \/ ReplaceFails(p) \/ VerifyPin(p) \/ Fail(p)
      PROVE  PinInv'
  <2>1. Leave(p) /\ tmp' = tmp /\ pin' = pin
    BY <1>3 DEF AppendTorn, AppendMeta, ReplaceFails, VerifyPin, Fail
  <2>2. QED
    BY <2>1, PinLeave
<1>4. ASSUME NEW p \in Procs, OpenTmp(p)
      PROVE  PinInv'
  <2> DEFINE n == IF loc[p].op = "append" THEN pin.entry_count + 1 ELSE loc[p].count
  <2>1. pc'[p] = "dump" /\ pc[p] = "open" /\ lock' = lock /\ pin' = pin /\ tmp' = Garbled
    BY <1>4 DEF OpenTmp, Goto, TypeOK
  <2>2. loc'[p] = [loc[p] EXCEPT !.fd = "tmp", !.count = n]
    BY <1>4 DEF OpenTmp, TypeOK
  <2>3. \A q \in Procs : q # p => pc'[q] = pc[q] /\ loc'[q] = loc[q]
    BY <1>4 DEF OpenTmp, Goto, TypeOK
  <2>4. /\ loc'[p].op = loc[p].op /\ loc'[p].fd = "tmp" /\ loc'[p].count = n
        /\ loc'[p].accept = loc[p].accept
    <3> HIDE DEF n
    <3>1. QED
      BY <2>2, <1>a DEF Locals
  <2>5. Busy(p)
    BY <2>1, <1>a DEF ProcPin
  <2>6. ProcPin(p)'
    BY <2>1, <2>4, <2>5, <1>a DEF ProcPin, Busy
  <2>7. QED
    BY <1>b, <2>1, <2>3, <2>5, <2>6, PinStepOf
<1>5. ASSUME NEW p \in Procs, DumpTmp(p)
      PROVE  PinInv'
  <2>1. pc'[p] = "replace" /\ pc[p] = "dump" /\ lock' = lock
    BY <1>5 DEF DumpTmp, Goto, TypeOK
  <2>2. loc[p].fd = "tmp" /\ tmp = Garbled /\ Busy(p)
    BY <2>1, <1>a DEF ProcPin
  <2>3. /\ tmp' = [kind |-> "json", last_hash |-> loc[p].hash, entry_count |-> loc[p].count]
        /\ pin' = pin
    BY <1>5, <2>2 DEF DumpTmp, Overwrites, Garbled
  <2>4. loc'[p] = [loc[p] EXCEPT !.fd = "none"]
    BY <1>5 DEF DumpTmp, TypeOK
  <2>5. \A q \in Procs : q # p => pc'[q] = pc[q] /\ loc'[q] = loc[q]
    BY <1>5 DEF DumpTmp, Goto, TypeOK
  <2>6. /\ loc'[p].op = loc[p].op /\ loc'[p].fd = "none" /\ loc'[p].count = loc[p].count
        /\ loc'[p].hash = loc[p].hash /\ loc'[p].accept = loc[p].accept
    BY <2>4, <1>a DEF Locals
  <2>7. ProcPin(p)'
    BY <2>1, <2>2, <2>3, <2>6, <1>a DEF ProcPin, Busy
  <2>8. QED
    BY <1>b, <2>1, <2>2, <2>3, <2>5, <2>7, PinStepOf
<1>6. ASSUME NEW p \in Procs, ReplaceTmp(p)
      PROVE  PinInv'
  <2>1. pc[p] = "replace" /\ Busy(p) /\ tmp.kind = "json" /\ pin' = tmp
    BY <1>6, <1>a DEF ReplaceTmp, ProcPin
  <2>2. ASSUME NEW q \in Procs
        PROVE  [loc[q] EXCEPT !.fd = IF @ = "tmp" THEN "pin"
                                     ELSE IF @ = "pin" THEN "gone" ELSE @] = loc[q]
    <3>1. loc[q].fd = "none"
      <4>1. pc[q] # "dump"
        BY <1>a, <2>1 DEF PinInv, ProcPin
      <4>2. QED
        BY <1>a, <4>1 DEF ProcPin
    <3>2. loc[q] \in Locals
      BY <1>a
    <3>3. QED
      BY <3>1, <3>2 DEF Locals
  <2>3. \A q \in Procs : q # p => pc'[q] = pc[q] /\ loc'[q] = loc[q]
    BY <1>6, <2>2 DEF ReplaceTmp, Goto, TypeOK
  <2>4. \A q \in lock : q # p => q \in lock'
    BY <1>6 DEF ReplaceTmp
  <2>5. CASE loc[p].op = "append"
    <3>1. pc'[p] = "meta" /\ loc'[p] = loc[p] /\ lock' = lock
      BY <1>6, <2>2, <2>5 DEF ReplaceTmp, Goto, TypeOK
    <3>2. ProcPin(p)'
      BY <2>1, <2>5, <3>1, <1>a DEF ProcPin, Busy
    <3>3. QED
      BY <2>1, <2>3, <2>4, <3>2, PinStepOf
  <2>6. CASE loc[p].op # "append"
    <3>1. pc'[p] = "idle" /\ loc'[p] = NoLocals
      BY <1>6, <2>6 DEF ReplaceTmp, Goto, TypeOK
    <3>2. ProcPin(p)'
      BY <3>1 DEF ProcPin, Busy, NoLocals
    <3>3. QED
      BY <2>1, <2>3, <2>4, <3>2, PinStepOf
  <2>7. QED
    BY <2>5, <2>6
<1>7. ASSUME NEW p \in Procs, RecoverBegin(p)
      PROVE  PinInv'
  <2>1. pc'[p] = "tail" /\ pc[p] = "idle" /\ UNCHANGED <<lock, tmp, pin>>
    BY <1>7 DEF RecoverBegin, Goto, TypeOK
  <2>2. loc'[p].op = "reconcile" /\ loc'[p].fd = "none"
    BY <1>7 DEF RecoverBegin, TypeOK, NoLocals
  <2>3. \A q \in Procs : q # p => pc'[q] = pc[q] /\ loc'[q] = loc[q]
    BY <1>7 DEF RecoverBegin, Goto, TypeOK
  <2>4. \A q \in Procs : ~Busy(q)
    BY <1>7 DEF RecoverBegin, Busy
  <2>5. ProcPin(p)'
    BY <2>1, <2>2 DEF ProcPin, Busy
  <2>6. QED
    BY <1>b, <2>1, <2>3, <2>4, <2>5, PinStepOf
<1>8. ASSUME NEW p \in Procs, RecoverTail(p)
      PROVE  PinInv'
  <2>0. tmp' = tmp /\ pin' = pin /\ pc[p] = "tail"
    BY <1>8 DEF RecoverTail
  <2>1. CASE Leave(p)
    BY <2>0, <2>1, PinLeave
  <2>2. CASE /\ loc' = [loc EXCEPT ![p].hash = TailHash]
             /\ Goto(p, "count")
             /\ UNCHANGED lock
    <3>1. pc'[p] = "count" /\ loc'[p] = [loc[p] EXCEPT !.hash = TailHash] /\ lock' = lock
      BY <2>2 DEF Goto, TypeOK
    <3>2. \A q \in Procs : q # p => pc'[q] = pc[q] /\ loc'[q] = loc[q]
      BY <2>2 DEF Goto, TypeOK
    <3>3. loc[p].op = "reconcile" /\ loc'[p].op = "reconcile" /\ loc'[p].fd = "none"
      BY <2>0, <3>1, <1>a DEF ProcPin, Locals
    <3>4. ProcPin(p)' /\ Busy(p)
      BY <3>1, <3>3 DEF ProcPin, Busy
    <3>5. QED
      BY <1>b, <2>0, <3>1, <3>2, <3>4, PinStepOf
  <2>3. QED
    BY <1>8, <2>1, <2>2 DEF RecoverTail
<1>9. ASSUME NEW p \in Procs, RecoverCount(p)
      PROVE  PinInv'
  <2>1. pc'[p] = "decide" /\ pc[p] = "count" /\ UNCHANGED <<lock, tmp, pin>>
    BY <1>9 DEF RecoverCount, Goto, TypeOK
  <2>2. loc'[p] = [loc[p] EXCEPT !.count = Len(log)]
    BY <1>9 DEF RecoverCount, TypeOK
  <2>3. \A q \in Procs : q # p => pc'[q] = pc[q] /\ loc'[q] = loc[q]
    BY <1>9 DEF RecoverCount, Goto, TypeOK
  <2>4. loc[p].op = "reconcile" /\ loc'[p].op = "reconcile" /\ loc'[p].fd = "none"
    BY <2>1, <2>2, <1>a DEF ProcPin, Locals
  <2>5. ProcPin(p)' /\ Busy(p)
    BY <2>1, <2>4 DEF ProcPin, Busy
  <2>6. QED
    BY <1>b, <2>1, <2>3, <2>5, PinStepOf
<1>10. ASSUME NEW p \in Procs, NEW a \in BOOLEAN, RecoverDecide(p, a)
       PROVE  PinInv'
  <2> DEFINE nonforward == pin.kind = "json" /\ loc[p].count <= pin.entry_count
  <2>0. tmp' = tmp /\ pin' = pin /\ pc[p] = "decide"
    BY <1>10 DEF RecoverDecide
  <2>1. CASE Leave(p)
    BY <2>0, <2>1, PinLeave
  <2>2. CASE /\ loc' = [loc EXCEPT ![p].accept = nonforward]
             /\ Goto(p, "open")
             /\ UNCHANGED lock
    <3>1. pc'[p] = "open" /\ loc'[p] = [loc[p] EXCEPT !.accept = nonforward] /\ lock' = lock
      BY <2>2 DEF Goto, TypeOK
    <3>2. \A q \in Procs : q # p => pc'[q] = pc[q] /\ loc'[q] = loc[q]
      BY <2>2 DEF Goto, TypeOK
    <3>3. /\ loc[p].op = "reconcile" /\ loc'[p].op = "reconcile" /\ loc'[p].fd = "none"
          /\ loc'[p].count = loc[p].count /\ loc'[p].accept = nonforward
      <4> HIDE DEF nonforward
      <4>1. QED
        BY <2>0, <3>1, <1>a DEF ProcPin, Locals
    <3>4. ~nonforward => loc[p].count >= pin.entry_count
      <4>1. loc[p].count \in Nat /\ pin.entry_count \in Nat
        BY <1>a DEF TypeOK, PinFile, Locals
      <4>2. QED
        BY <4>1, <1>b DEF Absent
    <3>5. ProcPin(p)' /\ Busy(p)
      BY <2>0, <3>1, <3>3, <3>4 DEF ProcPin, Busy
    <3>6. QED
      BY <1>b, <2>0, <3>1, <3>2, <3>5, PinStepOf
  <2>3. QED
    BY <1>10, <2>1, <2>2 DEF RecoverDecide
<1>11. ASSUME NEW p \in Procs, VerifyRead(p)
       PROVE  PinInv'
  <2>1. pc'[p] = "observe" /\ pc[p] = "idle" /\ UNCHANGED <<lock, tmp, pin>>
    BY <1>11 DEF VerifyRead, Goto, TypeOK
  <2>2. loc'[p].op = "verify" /\ loc'[p].fd = "none"
    BY <1>11 DEF VerifyRead, TypeOK, NoLocals
  <2>3. \A q \in Procs : q # p => pc'[q] = pc[q] /\ loc'[q] = loc[q]
    BY <1>11 DEF VerifyRead, Goto, TypeOK
  <2>4. ProcPin(p)' /\ ~Busy(p)'
    BY <2>1, <2>2 DEF ProcPin, Busy
  <2>5. QED
    BY <1>b, <2>1, <2>3, <2>4, PinStepOf
<1>12. CASE LoseMeta \/ Truncate \/ UNCHANGED vars
  <2>1. UNCHANGED <<pin, tmp, lock, pc, loc>>
    BY <1>12 DEF LoseMeta, Truncate, vars
  <2>2. QED
    BY <2>1 DEF PinInv, ProcPin, Busy
<1>13. QED
  BY <1>1, <1>2, <1>3, <1>4, <1>5, <1>6, <1>7, <1>8, <1>9, <1>10, <1>11, <1>12
     DEF Next, Step

\* PinInv holds from the start.
LEMMA PinInit == Init => PinInv
  BY DEF Init, PinInv, ProcPin, Busy, NoLocals

\* Whatever is torn, truncated or killed, a pin is replaced by a whole pin whose count is
\* no smaller, except where an operator accepts a truncation: provided reconcile_shard
\* runs undisturbed.
THEOREM PinMonotone == QuietRecovery => (Spec => PinNeverRegresses)
<1> SUFFICES ASSUME QuietRecovery
             PROVE  Spec => PinNeverRegresses
  OBVIOUS
<1> DEFINE NoStepBack == \/ pin'.kind = "json" /\ pin'.entry_count >= pin.entry_count
                         \/ pin' = pin
                         \/ \E p \in Procs : loc[p].accept /\ pc[p] = "replace"
<1>1. TypeOK /\ PinInv /\ [Next]_vars => [NoStepBack]_vars
  <2> SUFFICES ASSUME TypeOK, PinInv, Next, pin' # pin
               PROVE  NoStepBack
    BY DEF vars
  <2>1. PICK p \in Procs : DumpTmp(p) \/ ReplaceTmp(p)
    BY DEF Next, Step, AppendBegin, RecoverBegin, VerifyRead, AppendTorn, Fail, LoseMeta,
           Truncate, AppendWrite, AppendMeta, OpenTmp, ReplaceFails, RecoverTail,
           RecoverCount, RecoverDecide, VerifyPin
  <2>2. ProcPin(p) /\ loc[p] \in Locals
    BY DEF PinInv, TypeOK
  <2>3. ~DumpTmp(p)
    BY <2>2 DEF DumpTmp, ProcPin
  <2>4. pc[p] = "replace" /\ pin' = tmp
    BY <2>1, <2>3 DEF ReplaceTmp
  <2>5. pin'.kind = "json" /\ pin'.entry_count = loc[p].count
    BY <2>2, <2>4 DEF ProcPin
  <2>6. CASE loc[p].op = "append"
    <3>1. loc[p].count = pin.entry_count + 1 /\ pin.entry_count \in Nat
      BY <2>2, <2>4, <2>6 DEF ProcPin, TypeOK, PinFile
    <3>2. QED
      BY <2>5, <3>1
  <2>7. CASE loc[p].op = "reconcile"
    BY <2>2, <2>4, <2>5, <2>7 DEF ProcPin
  <2>8. QED
    BY <2>2, <2>4, <2>6, <2>7 DEF ProcPin, Busy
<1>2. TypeOK /\ PinInv /\ [Next]_vars => PinInv'
  BY PinStep
<1>3. QED
  BY <1>1, <1>2, PinInit, TypeCorrect, PTL DEF Spec, PinNeverRegresses

----------------------------------------------------------------------------
(* Segment sizes.  SegmentBound is not inductive: how far a segment may still grow       *)
(* depends on what the metadata has counted.  A line is counted one step after it was    *)
(* written, unless that call failed, and metadata that was lost counts for one failure.  *)

SegmentLines(s) == Cardinality({i \in DOMAIN log : log[i].seg = s})

\* An append is about to write its line, or has written one it has not yet counted.
Writing == IF \E p \in Procs : pc[p] = "write" THEN 1 ELSE 0
Counting(p) == loc[p].op = "append" /\ pc[p] \in {"open", "dump", "replace", "meta"}
Uncounted == IF \E p \in Procs : Counting(p) THEN 1 ELSE 0
MetaLost == IF meta.active = 0 THEN 1 ELSE 0

BoundInv ==
    /\ \A s \in 1 .. newest : SegmentLines(s) <= MaxEvents + (fails + torn)
    /\ SegmentLines(newest) + Writing + MetaLost <= MaxEvents + (fails + torn)
    /\ meta.active # 0 => SegmentLines(newest) <= meta.event_count + (fails + torn) + Uncounted

\* The quantities BoundInv relates are numbers.
LEMMA BoundNumbers ==
    ASSUME TypeOK
    PROVE  /\ \A s : SegmentLines(s) \in Nat
           /\ Writing \in {0, 1} /\ Uncounted \in {0, 1} /\ MetaLost \in {0, 1}
           /\ fails \in Nat /\ torn \in Nat /\ MaxEvents \in Nat /\ MaxEvents >= 1
           /\ newest \in Nat /\ meta.active \in Nat /\ meta.event_count \in Nat
<1>1. ASSUME NEW s
      PROVE  SegmentLines(s) \in Nat
  <2>1. {i \in DOMAIN log : log[i].seg = s} \subseteq DOMAIN log
    OBVIOUS
  <2>2. QED
    BY <2>1, LineCount DEF TypeOK, SegmentLines
<1>2. QED
  BY <1>1, ShardAssumption DEF TypeOK, Writing, Uncounted, MetaLost

\* The same after a step.
LEMMA NewCounts ==
    ASSUME TypeOK'
    PROVE  \A s : SegmentLines(s)' \in Nat
<1> SUFFICES ASSUME NEW s
             PROVE  SegmentLines(s)' \in Nat
  OBVIOUS
<1>1. DOMAIN log' = 1 .. Len(log') /\ Len(log') \in Nat
  BY DEF TypeOK
<1>2. IsFiniteSet(1 .. Len(log'))
  BY <1>1, FS_Interval
<1>3. {i \in DOMAIN log' : log'[i].seg = s} \in SUBSET (1 .. Len(log'))
  BY <1>1
<1>4. IsFiniteSet({i \in DOMAIN log' : log'[i].seg = s})
  BY <1>2, <1>3, FS_Subset
<1>5. QED
  BY <1>4, FS_CardinalityType DEF SegmentLines

\* A segment none of whose lines is new has not grown.
LEMMA NoNewLines ==
    ASSUME TypeOK, NEW s,
           \A i \in DOMAIN log' : log'[i].seg = s => i \in DOMAIN log /\ log[i].seg = s
    PROVE  SegmentLines(s)' <= SegmentLines(s)
<1> DEFINE S == {i \in DOMAIN log : log[i].seg = s}
           T == {i \in DOMAIN log' : log'[i].seg = s}
<1>1. IsFiniteSet(S)
  <2>1. DOMAIN log = 1 .. Len(log) /\ Len(log) \in Nat
    BY DEF TypeOK
  <2>2. IsFiniteSet(1 .. Len(log))
    BY <2>1, FS_Interval
  <2>3. S \in SUBSET (1 .. Len(log))
    BY <2>1
  <2>4. QED
    BY <2>2, <2>3, FS_Subset
<1>2. T \in SUBSET S
  OBVIOUS
<1> HIDE DEF S, T
<1>3. Cardinality(T) <= Cardinality(S)
  BY <1>1, <1>2, FS_Subset
<1>4. QED
  BY <1>3 DEF S, T, SegmentLines

\* A write adds at most one line, to the segment it was made to.
LEMMA OneNewLine ==
    ASSUME TypeOK, NEW line \in Line, log' = Extended(line)
    PROVE  /\ \A s : s # line.seg => SegmentLines(s)' <= SegmentLines(s)
           /\ SegmentLines(line.seg)' <= SegmentLines(line.seg) + 1
<1> DEFINE n == Len(log')
           s == line.seg
           S == {i \in DOMAIN log : log[i].seg = s}
           T == {i \in DOMAIN log' : log'[i].seg = s}
<1>1. \A i \in DOMAIN log' : IF i = n THEN log'[i].seg = s
                             ELSE i \in DOMAIN log /\ log'[i] = log[i]
  BY ExtendedLines DEF TypeOK
<1>2. ASSUME NEW r, r # s
      PROVE  SegmentLines(r)' <= SegmentLines(r)
  <2>1. \A i \in DOMAIN log' : log'[i].seg = r => i \in DOMAIN log /\ log[i].seg = r
    BY <1>1, <1>2
  <2>2. QED
    BY <2>1, NoNewLines
<1>3. IsFiniteSet(S)
  <2>1. DOMAIN log = 1 .. Len(log) /\ Len(log) \in Nat
    BY DEF TypeOK
  <2>2. IsFiniteSet(1 .. Len(log))
    BY <2>1, FS_Interval
  <2>3. S \in SUBSET (1 .. Len(log))
    BY <2>1
  <2>4. QED
    BY <2>2, <2>3, FS_Subset
<1>4. T \in SUBSET (S \cup {n})
  BY <1>1
<1> HIDE DEF S, T, n
<1>5. /\ IsFiniteSet(S \cup {n}) /\ Cardinality(S) \in Nat
      /\ Cardinality(S \cup {n}) \in Nat /\ Cardinality(S \cup {n}) <= Cardinality(S) + 1
  BY <1>3, AddOne
<1>6. Cardinality(T) <= Cardinality(S \cup {n}) /\ IsFiniteSet(T)
  BY <1>4, <1>5, FS_Subset
<1>7. Cardinality(T) \in Nat
  BY <1>6, FS_CardinalityType
<1>8. Cardinality(T) <= Cardinality(S) + 1
  BY <1>5, <1>6, <1>7
<1>9. QED
  BY <1>2, <1>8 DEF S, T, SegmentLines

\* The arithmetic of the bounds, over constants: the provers do not add primed variables.
LEMMA SumOfNats ==
    ASSUME NEW x \in Nat, NEW y \in Nat
    PROVE  x + y \in Nat
  OBVIOUS

\* A step that writes no line: no append becomes ready to write without a failure's
\* worth of room, and a written line is counted, still to be counted, or lost to a failure.
LEMMA BoundKept ==
    ASSUME TypeOK, TypeOK', BoundInv, newest' = newest,
           \A i \in DOMAIN log' : i \in DOMAIN log /\ log'[i] = log[i],
           fails + torn <= fails' + torn',
           Writing' + MetaLost' + (fails + torn) <= Writing + MetaLost + (fails' + torn'),
           meta'.active # 0 =>
             /\ meta.active # 0
             /\ meta.event_count + (fails + torn) + Uncounted
                  <= meta'.event_count + (fails' + torn') + Uncounted'
    PROVE  BoundInv'
<1> DEFINE F == fails + torn
           G == fails' + torn'
           w == Writing'
           l == MetaLost'
           u == Uncounted'
           e == meta'.event_count
           n == SegmentLines(newest)
           m == SegmentLines(newest)'
<1>1. F <= G /\ w + l + F <= Writing + MetaLost + G
  OBVIOUS
<1>2. meta'.active # 0 =>
        meta.active # 0 /\ meta.event_count + F + Uncounted <= e + G + u
  OBVIOUS
<1>3. F \in Nat /\ G \in Nat /\ w \in Nat /\ l \in Nat /\ u \in Nat /\ e \in Nat
  <2>1. fails \in Nat /\ torn \in Nat /\ fails' \in Nat /\ torn' \in Nat
    BY DEF TypeOK
  <2>2. F \in Nat /\ G \in Nat
    BY <2>1, SumOfNats, Zenon
  <2> HIDE DEF F, G
  <2>3. QED
    BY <2>2 DEF TypeOK, Writing, MetaLost, Uncounted
<1>4. /\ Writing \in Nat /\ MetaLost \in Nat /\ Uncounted \in Nat /\ n \in Nat
      /\ meta.event_count \in Nat /\ MaxEvents \in Nat /\ newest \in Nat
  BY BoundNumbers
<1>5. /\ \A s \in 1 .. newest : SegmentLines(s) <= MaxEvents + F
      /\ n + Writing + MetaLost <= MaxEvents + F
      /\ meta.active # 0 => n <= meta.event_count + F + Uncounted
  BY DEF BoundInv
<1>6. /\ \A s : SegmentLines(s)' <= SegmentLines(s)
      /\ \A s : SegmentLines(s)' \in Nat /\ SegmentLines(s) \in Nat
  BY NoNewLines, NewCounts, BoundNumbers
<1>7. m \in Nat /\ m <= n
  BY <1>6
<1> HIDE DEF F, G, w, l, u, e, n, m
<1>8. ASSUME NEW s \in 1 .. newest
      PROVE  SegmentLines(s)' <= MaxEvents + G
  <2> DEFINE c == SegmentLines(s)'
  <2>1. c \in Nat /\ SegmentLines(s) \in Nat /\ c <= SegmentLines(s)
        /\ SegmentLines(s) <= MaxEvents + F
    BY <1>5, <1>6, <1>8
  <2> HIDE DEF c
  <2>2. c <= MaxEvents + G
    BY ONLY <1>1, <1>3, <1>4, <2>1
  <2>3. QED
    BY <2>2 DEF c
<1>9. m + w + l <= MaxEvents + G
  BY ONLY <1>1, <1>3, <1>4, <1>5, <1>7
<1>10. meta'.active # 0 => m <= e + G + u
  <2> SUFFICES ASSUME meta'.active # 0
               PROVE  m <= e + G + u
    OBVIOUS
  <2>1. n <= meta.event_count + F + Uncounted /\ meta.event_count + F + Uncounted <= e + G + u
    BY <1>2, <1>5
  <2>2. QED
    BY ONLY <1>3, <1>4, <1>7, <2>1
<1>11. QED
  BY <1>8, <1>9, <1>10 DEF BoundInv, G, w, l, u, e, m

\* Resolving the active segment for an append leaves room for one more line in it.
LEMMA BoundBegin ==
    ASSUME TypeOK, SegmentInv, PinInv, BoundInv, NEW p \in Procs, AppendBegin(p), TypeOK'
    PROVE  BoundInv'
<1>1. /\ log' = log /\ UNCHANGED <<fails, torn>> /\ meta' = ActiveSegment /\ lock = {}
      /\ pc' = [pc EXCEPT ![p] = "write"]
  BY DEF AppendBegin, faults, Goto
<1>2. newest' = meta'.active /\ meta'.active # 0 /\ MetaLost' = 0
  BY <1>1 DEF AppendBegin, ActiveSegment, SegmentInv, TypeOK, MetaLost
<1>3. \A s : SegmentLines(s)' = SegmentLines(s)
  BY <1>1 DEF SegmentLines
<1>4. Writing = 0 /\ Uncounted = 0
  <2>1. \A q \in Procs : loc[q].op # "append"
    BY <1>1 DEF PinInv, ProcPin
  <2>2. \A q \in Procs : pc[q] # "write"
    BY <2>1 DEF PinInv, ProcPin
  <2>3. QED
    BY <2>1, <2>2 DEF Writing, Uncounted, Counting
<1>5. Writing' = 1 /\ Uncounted' \in Nat
  BY <1>1 DEF Writing, Uncounted, TypeOK
<1>6. \A s \in Nat : s > newest => SegmentLines(s) = 0
  <2> SUFFICES ASSUME NEW s \in Nat, s > newest
               PROVE  SegmentLines(s) = 0
    OBVIOUS
  <2>1. \A i \in DOMAIN log : log[i].seg # s
    BY SMTT(30) DEF SegmentInv, TypeOK
  <2>2. {i \in DOMAIN log : log[i].seg = s} = {}
    BY <2>1
  <2>3. QED
    BY <2>2, FS_EmptySet DEF SegmentLines
<1> DEFINE F == fails + torn
<1>7. /\ F \in Nat /\ MaxEvents \in Nat /\ MaxEvents >= 1 /\ newest \in Nat
      /\ \A s : SegmentLines(s) \in Nat
      /\ meta.event_count \in Nat /\ meta.active \in {0, newest}
  BY BoundNumbers DEF SegmentInv
<1>8. /\ \A s \in 1 .. newest : SegmentLines(s) <= MaxEvents + F
      /\ SegmentLines(newest) + MetaLost <= MaxEvents + F
      /\ meta.active # 0 => SegmentLines(newest) <= meta.event_count + F
  BY <1>4, <1>7, BoundNumbers DEF BoundInv
<1>9. newest' \in {newest, newest + 1} /\ newest' \in Nat
      /\ SegmentLines(newest') + 1 <= MaxEvents + F
      /\ SegmentLines(newest') <= meta'.event_count + F
  <2>1. CASE meta.active # 0 /\ meta.event_count >= MaxEvents
    <3>1. newest' = newest + 1 /\ meta'.event_count = 0
      BY <1>1, <1>2, <1>7, <2>1 DEF ActiveSegment
    <3>2. SegmentLines(newest + 1) = 0
      BY <1>6, <1>7
    <3> HIDE DEF F
    <3>3. QED
      BY <1>7, <3>1, <3>2
  <2>2. CASE meta.active # 0 /\ ~(meta.event_count >= MaxEvents)
    <3>1. newest' = newest /\ meta' = meta
      BY <1>1, <1>2, <1>7, <2>2 DEF ActiveSegment
    <3>2. SegmentLines(newest) <= meta.event_count + F
      BY <1>8, <2>2
    <3>3. SegmentLines(newest) \in Nat
      BY <1>7
    <3> HIDE DEF F
    <3>4. QED
      BY <1>7, <2>2, <3>1, <3>2, <3>3
  <2>3. CASE meta.active = 0 /\ newest = 0
    <3>1. newest' = 1 /\ meta'.event_count = 0
      BY <1>1, <1>2, <2>3 DEF ActiveSegment
    <3>2. SegmentLines(1) = 0
      BY <1>6, <2>3
    <3> HIDE DEF F
    <3>3. QED
      BY <1>7, <2>3, <3>1, <3>2
  <2>4. CASE meta.active = 0 /\ newest # 0
    <3>1. newest' = newest /\ meta'.event_count = SegmentLines(newest)
      BY <1>1, <1>2, <2>4 DEF ActiveSegment, SegmentLines
    <3>2. SegmentLines(newest) + 1 <= MaxEvents + F /\ SegmentLines(newest) \in Nat
      BY <1>7, <1>8, <2>4 DEF MetaLost
    <3> HIDE DEF F
    <3>3. QED
      BY <1>7, <3>1, <3>2
  <2>5. QED
    BY <2>1, <2>2, <2>3, <2>4
<1>10. \A s \in 1 .. newest' : SegmentLines(s) <= MaxEvents + F
  <2> SUFFICES ASSUME NEW s \in 1 .. newest'
               PROVE  SegmentLines(s) <= MaxEvents + F
    OBVIOUS
  <2>1. CASE s \in 1 .. newest
    BY <1>8, <2>1
  <2>2. CASE s = newest'
    <3>1. SegmentLines(newest') \in Nat
      BY <1>7
    <3> HIDE DEF F
    <3>2. QED
      BY <1>7, <1>9, <2>2, <3>1
  <2>3. QED
    BY <1>7, <1>9, <2>1, <2>2
<1>11. fails' + torn' = F
  BY <1>1
<1>12. SegmentLines(newest') <= meta'.event_count + F + Uncounted'
  <2>1. SegmentLines(newest') \in Nat /\ meta'.event_count \in Nat
    BY <1>7 DEF TypeOK
  <2> HIDE DEF F
  <2>2. QED
    BY <1>5, <1>7, <1>9, <2>1
<1>13. SegmentLines(newest') + Writing' + MetaLost' <= MaxEvents + F
  <2>1. SegmentLines(newest') \in Nat
    BY <1>7
  <2> HIDE DEF F
  <2>2. QED
    BY <1>2, <1>5, <1>7, <1>9, <2>1
<1> HIDE DEF F
<1>14. QED
  BY <1>3, <1>10, <1>11, <1>12, <1>13 DEF BoundInv

\* The write of a line, torn or not, to the segment append resolved.  F and G are the
\* failures before and after it.
LEMMA BoundWrite ==
    ASSUME TypeOK, TypeOK', SegmentInv, BoundInv, NEW p \in Procs, pc[p] = "write",
           NEW line \in Line, line.seg = newest, log' = Extended(line),
           UNCHANGED <<newest, meta>>, Writing' = 0,
           fails + torn <= fails' + torn',
           1 + Uncounted + (fails + torn) <= Uncounted' + (fails' + torn')
    PROVE  BoundInv'
<1> DEFINE F == fails + torn
           G == fails' + torn'
           n == SegmentLines(newest)
           m == SegmentLines(newest)'
           u == Uncounted'
<1>1. /\ F \in Nat /\ MaxEvents \in Nat /\ newest \in Nat /\ n \in Nat
      /\ Uncounted \in Nat /\ MetaLost \in Nat /\ meta.event_count \in Nat
      /\ \A s : SegmentLines(s) \in Nat
  BY BoundNumbers
<1>2. G \in Nat /\ u \in Nat /\ MetaLost' = MetaLost
  <2>1. fails' \in Nat /\ torn' \in Nat
    BY DEF TypeOK
  <2>2. G \in Nat
    BY <2>1, SumOfNats, Zenon
  <2> HIDE DEF G
  <2>3. QED
    BY <2>2 DEF Uncounted, MetaLost
<1>3. /\ \A s : s # newest => SegmentLines(s)' <= SegmentLines(s)
      /\ m <= n + 1
  BY OneNewLine
<1>4. \A s : SegmentLines(s)' \in Nat
  BY NewCounts
<1>5. Writing = 1
  BY DEF Writing
<1>6. /\ \A s \in 1 .. newest : SegmentLines(s) <= MaxEvents + F
      /\ n + 1 + MetaLost <= MaxEvents + F
      /\ meta.active # 0 => n <= meta.event_count + F + Uncounted
  BY <1>5 DEF BoundInv
<1>7. F <= G /\ 1 + Uncounted + F <= u + G
  OBVIOUS
<1>8. m \in Nat
  BY <1>4
<1> HIDE DEF F, G, n, m, u
<1>9. m + MetaLost <= MaxEvents + G /\ m <= MaxEvents + G
  BY <1>1, <1>2, <1>3, <1>6, <1>7, <1>8
<1>10. meta.active # 0 => m <= meta.event_count + G + u
  <2>1. meta.active # 0 => n <= meta.event_count + F + Uncounted
    BY <1>6
  <2>2. n \in Nat /\ m \in Nat /\ m <= n + 1 /\ meta.event_count \in Nat
    BY <1>1, <1>3, <1>8
  <2>3. F \in Nat /\ G \in Nat /\ Uncounted \in Nat /\ u \in Nat
    BY <1>1, <1>2
  <2>4. QED
    BY ONLY <1>7, <2>1, <2>2, <2>3
<1>11. \A s \in 1 .. newest : SegmentLines(s)' <= MaxEvents + G
  <2> SUFFICES ASSUME NEW s \in 1 .. newest
               PROVE  SegmentLines(s)' <= MaxEvents + G
    OBVIOUS
  <2>1. SegmentLines(s)' \in Nat /\ SegmentLines(s) \in Nat /\ SegmentLines(s) <= MaxEvents + F
    BY <1>1, <1>4, <1>6
  <2>2. CASE s = newest
    BY <1>9, <2>2 DEF m
  <2>3. CASE s # newest
    BY <1>1, <1>2, <1>3, <1>7, <2>1, <2>3
  <2>4. QED
    BY <2>2, <2>3
<1>12. m + Writing' + MetaLost' <= MaxEvents + G
  BY <1>1, <1>2, <1>8, <1>9
<1>13. QED
  BY <1>10, <1>11, <1>12 DEF BoundInv, G, m, u

\* A step that neither writes, counts nor fails.
LEMMA BoundQuiet ==
    ASSUME TypeOK, TypeOK', BoundInv, UNCHANGED <<newest, meta, fails, torn>>,
           \A i \in DOMAIN log' : i \in DOMAIN log /\ log'[i] = log[i],
           \A q \in Procs : pc'[q] = "write" => pc[q] = "write",
           \A q \in Procs : Counting(q) => Counting(q)'
    PROVE  BoundInv'
<1>1. Writing' <= Writing /\ Uncounted <= Uncounted' /\ MetaLost' = MetaLost
  <2>1. Writing' = 1 => Writing = 1
    BY DEF Writing
  <2>2. Uncounted = 1 => Uncounted' = 1
    BY DEF Uncounted
  <2>3. Writing \in {0, 1} /\ Writing' \in {0, 1} /\ Uncounted \in {0, 1} /\ Uncounted' \in {0, 1}
    BY DEF Writing, Uncounted
  <2>4. Writing' <= Writing
    BY ONLY <2>1, <2>3
  <2>5. Uncounted <= Uncounted'
    BY ONLY <2>2, <2>3
  <2>6. QED
    BY <2>4, <2>5 DEF MetaLost
<1>2. /\ Writing \in Nat /\ Writing' \in Nat /\ Uncounted \in Nat /\ Uncounted' \in Nat
      /\ MetaLost \in Nat /\ meta.event_count \in Nat /\ fails + torn \in Nat
  <2>1. fails + torn \in Nat /\ meta.event_count \in Nat
    BY DEF TypeOK
  <2>2. QED
    BY <2>1 DEF Writing, Uncounted, MetaLost
<1> DEFINE F == fails + torn
<1>3. F = fails' + torn' /\ meta' = meta
  OBVIOUS
<1>4. F \in Nat
  BY <1>2
<1> DEFINE w == Writing'
           u == Uncounted'
<1>a. w \in Nat /\ u \in Nat /\ w <= Writing /\ Uncounted <= u
  BY <1>1, <1>2
<1> HIDE DEF F, w, u
<1>5. /\ F <= F
      /\ w + MetaLost + F <= Writing + MetaLost + F
      /\ meta.event_count + F + Uncounted <= meta.event_count + F + u
  <2>1. Writing \in Nat /\ MetaLost \in Nat /\ Uncounted \in Nat /\ meta.event_count \in Nat
    BY <1>2
  <2>2. QED
    BY ONLY <1>4, <1>a, <2>1
<1>6. QED
  BY <1>1, <1>3, <1>5, BoundKept DEF F, w, u

\* The call of p fails: what it wrote and did not count is the failure's line.
LEMMA BoundFail ==
    ASSUME TypeOK, TypeOK', BoundInv, (\E p \in Procs : Fail(p)) \/ LoseMeta
    PROVE  BoundInv'
<1> DEFINE F == fails + torn
           E == meta.event_count
           w == Writing'
           l == MetaLost'
           u == Uncounted'
<1>1. /\ log' = log /\ newest' = newest /\ fails' = fails + 1 /\ torn' = torn
      /\ \A q \in Procs : pc'[q] = "write" => pc[q] = "write"
  BY DEF Fail, LoseMeta, Leave, Goto, TypeOK
<1>2. F \in Nat /\ fails' + torn' = F + 1 /\ E \in Nat
  BY <1>1 DEF TypeOK
<1>3. Writing \in {0, 1} /\ w \in {0, 1} /\ (w = 1 => Writing = 1)
  BY <1>1 DEF Writing
<1>4. Uncounted \in {0, 1} /\ u \in {0, 1}
  BY DEF Uncounted
<1>5. MetaLost \in {0, 1} /\ l \in {0, 1}
  BY DEF MetaLost
<1>6. meta'.active # 0 => meta' = meta
  BY DEF Fail, LoseMeta
<1> HIDE DEF F, E, w, l, u
<1>7. /\ F <= F + 1
      /\ w + l + F <= Writing + MetaLost + (F + 1)
      /\ E + F + Uncounted <= E + (F + 1) + u
  BY ONLY <1>2, <1>3, <1>4, <1>5
<1>8. QED
  BY <1>1, <1>2, <1>6, <1>7, BoundKept DEF F, E, w, l, u

\* append counts its line and returns.
LEMMA BoundMeta ==
    ASSUME TypeOK, TypeOK', BoundInv, NEW p \in Procs, AppendMeta(p)
    PROVE  BoundInv'
<1> DEFINE F == fails + torn
           E == meta.event_count
           w == Writing'
           u == Uncounted'
<1>1. /\ log' = log /\ newest' = newest /\ fails' = fails /\ torn' = torn
      /\ \A q \in Procs : pc'[q] = "write" => pc[q] = "write"
  BY DEF AppendMeta, Leave, Goto, TypeOK, faults
<1>2. F \in Nat /\ fails' + torn' = F /\ E \in Nat
  BY <1>1 DEF TypeOK
<1>3. Writing \in {0, 1} /\ w \in {0, 1} /\ (w = 1 => Writing = 1)
  BY <1>1 DEF Writing
<1>4. Uncounted \in {0, 1} /\ u \in {0, 1}
  BY DEF Uncounted
<1>5. /\ MetaLost \in {0, 1} /\ MetaLost' = MetaLost
      /\ meta'.active # 0 => meta.active # 0 /\ meta'.event_count = E + 1
  BY DEF AppendMeta, MetaLost, TypeOK
<1> HIDE DEF F, E, w, u
<1>6. /\ F <= F
      /\ w + MetaLost + F <= Writing + MetaLost + F
      /\ E + F + Uncounted <= (E + 1) + F + u
  <2>1. MetaLost \in {0, 1}
    BY <1>5
  <2>2. QED
    BY ONLY <1>2, <1>3, <1>4, <2>1
<1>7. QED
  BY <1>1, <1>2, <1>5, <1>6, BoundKept DEF F, E, w, u

\* Every step keeps BoundInv.
LEMMA BoundStep ==
    TypeOK /\ TypeOK' /\ SegmentInv /\ PinInv /\ BoundInv /\ [Next]_vars => BoundInv'
<1> SUFFICES ASSUME TypeOK, TypeOK', SegmentInv, PinInv, BoundInv, [Next]_vars
             PROVE  BoundInv'
  OBVIOUS
<1>a. ASSUME NEW p \in Procs
      PROVE  ProcPin(p) /\ loc[p] \in Locals /\ pc[p] \in PCs
  BY <1>a DEF PinInv, TypeOK
<1>b. log' = log => \A i \in DOMAIN log' : i \in DOMAIN log /\ log'[i] = log[i]
  OBVIOUS
<1>1. ASSUME NEW p \in Procs, pc[p] = "write"
      PROVE  /\ Uncounted = 0
             /\ \A q \in Procs : q # p => pc[q] # "write"
             /\ NewLine(p) \in Line /\ NewLine(p).seg = newest
  <2>1. loc[p].op = "append" /\ loc[p] \in Locals /\ loc[p].seg = newest
    BY <1>1, <1>a DEF ProcPin, SegmentInv
  <2>2. \A q \in Procs : Busy(q) => q = p
    BY <1>1, <2>1 DEF PinInv, Busy
  <2>3. \A q \in Procs : q # p => pc[q] # "write"
    BY <1>a, <2>2 DEF ProcPin, Busy
  <2>4. \A q \in Procs : ~Counting(q)
    BY <1>1, <2>2 DEF Counting, Busy
  <2>5. NewLine(p) \in Line /\ NewLine(p).seg = newest
    BY <2>1 DEF NewLine, Line, Locals, TypeOK
  <2>6. QED
    BY <2>3, <2>4, <2>5 DEF Uncounted
<1>2. ASSUME NEW p \in Procs, AppendWrite(p)
      PROVE  BoundInv'
  <2>1. /\ pc[p] = "write" /\ log' = Extended(NewLine(p)) /\ UNCHANGED <<newest, meta>>
        /\ fails' = fails /\ torn' = torn
        /\ pc' = [pc EXCEPT ![p] = "open"]
    BY <1>2 DEF AppendWrite, faults, Goto
  <2>2. loc'[p].op = "append"
    BY <1>2, <1>a, <2>1 DEF AppendWrite, ProcPin, Locals, TypeOK
  <2>3. Writing' = 0
    BY <1>1, <2>1 DEF Writing, TypeOK
  <2>4. Uncounted' = 1
    BY <2>1, <2>2 DEF Uncounted, Counting, TypeOK
  <2>5. fails + torn \in Nat
    BY DEF TypeOK
  <2>6. fails + torn <= fails' + torn' /\ 1 + Uncounted + (fails + torn) <= Uncounted' + (fails' + torn')
    BY <1>1, <2>1, <2>4, <2>5
  <2>7. QED
    BY <1>1, <2>1, <2>3, <2>6, BoundWrite
<1>3. ASSUME NEW p \in Procs, AppendTorn(p)
      PROVE  BoundInv'
  <2>1. /\ pc[p] = "write" /\ UNCHANGED <<newest, meta>> /\ fails' = fails /\ torn' = torn + 1
        /\ pc' = [pc EXCEPT ![p] = "idle"]
    BY <1>3 DEF AppendTorn, Leave, Goto
  <2> DEFINE whole == [NewLine(p) EXCEPT !.closed = FALSE]
             part(b) == [NewLine(p) EXCEPT !.closed = FALSE, !.parses = FALSE,
                                           !.hash = NoHash, !.prev = NoHash, !.big = b]
  <2>2. PICK fragment \in {whole} \cup {part(b) : b \in {FALSE, loc[p].big}} :
          log' = Extended(fragment)
    BY <1>3 DEF AppendTorn
  <2>3. /\ whole \in Line /\ whole.seg = newest
        /\ \A b \in BOOLEAN : part(b) \in Line /\ part(b).seg = newest
    <3>1. NewLine(p) \in Line /\ NewLine(p).seg = newest
      BY <1>1, <2>1
    <3>2. QED
      BY <3>1 DEF Line, NoHash
  <2>4. fragment \in Line /\ fragment.seg = newest
    <3>1. loc[p].big \in BOOLEAN
      BY <1>a DEF Locals
    <3> HIDE DEF whole, part
    <3>2. QED
      BY <2>2, <2>3, <3>1
  <2> HIDE DEF whole, part
  <2>5. Writing' = 0
    BY <1>1, <2>1 DEF Writing, TypeOK
  <2> DEFINE F == fails + torn
             u == Uncounted'
  <2>6. F \in Nat /\ fails' + torn' = F + 1 /\ u \in Nat /\ Uncounted = 0
    BY <1>1, <2>1 DEF TypeOK, Uncounted
  <2> HIDE DEF F, u
  <2>7. F <= F + 1 /\ 1 + Uncounted + F <= u + (F + 1)
    <3>1. F \in Nat /\ u \in Nat /\ Uncounted = 0
      BY <2>6
    <3>2. QED
      BY ONLY <3>1
  <2>8. fails + torn <= fails' + torn' /\ 1 + Uncounted + (fails + torn) <= Uncounted' + (fails' + torn')
    BY <2>6, <2>7 DEF F, u
  <2>9. QED
    BY <2>1, <2>2, <2>4, <2>5, <2>8, BoundWrite
<1>4. ASSUME NEW p \in Procs, RecoverBegin(p) \/ VerifyRead(p) \/ RecoverTail(p) \/ RecoverCount(p)
                              \/ (\E a \in BOOLEAN : RecoverDecide(p, a)) \/ VerifyPin(p)
      PROVE  BoundInv'
  <2>1. UNCHANGED <<log, newest, meta, fails, torn>>
    BY <1>4 DEF RecoverBegin, VerifyRead, RecoverTail, RecoverCount, RecoverDecide, VerifyPin, faults
  <2>2. pc'[p] # "write" /\ \A q \in Procs : q # p => pc'[q] = pc[q] /\ loc'[q] = loc[q]
    BY <1>4 DEF RecoverBegin, VerifyRead, RecoverTail, RecoverCount, RecoverDecide, VerifyPin,
                Leave, Goto, TypeOK
  <2>3. ~Counting(p)
    BY <1>4, <1>a DEF RecoverBegin, VerifyRead, RecoverTail, RecoverCount, RecoverDecide, VerifyPin,
                      Counting, ProcPin
  <2>4. \A q \in Procs : Counting(q) => Counting(q)'
    BY <2>2, <2>3 DEF Counting
  <2>5. QED
    BY <1>b, <2>1, <2>2, <2>4, BoundQuiet
<1>5. ASSUME NEW p \in Procs, OpenTmp(p) \/ DumpTmp(p)
      PROVE  BoundInv'
  <2>1. UNCHANGED <<log, newest, meta, fails, torn>>
    BY <1>5 DEF OpenTmp, DumpTmp, faults
  <2>2. pc'[p] \in {"dump", "replace"} /\ \A q \in Procs : q # p => pc'[q] = pc[q] /\ loc'[q] = loc[q]
    BY <1>5 DEF OpenTmp, DumpTmp, Goto, TypeOK
  <2>3. loc'[p].op = loc[p].op
    <3> DEFINE n == IF loc[p].op = "append" THEN pin.entry_count + 1 ELSE loc[p].count
    <3>1. \/ loc'[p] = [loc[p] EXCEPT !.fd = "tmp", !.count = n]
          \/ loc'[p] = [loc[p] EXCEPT !.fd = "none"]
      BY <1>5 DEF OpenTmp, DumpTmp, TypeOK
    <3> HIDE DEF n
    <3>2. QED
      BY <1>a, <3>1 DEF Locals
  <2>4. \A q \in Procs : Counting(q) => Counting(q)'
    BY <2>2, <2>3 DEF Counting
  <2>5. QED
    BY <1>b, <2>1, <2>2, <2>4, BoundQuiet
<1>6. ASSUME NEW p \in Procs, ReplaceTmp(p)
      PROVE  BoundInv'
  <2>1. UNCHANGED <<log, newest, meta, fails, torn>>
    BY <1>6 DEF ReplaceTmp, faults
  <2>2. pc'[p] \in {"meta", "idle"} /\ \A q \in Procs : q # p => pc'[q] = pc[q]
    BY <1>6 DEF ReplaceTmp, Goto, TypeOK
  <2>3. ASSUME NEW q \in Procs, q # p
        PROVE  loc'[q].op = loc[q].op
    <3> DEFINE fd == IF loc[q].fd = "tmp" THEN "pin"
                     ELSE IF loc[q].fd = "pin" THEN "gone" ELSE loc[q].fd
    <3>1. loc'[q] = [loc[q] EXCEPT !.fd = fd]
      BY <1>6, <1>a, <2>3, ZenonT(40) DEF ReplaceTmp, TypeOK, Locals
    <3> HIDE DEF fd
    <3>2. QED
      BY <1>a, <3>1 DEF Locals
  <2>4. loc[p].op = "append" => pc'[p] = "meta" /\ loc'[p].op = "append"
    BY <1>6, <1>a, SMTT(30) DEF ReplaceTmp, Goto, TypeOK, Locals
  <2>5. \A q \in Procs : Counting(q) => Counting(q)'
    BY <2>2, <2>3, <2>4 DEF Counting
  <2>6. QED
    BY <1>b, <2>1, <2>2, <2>5, BoundQuiet
<1>7. ASSUME NEW p \in Procs, ReplaceFails(p)
      PROVE  FALSE
  BY <1>7, <1>a DEF ReplaceFails, ProcPin
<1>8. CASE Truncate
  <2>1. PICK n \in 0 .. Len(log) - 1 : log' = SubSeq(log, 1, n)
    BY <1>8 DEF Truncate
  <2>2. \A i \in DOMAIN log' : i \in DOMAIN log /\ log'[i] = log[i]
    BY <2>1, PrefixLines DEF TypeOK
  <2>3. UNCHANGED <<newest, meta, fails, torn, pc, loc>>
    BY <1>8 DEF Truncate
  <2>4. QED
    BY <2>2, <2>3, BoundQuiet DEF Counting
<1>9. CASE UNCHANGED vars
  BY <1>9, <1>b, BoundQuiet DEF vars, faults, Counting
<1>10. CASE LoseMeta
  BY <1>10, BoundFail
<1>11. QED
  BY <1>2, <1>3, <1>4, <1>5, <1>6, <1>7, <1>8, <1>9, <1>10, BoundBegin, BoundMeta, BoundFail
     DEF Next, Step

\* No segment file outgrows MAX_EVENTS_PER_SEGMENT by more than one line for every call
\* that failed, line that was torn and loss of segment_meta.json: provided
\* reconcile_shard runs undisturbed.
THEOREM SegmentsBounded == QuietRecovery => (Spec => []SegmentBound)
<1> SUFFICES ASSUME QuietRecovery
             PROVE  Spec => []SegmentBound
  OBVIOUS
<1>1. TypeOK /\ PinInv /\ [Next]_vars => PinInv'
  BY PinStep
<1>2. Init => SegmentInv
  BY DEF Init, SegmentInv, WriteOrder
<1>3. Init => BoundInv
  <2> SUFFICES ASSUME Init
               PROVE  BoundInv
    OBVIOUS
  <2>1. {i \in DOMAIN log : log[i].seg = newest} = {} /\ 1 .. newest = {}
    BY DEF Init
  <2>2. SegmentLines(newest) = 0
    BY <2>1, FS_EmptySet DEF SegmentLines
  <2>3. Writing = 0 /\ MetaLost = 1 /\ fails = 0 /\ torn = 0 /\ meta.active = 0
    BY DEF Init, Writing, MetaLost
  <2>4. QED
    BY <2>1, <2>2, <2>3, ShardAssumption DEF BoundInv
<1>4. TypeOK /\ BoundInv => SegmentBound
  <2> SUFFICES ASSUME TypeOK, BoundInv, NEW s \in 1 .. newest
               PROVE  Cardinality({i \in DOMAIN log : log[i].seg = s}) <= MaxEvents + fails + torn
    BY DEF SegmentBound
  <2>1. SegmentLines(s) <= MaxEvents + (fails + torn)
    BY DEF BoundInv
  <2>2. MaxEvents + (fails + torn) = MaxEvents + fails + torn
    BY BoundNumbers
  <2>3. QED
    BY <2>1, <2>2 DEF SegmentLines
<1>5. QED
  BY <1>1, <1>2, <1>3, <1>4, PinInit, TypeCorrect, SegmentStep, BoundStep, PTL DEF Spec
=============================================================================
