------------------------- MODULE ShardChainProofs -------------------------
(* What a shard keeps of its entries when processes are killed, and calls raise, between  *)
(* any two steps, and reconcile_shard runs undisturbed: while no line is torn or lost,    *)
(* the hash chain, the verdict of verify_shard and the refinement of Ledger; whatever is  *)
(* torn or lost, that recovery reaches the last entry and that losses are seen.           *)
EXTENDS ShardStoreProofs

\* No line is torn or lost, and every line fits the tail window.
Undamaged == MaxTorn = 0 /\ MaxTruncations = 0 /\ EntrySizes \subseteq {FALSE}

\* Every line is whole; those after the pinned one were written over it.
LineInv ==
    /\ written = Len(log)
    /\ \A i \in DOMAIN log :
         /\ log[i].hash = i /\ log[i].parses /\ log[i].closed /\ ~log[i].big
         /\ i > pin.last_hash => log[i].prev = pin.last_hash

\* The pin names the last committed line, and counts the committed lines as long as no
\* line was left behind.
TipInv ==
    /\ pin.last_hash <= Len(log) /\ committed \subseteq 1 .. pin.last_hash
    /\ pin.last_hash = 0 \/ pin.last_hash \in committed
    /\ pin.entry_count <= pin.last_hash
    /\ (\A i \in 1 .. pin.last_hash : i \in committed) => pin.entry_count = pin.last_hash

\* What a process publishes is the last line.
ProcChain(p) ==
    /\ pc[p] = "write" => ~loc[p].big
    /\ pc[p] \in {"write", "tail"} => loc[p].prev = pin.last_hash
    /\ pc[p] \in {"open", "dump", "replace", "count", "decide"} =>
         loc[p].hash = Len(log) /\ pin.last_hash < Len(log)
    /\ pc[p] \in {"open", "dump", "replace", "decide"} /\ loc[p].op = "reconcile" =>
         loc[p].count = Len(log)

ChainInv == LineInv /\ TipInv /\ CommittedChain /\ \A p \in Procs : ProcChain(p)

\* While nothing is damaged, the tail reconcile_shard reads is the last line.
LEMMA ChainTail ==
    ASSUME TypeOK, LineInv
    PROVE  /\ Readable = DOMAIN log /\ DOMAIN log = 1 .. Len(log) /\ Len(log) \in Nat
           /\ TailHash = Len(log) /\ LastHash = Len(log)
<1>1. DOMAIN log = 1 .. Len(log) /\ Len(log) \in Nat
  BY DEF TypeOK
<1>2. Readable = DOMAIN log
  BY DEF LineInv, Readable
<1>3. Readable \cap InTailWindow = DOMAIN log
  BY <1>2 DEF LineInv, InTailWindow
<1>4. CASE DOMAIN log = {}
  <2>1. Len(log) = 0
    BY <1>1, <1>4
  <2>2. QED
    BY <1>1, <1>2, <1>3, <1>4, <2>1 DEF TailHash, LastHash, NoHash
<1>5. CASE DOMAIN log # {}
  <2> DEFINE S == DOMAIN log
             m == CHOOSE i \in S : \A j \in S : j <= i
  <2>1. m \in S /\ \A j \in S : j <= m
    BY <1>5, NewestLine DEF TypeOK
  <2>2. TailHash = log[m].hash /\ LastHash = log[m].hash
    BY <1>2, <1>3, <1>5 DEF TailHash, LastHash
  <2> HIDE DEF m
  <2>3. m = Len(log)
    <3>1. m \in 1 .. Len(log) /\ Len(log) \in Nat
      BY <1>1, <2>1
    <3>2. Len(log) \in DOMAIN log
      BY <1>1, <3>1
    <3>3. Len(log) <= m
      BY <2>1, <3>2
    <3>4. QED
      BY <3>1, <3>3
  <2>4. log[m].hash = m
    BY <2>1 DEF LineInv
  <2>5. QED
    BY <1>1, <1>2, <2>2, <2>3, <2>4
<1>6. QED
  BY <1>4, <1>5

\* A step of p that changes neither the lines nor the pin.
LEMMA ChainFrame ==
    ASSUME TypeOK, ChainInv, NEW p \in Procs,
           UNCHANGED <<log, pin, committed, written>>,
           \A q \in Procs : q # p => pc'[q] = pc[q] /\ loc'[q] = loc[q],
           ProcChain(p)'
    PROVE  ChainInv'
<1>1. \A q \in Procs : ProcChain(q)'
  <2> SUFFICES ASSUME NEW q \in Procs, q # p
               PROVE  ProcChain(q)'
    OBVIOUS
  <2>1. ProcChain(q) /\ pc'[q] = pc[q] /\ loc'[q] = loc[q]
    BY DEF ChainInv
  <2>2. QED
    BY <2>1 DEF ProcChain
<1>2. LineInv' /\ TipInv' /\ CommittedChain'
  BY DEF ChainInv, LineInv, TipInv, CommittedChain
<1>3. QED
  BY <1>1, <1>2 DEF ChainInv

\* The call of p ends without a change to the lines or the pin.
LEMMA ChainLeave ==
    ASSUME TypeOK, ChainInv, NEW p \in Procs, Leave(p),
           UNCHANGED <<log, pin, committed, written>>
    PROVE  ChainInv'
<1>1. pc'[p] = "idle" /\ \A q \in Procs : q # p => pc'[q] = pc[q] /\ loc'[q] = loc[q]
  BY DEF Leave, Goto, TypeOK
<1>2. ProcChain(p)'
  BY <1>1 DEF ProcChain
<1>3. QED
  BY <1>1, <1>2, ChainFrame

\* append writes the next line over the pinned one.
LEMMA ChainWrite ==
    ASSUME TypeOK, PinInv, ChainInv, NEW p \in Procs, AppendWrite(p)
    PROVE  ChainInv'
<1> DEFINE n == Len(log)
<1>1. /\ n \in Nat /\ DOMAIN log = 1 .. n /\ log \in Seq(Line) /\ pin.last_hash \in Nat
      /\ loc[p] \in Locals /\ pc[p] = "write" /\ ProcPin(p) /\ ProcChain(p) /\ written = n
  BY DEF TypeOK, PinFile, AppendWrite, PinInv, ChainInv, LineInv
<1>2. log' = Append(log, NewLine(p))
  <2>1. n > 0 => log[n].closed
    BY <1>1 DEF ChainInv, LineInv
  <2>2. QED
    BY <2>1 DEF AppendWrite, Extended
<1>3. UNCHANGED <<pin, committed>> /\ written' = n + 1
  BY <1>1 DEF AppendWrite, ghosts
<1>4. NewLine(p) = [seg |-> loc[p].seg, hash |-> n + 1, prev |-> pin.last_hash,
                    big |-> FALSE, parses |-> TRUE, closed |-> TRUE]
  <2>1. loc[p].prev = pin.last_hash /\ loc[p].big = FALSE
    BY <1>1 DEF ProcChain, Locals
  <2>2. QED
    BY <1>1, <2>1 DEF NewLine
<1>5. /\ Len(log') = n + 1 /\ DOMAIN log' = 1 .. n + 1
      /\ \A i \in 1 .. n : log'[i] = log[i]
      /\ log'[n + 1] = NewLine(p)
  BY <1>1, <1>2
<1>6. LineInv'
  <2>1. ASSUME NEW i \in DOMAIN log'
        PROVE  /\ log'[i].hash = i /\ log'[i].parses /\ log'[i].closed /\ ~log'[i].big
               /\ i > pin.last_hash => log'[i].prev = pin.last_hash
    <3>1. CASE i = n + 1
      BY <1>4, <1>5, <3>1
    <3>2. CASE i \in 1 .. n
      BY <1>1, <1>5, <3>2 DEF ChainInv, LineInv
    <3>3. QED
      BY <1>1, <1>5, <2>1, <3>1, <3>2
  <2>2. QED
    BY <1>3, <1>5, <2>1 DEF LineInv
<1>7. TipInv'
  BY <1>1, <1>3, <1>5 DEF ChainInv, TipInv
<1>8. CommittedChain'
  <2>1. \A i \in DOMAIN log' : log'[i].hash \in committed => i \in 1 .. n
    BY <1>1, <1>4, <1>5 DEF ChainInv, TipInv
  <2> SUFFICES ASSUME NEW i \in DOMAIN log', NEW j \in DOMAIN log', i < j,
                      log'[i].hash \in committed, log'[j].hash \in committed,
                      \A k \in DOMAIN log' : i < k /\ k < j => log'[k].hash \notin committed
               PROVE  log'[j].prev = log'[i].hash
    BY <1>3 DEF CommittedChain
  <2>2. i \in 1 .. n /\ j \in 1 .. n /\ log'[i] = log[i] /\ log'[j] = log[j]
    BY <1>5, <2>1
  <2>3. \A k \in DOMAIN log : i < k /\ k < j => log[k].hash \notin committed
    BY <1>1, <1>5
  <2>4. QED
    BY <1>1, <2>2, <2>3 DEF ChainInv, CommittedChain
<1>9. \A q \in Procs : ProcChain(q)'
  <2>1. pc'[p] = "open" /\ loc'[p] = [loc[p] EXCEPT !.hash = n + 1] /\ loc[p].op = "append"
    BY <1>1 DEF AppendWrite, Goto, TypeOK, ProcPin
  <2>2. loc'[p].hash = n + 1 /\ loc'[p].op = "append"
    BY <1>1, <2>1 DEF Locals
  <2>3. pin.last_hash < n + 1
    BY <1>1 DEF ChainInv, TipInv
  <2>4. ProcChain(p)'
    BY <1>3, <1>5, <2>1, <2>2, <2>3 DEF ProcChain
  <2>5. ASSUME NEW q \in Procs, q # p
        PROVE  ProcChain(q)'
    <3>1. ProcPin(q) /\ ~Busy(q) /\ pc[q] \in PCs /\ pc'[q] = pc[q]
      BY <2>1, <2>5 DEF PinInv, Busy, TypeOK, AppendWrite, Goto
    <3>2. pc'[q] \in {"idle", "observe"}
      BY <3>1 DEF ProcPin, PCs, Busy
    <3>3. QED
      BY <3>2 DEF ProcChain
  <2>6. QED
    BY <2>4, <2>5
<1>10. QED
  BY <1>6, <1>7, <1>8, <1>9 DEF ChainInv

\* Publishing a pin commits the last line, whose predecessor in the chain is the line
\* that was pinned.
LEMMA ChainReplace ==
    ASSUME TypeOK, PinInv, ChainInv, NEW p \in Procs, ReplaceTmp(p)
    PROVE  ChainInv'
<1> DEFINE n == Len(log)
           last == pin.last_hash
<1>1. /\ n \in Nat /\ DOMAIN log = 1 .. n /\ last \in Nat /\ pin.entry_count \in Nat
      /\ loc[p] \in Locals /\ pc[p] = "replace" /\ ProcPin(p) /\ ProcChain(p)
  BY DEF TypeOK, PinFile, ReplaceTmp, PinInv, ChainInv
<1>2. loc[p].hash = n /\ last < n
  BY <1>1 DEF ProcChain
<1>3. pin' = [kind |-> "json", last_hash |-> n, entry_count |-> loc[p].count]
  BY <1>1, <1>2 DEF ReplaceTmp, ProcPin
<1>4. log' = log /\ written' = written /\ committed' = committed \cup {n}
  <2>1. n # NoHash
    BY <1>1, <1>2 DEF NoHash
  <2>2. tmp.last_hash = n
    BY <1>1, <1>2 DEF ProcPin
  <2>3. QED
    BY <2>1, <2>2 DEF ReplaceTmp
<1>5. \A i \in 1 .. n : log[i].hash = i /\ (i > last => log[i].prev = last)
  BY <1>1 DEF ChainInv, LineInv
<1>6. /\ \A i \in committed : i \in Nat /\ 1 <= i /\ i <= last
      /\ last = 0 \/ last \in committed
  <2>1. committed \subseteq 1 .. last /\ (last = 0 \/ last \in committed)
    BY DEF ChainInv, TipInv
  <2>2. QED
    BY <1>1, <2>1
<1>7. LineInv'
  BY <1>1, <1>3, <1>4 DEF ChainInv, LineInv
<1>a. /\ pin'.last_hash = n /\ pin'.entry_count = loc[p].count
      /\ \A i : i \in committed' <=> i \in committed \/ i = n
  BY <1>3, <1>4
<1>b. pin.entry_count <= last
      /\ ((\A i \in 1 .. last : i \in committed) => pin.entry_count = last)
  BY DEF ChainInv, TipInv
<1>c. \A i, j \in 1 .. n :
        /\ i < j /\ i \in committed /\ j \in committed
        /\ \A k \in 1 .. n : i < k /\ k < j => k \notin committed
        => log[j].prev = i
  BY <1>1, <1>5 DEF ChainInv, CommittedChain
<1>d. Len(log') = n /\ DOMAIN log' = 1 .. n
  BY <1>1, <1>4
<1>8. TipInv'
  <2>1. loc[p].count <= n /\ ((\A i \in 1 .. n : i \in committed') => loc[p].count = n)
    <3>1. CASE loc[p].op = "append"
      <4>1. loc[p].count = pin.entry_count + 1
        BY <1>1, <3>1 DEF ProcPin
      <4> HIDE DEF n, last
      <4>2. ASSUME \A i \in 1 .. n : i \in committed'
            PROVE  loc[p].count = n
        <5>1. \A i \in 1 .. n : i # n => i \in committed
          BY <1>a, <4>2
        <5>2. n > 1 => n - 1 \in 1 .. n /\ n - 1 # n
          BY <1>1
        <5>3. last = n - 1
          BY <1>1, <1>2, <1>6, <5>1, <5>2
        <5>4. \A i \in 1 .. last : i \in committed
          BY <1>1, <5>1, <5>3
        <5>5. QED
          BY <1>1, <1>b, <4>1, <5>3, <5>4
      <4>3. loc[p].count <= n
        BY <1>1, <1>2, <1>b, <4>1
      <4>4. QED
        BY <4>2, <4>3
    <3>2. CASE loc[p].op = "reconcile"
      <4>1. loc[p].count = n
        BY <1>1, <3>2 DEF ProcChain
      <4>2. QED
        BY <1>1, <4>1
    <3>3. QED
      BY <1>1, <3>1, <3>2 DEF ProcPin, Busy
  <2>2. committed' \subseteq 1 .. n /\ n \in committed'
    <3> HIDE DEF n, last
    <3>1. ASSUME NEW i \in committed'
          PROVE  i \in 1 .. n
      BY <1>1, <1>2, <1>6, <1>a, <3>1
    <3>2. QED
      BY <3>1, <1>a
  <2>3. QED
    BY <1>1, <1>a, <1>d, <2>1, <2>2 DEF TipInv
<1>9. CommittedChain'
  <2>1. ASSUME NEW i \in 1 .. n, NEW j \in 1 .. n, i < j,
               i \in committed', j \in committed',
               \A k \in 1 .. n : i < k /\ k < j => k \notin committed'
        PROVE  log[j].prev = i
    <3> HIDE DEF n, last
    <3>1. i \in committed
      BY <1>1, <1>a, <2>1
    <3>2. CASE j \in committed
      BY <1>a, <1>c, <2>1, <3>1, <3>2
    <3>3. CASE j = n
      <4>1. i <= last /\ last \in 1 .. n /\ last \in committed'
        BY <1>1, <1>2, <1>6, <1>a, <3>1
      <4>2. ~(i < last /\ last < j)
        BY <2>1, <4>1
      <4>3. i = last
        BY <1>1, <1>2, <3>3, <4>1, <4>2
      <4>4. QED
        BY <1>1, <1>2, <1>5, <3>3, <4>3
    <3>4. QED
      BY <1>a, <2>1, <3>2, <3>3
  <2> HIDE DEF n
  <2>2. \A i \in 1 .. n : log'[i] = log[i] /\ log[i].hash = i
    BY <1>4, <1>5
  <2>3. QED
    BY <1>d, <2>1, <2>2 DEF CommittedChain
<1>10. \A q \in Procs : ProcChain(q)'
  <2>1. pc'[p] \in {"meta", "idle"}
    BY DEF ReplaceTmp, Goto, TypeOK
  <2>2. ASSUME NEW q \in Procs, q # p
        PROVE  pc'[q] \in {"idle", "observe"}
    <3>1. ProcPin(q) /\ ~Busy(q) /\ pc[q] \in PCs
      BY <1>1, <2>2 DEF PinInv, ProcPin, TypeOK
    <3>2. pc'[q] = pc[q]
      BY <2>2 DEF ReplaceTmp, Goto, TypeOK
    <3>3. QED
      BY <3>1, <3>2 DEF ProcPin, PCs, Busy
  <2>3. QED
    BY <2>1, <2>2 DEF ProcChain
<1>11. QED
  BY <1>7, <1>8, <1>9, <1>10 DEF ChainInv

\* Every step keeps ChainInv.
LEMMA ChainStep ==
    Undamaged /\ TypeOK /\ PinInv /\ ChainInv /\ [Next]_vars => ChainInv'
<1> SUFFICES ASSUME Undamaged, TypeOK, PinInv, ChainInv, [Next]_vars
             PROVE  ChainInv'
  OBVIOUS
<1>a. ASSUME NEW p \in Procs
      PROVE  ProcPin(p) /\ ProcChain(p) /\ loc[p] \in Locals
  BY <1>a DEF PinInv, ChainInv, TypeOK
<1>b. TailHash = Len(log) /\ Len(log) \in Nat /\ pin.last_hash \in Nat
      /\ pin.last_hash <= Len(log)
  BY ChainTail DEF ChainInv, TipInv, TypeOK, PinFile
<1>1. ASSUME NEW p \in Procs, AppendBegin(p)
      PROVE  ChainInv'
  <2>1. UNCHANGED <<log, pin, committed, written>> /\ pc'[p] = "write"
    BY <1>1 DEF AppendBegin, Goto, TypeOK, ghosts
  <2>2. \A q \in Procs : q # p => pc'[q] = pc[q] /\ loc'[q] = loc[q]
    BY <1>1 DEF AppendBegin, Goto, TypeOK
  <2>3. loc'[p].prev = pin.last_hash /\ ~loc'[p].big
    BY <1>1, ZenonT(40) DEF AppendBegin, TypeOK, NoLocals, Undamaged
  <2>4. ProcChain(p)'
    BY <2>1, <2>3 DEF ProcChain
  <2>5. QED
    BY <2>1, <2>2, <2>4, ChainFrame
<1>2. ASSUME NEW p \in Procs, AppendTorn(p)
      PROVE  ChainInv'
  BY <1>2 DEF AppendTorn, Undamaged, TypeOK
<1>3. ASSUME NEW p \in Procs, AppendMeta(p) \/ ReplaceFails(p) \/ VerifyPin(p) \/ Fail(p)
      PROVE  ChainInv'
  <2>1. Leave(p) /\ UNCHANGED <<log, pin, committed, written>>
    BY <1>3 DEF AppendMeta, ReplaceFails, VerifyPin, Fail, ghosts
  <2>2. QED
    BY <2>1, ChainLeave
<1>4. ASSUME NEW p \in Procs, OpenTmp(p)
      PROVE  ChainInv'
  <2> DEFINE n == IF loc[p].op = "append" THEN pin.entry_count + 1 ELSE loc[p].count
  <2>1. UNCHANGED <<log, pin, committed, written>> /\ pc'[p] = "dump" /\ pc[p] = "open"
    BY <1>4 DEF OpenTmp, Goto, TypeOK, ghosts
  <2>2. \A q \in Procs : q # p => pc'[q] = pc[q] /\ loc'[q] = loc[q]
    BY <1>4 DEF OpenTmp, Goto, TypeOK
  <2>3. loc'[p] = [loc[p] EXCEPT !.fd = "tmp", !.count = n]
    BY <1>4 DEF OpenTmp, TypeOK
  <2>4. loc'[p].hash = loc[p].hash /\ loc'[p].op = loc[p].op /\ loc'[p].count = n
    <3> HIDE DEF n
    <3>1. QED
      BY <2>3, <1>a DEF Locals
  <2>5. ProcChain(p)'
    BY <2>1, <2>4, <1>a DEF ProcChain
  <2>6. QED
    BY <2>1, <2>2, <2>5, ChainFrame
<1>5. ASSUME NEW p \in Procs, DumpTmp(p)
      PROVE  ChainInv'
  <2>1. pin' = pin
    BY <1>5, <1>a DEF DumpTmp, ProcPin
  <2>2. UNCHANGED <<log, committed, written>> /\ pc'[p] = "replace" /\ pc[p] = "dump"
    BY <1>5 DEF DumpTmp, Goto, TypeOK, ghosts
  <2>3. \A q \in Procs : q # p => pc'[q] = pc[q] /\ loc'[q] = loc[q]
    BY <1>5 DEF DumpTmp, Goto, TypeOK
  <2>4. loc'[p] = [loc[p] EXCEPT !.fd = "none"]
    BY <1>5 DEF DumpTmp, TypeOK
  <2>5. loc'[p].hash = loc[p].hash /\ loc'[p].op = loc[p].op /\ loc'[p].count = loc[p].count
    BY <2>4, <1>a DEF Locals
  <2>6. ProcChain(p)'
    BY <2>1, <2>2, <2>5, <1>a DEF ProcChain
  <2>7. QED
    BY <2>1, <2>2, <2>3, <2>6, ChainFrame
<1>6. ASSUME NEW p \in Procs, RecoverBegin(p)
      PROVE  ChainInv'
  <2>1. UNCHANGED <<log, pin, committed, written>> /\ pc'[p] = "tail"
    BY <1>6 DEF RecoverBegin, Goto, TypeOK, ghosts
  <2>2. \A q \in Procs : q # p => pc'[q] = pc[q] /\ loc'[q] = loc[q]
    BY <1>6 DEF RecoverBegin, Goto, TypeOK
  <2>3. loc'[p].prev = pin.last_hash
    BY <1>6 DEF RecoverBegin, TypeOK, NoLocals
  <2>4. ProcChain(p)'
    BY <2>1, <2>3 DEF ProcChain
  <2>5. QED
    BY <2>1, <2>2, <2>4, ChainFrame
<1>7. ASSUME NEW p \in Procs, RecoverTail(p)
      PROVE  ChainInv'
  <2>0. UNCHANGED <<log, pin, committed, written>> /\ pc[p] = "tail"
    BY <1>7 DEF RecoverTail, ghosts
  <2>1. CASE TailHash \in {NoHash, loc[p].prev}
    BY <1>7, <2>0, <2>1, ChainLeave DEF RecoverTail
  <2>2. CASE TailHash \notin {NoHash, loc[p].prev}
    <3>1. pc'[p] = "count" /\ loc'[p] = [loc[p] EXCEPT !.hash = TailHash]
      BY <1>7, <2>2 DEF RecoverTail, Goto, TypeOK
    <3>2. \A q \in Procs : q # p => pc'[q] = pc[q] /\ loc'[q] = loc[q]
      BY <1>7, <2>2 DEF RecoverTail, Goto, TypeOK
    <3>3. loc'[p].hash = Len(log)
      BY <3>1, <1>a, <1>b DEF Locals
    <3>4. pin.last_hash < Len(log)
      BY <2>0, <2>2, <1>a, <1>b DEF ProcChain
    <3>5. ProcChain(p)'
      BY <2>0, <3>1, <3>3, <3>4 DEF ProcChain
    <3>6. QED
      BY <2>0, <3>2, <3>5, ChainFrame
  <2>3. QED
    BY <2>1, <2>2
<1>8. ASSUME NEW p \in Procs, RecoverCount(p)
      PROVE  ChainInv'
  <2>1. UNCHANGED <<log, pin, committed, written>> /\ pc'[p] = "decide" /\ pc[p] = "count"
    BY <1>8 DEF RecoverCount, Goto, TypeOK, ghosts
  <2>2. \A q \in Procs : q # p => pc'[q] = pc[q] /\ loc'[q] = loc[q]
    BY <1>8 DEF RecoverCount, Goto, TypeOK
  <2>3. loc'[p] = [loc[p] EXCEPT !.count = Len(log)]
    BY <1>8 DEF RecoverCount, TypeOK
  <2>4. loc'[p].hash = loc[p].hash /\ loc'[p].count = Len(log)
    BY <2>3, <1>a DEF Locals
  <2>5. ProcChain(p)'
    BY <2>1, <2>4, <1>a DEF ProcChain
  <2>6. QED
    BY <2>1, <2>2, <2>5, ChainFrame
<1>9. ASSUME NEW p \in Procs, NEW a \in BOOLEAN, RecoverDecide(p, a)
      PROVE  ChainInv'
  <2> DEFINE nonforward == pin.kind = "json" /\ loc[p].count <= pin.entry_count
  <2>0. UNCHANGED <<log, pin, committed, written>> /\ pc[p] = "decide"
    BY <1>9 DEF RecoverDecide, ghosts
  <2>1. CASE Leave(p)
    BY <2>0, <2>1, ChainLeave
  <2>2. CASE loc' = [loc EXCEPT ![p].accept = nonforward] /\ Goto(p, "open")
    <3>1. pc'[p] = "open" /\ loc'[p] = [loc[p] EXCEPT !.accept = nonforward]
      BY <2>2 DEF Goto, TypeOK
    <3>2. \A q \in Procs : q # p => pc'[q] = pc[q] /\ loc'[q] = loc[q]
      BY <2>2 DEF Goto, TypeOK
    <3>3. loc'[p].hash = loc[p].hash /\ loc'[p].op = loc[p].op /\ loc'[p].count = loc[p].count
      <4> HIDE DEF nonforward
      <4>1. QED
        BY <3>1, <1>a DEF Locals
    <3>4. ProcChain(p)'
      BY <2>0, <3>1, <3>3, <1>a DEF ProcChain
    <3>5. QED
      BY <2>0, <3>2, <3>4, ChainFrame
  <2>3. QED
    BY <1>9, <2>1, <2>2 DEF RecoverDecide
<1>10. ASSUME NEW p \in Procs, VerifyRead(p)
       PROVE  ChainInv'
  <2>1. UNCHANGED <<log, pin, committed, written>> /\ pc'[p] = "observe"
    BY <1>10 DEF VerifyRead, Goto, TypeOK, ghosts
  <2>2. \A q \in Procs : q # p => pc'[q] = pc[q] /\ loc'[q] = loc[q]
    BY <1>10 DEF VerifyRead, Goto, TypeOK
  <2>3. ProcChain(p)'
    BY <2>1 DEF ProcChain
  <2>4. QED
    BY <2>1, <2>2, <2>3, ChainFrame
<1>11. CASE LoseMeta \/ UNCHANGED vars
  <2>1. UNCHANGED <<log, pin, pc, loc, committed, written>>
    BY <1>11 DEF LoseMeta, vars, ghosts
  <2>2. QED
    BY <2>1 DEF ChainInv, LineInv, TipInv, CommittedChain, ProcChain
<1>12. CASE Truncate
  BY <1>12 DEF Truncate, Undamaged, TypeOK
<1>13. QED
  BY <1>1, <1>2, <1>3, <1>4, <1>5, <1>6, <1>7, <1>8, <1>9, <1>10, <1>11, <1>12,
     ChainWrite, ChainReplace DEF Next, Step

\* ChainInv holds from the start.
LEMMA ChainInit == Init => ChainInv
  BY DEF Init, ChainInv, LineInv, TipInv, CommittedChain, ProcChain, Absent, NoHash

\* Under ChainInv verify_shard raises an alarm only over a line left behind.
LEMMA ChainAlarm ==
    ASSUME TypeOK, ChainInv
    PROVE  NoFalseAlarm
<1> DEFINE n == Len(log)
<1> SUFFICES ASSUME \A i \in DOMAIN log : i < n => log[i].hash \in committed
             PROVE  VerifyShard = "OK"
  BY DEF NoFalseAlarm
<1>1. /\ Readable = 1 .. n /\ DOMAIN log = 1 .. n /\ n \in Nat /\ LastHash = n
      /\ pin.last_hash \in Nat /\ pin.entry_count \in Nat
  BY ChainTail DEF ChainInv, TypeOK, PinFile
<1>2. \A i \in 1 .. n : log[i].hash = i /\ (i > pin.last_hash => log[i].prev = pin.last_hash)
  BY <1>1 DEF ChainInv, LineInv
<1>3. \A i \in 1 .. n : i < n => i \in committed
  BY <1>1, <1>2
<1>4. pin.last_hash <= n /\ committed \subseteq 1 .. pin.last_hash
      /\ pin.entry_count <= pin.last_hash
  BY DEF ChainInv, TipInv
<1>5. ~ChainBroken
  <2> SUFFICES ASSUME NEW i \in 1 .. n, NEW j \in 1 .. n, i < j,
                      \A k \in 1 .. n : ~(i < k /\ k < j)
               PROVE  log[j].prev = log[i].hash
    BY <1>1 DEF ChainBroken
  <2>1. j = i + 1 /\ i \in committed /\ i <= pin.last_hash
    BY <1>1, <1>3, <1>4
  <2>2. CASE j \in committed
    BY <1>1, <1>2, <2>1, <2>2 DEF ChainInv, CommittedChain
  <2>3. CASE j \notin committed
    <3>1. j = n /\ pin.last_hash = i
      <4> HIDE DEF n
      <4>1. j = n
        BY ONLY <1>1, <1>3, <2>3, j \in 1 .. n
      <4>2. pin.last_hash # n
        BY <1>1, <4>1, <2>1, <2>3 DEF n, ChainInv, TipInv
      <4>3. QED
        BY <1>1, <1>4, <2>1, <4>1, <4>2
    <3>2. QED
      BY <1>1, <1>2, <2>1, <3>1
  <2>4. QED
    BY <2>2, <2>3
<1>6. Cardinality(Readable) = n
  <2> HIDE DEF n
  <2>1. Cardinality(1 .. n) = n
    <3>1. 1 \in Int /\ n \in Int
      BY <1>1
    <3>2. Cardinality(1 .. n) = IF 1 > n THEN 0 ELSE n - 1 + 1
      BY <3>1, FS_Interval
    <3>3. QED
      BY <1>1, <3>2
  <2>2. QED
    BY <1>1, <2>1
<1>7. QED
  BY <1>1, <1>4, <1>5, <1>6 DEF VerifyShard, Verdict, NoHash

\* ChainInv, with the invariants it rests on, holds of every behaviour.
LEMMA ChainInvariant ==
    QuietRecovery /\ Undamaged => (Spec => [](TypeOK /\ PinInv /\ ChainInv))
<1> SUFFICES ASSUME QuietRecovery, Undamaged
             PROVE  Spec => [](TypeOK /\ PinInv /\ ChainInv)
  OBVIOUS
<1>1. TypeOK /\ PinInv /\ [Next]_vars => PinInv'
  BY PinStep
<1>2. TypeOK /\ PinInv /\ ChainInv /\ [Next]_vars => ChainInv'
  BY ChainStep
<1>3. QED
  BY <1>1, <1>2, PinInit, ChainInit, TypeCorrect, PTL DEF Spec

\* Crashes never break the committed chain: each entry append pinned names the pinned
\* entry before it, whatever was killed in between.
THEOREM CommittedEntriesChained ==
    QuietRecovery /\ Undamaged => (Spec => []CommittedChain)
<1> SUFFICES ASSUME QuietRecovery, Undamaged
             PROVE  Spec => []CommittedChain
  OBVIOUS
<1>1. Spec => [](TypeOK /\ PinInv /\ ChainInv)
  BY ChainInvariant
<1>2. TypeOK /\ PinInv /\ ChainInv => CommittedChain
  BY DEF ChainInv
<1>3. QED
  BY <1>1, <1>2, PTL

\* verify_shard stays silent until an append is made over an entry that was left behind:
\* a crash alone, with the pin one entry short, raises no alarm.
THEOREM AlarmsAreEarned ==
    QuietRecovery /\ Undamaged => (Spec => []NoFalseAlarm)
<1> SUFFICES ASSUME QuietRecovery, Undamaged
             PROVE  Spec => []NoFalseAlarm
  OBVIOUS
<1>1. Spec => [](TypeOK /\ PinInv /\ ChainInv)
  BY ChainInvariant
<1>2. TypeOK /\ PinInv /\ ChainInv => NoFalseAlarm
  BY ChainAlarm
<1>3. QED
  BY <1>1, <1>2, PTL

----------------------------------------------------------------------------
(* Recovery.  Torn and lost lines are skipped by both readers alike, so what remains to   *)
(* assume is that every line fits the tail window.                                        *)

ShortLines == EntrySizes \subseteq {FALSE}

\* What a process carries to its next step: an append a short line, a reconcile_shard the
\* hash of the last entry.
TipProc(p) ==
    /\ pc[p] = "write" => ~loc[p].big
    /\ loc[p].op = "reconcile" /\ pc[p] \in {"count", "decide", "open", "dump", "replace"} =>
         loc[p].hash = LastHash

ReadInv ==
    /\ \A i \in DOMAIN log : ~log[i].big
    /\ \A p \in Procs : TipProc(p)

\* A step of p that does not touch the lines.
LEMMA TipFrame ==
    ASSUME ReadInv, NEW p \in Procs, log' = log, TipProc(p)',
           \A q \in Procs : q # p =>
             /\ pc'[q] = pc[q] /\ loc'[q].op = loc[q].op /\ loc'[q].hash = loc[q].hash
             /\ loc'[q].big = loc[q].big
    PROVE  ReadInv'
<1>1. LastHash' = LastHash
  BY DEF LastHash, Readable
<1>2. \A q \in Procs : q # p => TipProc(q)'
  BY <1>1 DEF ReadInv, TipProc
<1>3. QED
  BY <1>2 DEF ReadInv

\* The call of p ends.
LEMMA TipLeave ==
    ASSUME TypeOK, ReadInv, NEW p \in Procs, Leave(p), log' = log
    PROVE  ReadInv'
<1>1. /\ pc'[p] = "idle" /\ loc'[p] = NoLocals
      /\ \A q \in Procs : q # p => pc'[q] = pc[q] /\ loc'[q] = loc[q]
  BY DEF Leave, Goto, TypeOK
<1>2. TipProc(p)'
  BY <1>1 DEF TipProc, NoLocals
<1>3. QED
  BY <1>1, <1>2, TipFrame

\* A write adds a short line to short lines.
LEMMA ShortWrite ==
    ASSUME log \in Seq(Line), \A i \in DOMAIN log : ~log[i].big,
           NEW line \in Line, ~line.big, log' = Extended(line)
    PROVE  \A i \in DOMAIN log' : ~log'[i].big
<1>1. CASE Len(log) > 0 /\ log[Len(log)].seg = line.seg /\ ~log[Len(log)].closed
  <2> DEFINE n == Len(log)
             merged == [line EXCEPT !.hash = NoHash, !.prev = NoHash, !.parses = FALSE,
                                    !.big = @ \/ log[n].big]
  <2>1. n \in DOMAIN log
    BY <1>1
  <2>2. ~merged.big
    BY <2>1 DEF Line
  <2>3. log' = [log EXCEPT ![n] = merged]
    BY <1>1 DEF Extended
  <2> HIDE DEF merged, n
  <2>4. DOMAIN log' = DOMAIN log /\ \A i \in DOMAIN log : log'[i] = IF i = n THEN merged ELSE log[i]
    BY <2>3, Zenon
  <2>5. QED
    BY <2>2, <2>4, Zenon
<1>2. CASE ~(Len(log) > 0 /\ log[Len(log)].seg = line.seg /\ ~log[Len(log)].closed)
  <2>1. log' = Append(log, line)
    BY <1>2 DEF Extended
  <2>2. /\ Len(log) \in Nat /\ DOMAIN log' = 1 .. Len(log) + 1
        /\ DOMAIN log = 1 .. Len(log) /\ log'[Len(log) + 1] = line
        /\ \A i \in 1 .. Len(log) : log'[i] = log[i]
    BY <2>1
  <2>3. QED
    BY <2>2
<1>3. QED
  BY <1>1, <1>2

\* While an append runs, no reconcile_shard does: its line changes no tip that is in use.
LEMMA TipWrite ==
    ASSUME TypeOK, PinInv, ReadInv, NEW p \in Procs, pc[p] = "write",
           NEW line \in Line, ~line.big, log' = Extended(line),
           pc'[p] # "write", loc'[p].op # "reconcile",
           \A q \in Procs : q # p => pc'[q] = pc[q] /\ loc'[q] = loc[q]
    PROVE  ReadInv'
<1>1. \A i \in DOMAIN log' : ~log'[i].big
  BY ShortWrite DEF TypeOK, ReadInv
<1>2. loc[p].op = "append" /\ \A q \in Procs : q # p => loc[q].op # "reconcile"
  BY DEF PinInv, ProcPin, Busy
<1>3. \A q \in Procs : TipProc(q)'
  BY <1>2 DEF ReadInv, TipProc
<1>4. QED
  BY <1>1, <1>3 DEF ReadInv

\* Every step keeps ReadInv.
LEMMA TipStep ==
    QuietRecovery /\ ShortLines /\ TypeOK /\ PinInv /\ ReadInv /\ [Next]_vars => ReadInv'
<1> SUFFICES ASSUME QuietRecovery, ShortLines, TypeOK, PinInv, ReadInv, [Next]_vars
             PROVE  ReadInv'
  OBVIOUS
<1>a. ASSUME NEW p \in Procs
      PROVE  ProcPin(p) /\ TipProc(p) /\ loc[p] \in Locals
  BY <1>a DEF PinInv, ReadInv, TypeOK
<1>1. ASSUME NEW p \in Procs, AppendBegin(p) \/ RecoverBegin(p) \/ VerifyRead(p)
      PROVE  ReadInv'
  <2>1. log' = log /\ \A q \in Procs : q # p => pc'[q] = pc[q] /\ loc'[q] = loc[q]
    BY <1>1 DEF AppendBegin, RecoverBegin, VerifyRead, Goto, TypeOK
  <2>2. CASE AppendBegin(p)
    <3>1. pc'[p] = "write" /\ ~loc'[p].big /\ loc'[p].op = "append"
      BY <2>2, ZenonT(40) DEF AppendBegin, Goto, TypeOK, NoLocals, ShortLines
    <3>2. TipProc(p)'
      BY <3>1 DEF TipProc
    <3>3. QED
      BY <2>1, <3>2, TipFrame
  <2>3. CASE RecoverBegin(p) \/ VerifyRead(p)
    <3>1. pc'[p] \in {"tail", "observe"}
      BY <2>3 DEF RecoverBegin, VerifyRead, Goto, TypeOK
    <3>2. TipProc(p)'
      BY <3>1 DEF TipProc
    <3>3. QED
      BY <2>1, <3>2, TipFrame
  <2>4. QED
    BY <1>1, <2>2, <2>3
<1>2. ASSUME NEW p \in Procs, AppendWrite(p)
      PROVE  ReadInv'
  <2>1. /\ pc[p] = "write" /\ pc'[p] = "open" /\ log' = Extended(NewLine(p)) /\ written \in Nat
        /\ loc'[p] = [loc[p] EXCEPT !.hash = written + 1]
        /\ \A q \in Procs : q # p => pc'[q] = pc[q] /\ loc'[q] = loc[q]
    BY <1>2 DEF AppendWrite, Goto, TypeOK
  <2>2. NewLine(p) \in Line /\ ~NewLine(p).big
    BY <1>a, <2>1 DEF NewLine, Line, Locals, TipProc
  <2>3. loc'[p].op = "append"
    BY <1>a, <2>1 DEF ProcPin, Locals
  <2>4. QED
    BY <2>1, <2>2, <2>3, TipWrite
<1>3. ASSUME NEW p \in Procs, AppendTorn(p)
      PROVE  ReadInv'
  <2>1. pc[p] = "write" /\ Leave(p) /\ written \in Nat /\ loc[p].big = FALSE
    <3>1. loc[p].big \in BOOLEAN
      BY <1>a DEF Locals
    <3>2. QED
      BY <1>3, <1>a, <3>1 DEF AppendTorn, TypeOK, TipProc
  <2>2. /\ pc'[p] = "idle" /\ loc'[p] = NoLocals
        /\ \A q \in Procs : q # p => pc'[q] = pc[q] /\ loc'[q] = loc[q]
    BY <2>1 DEF Leave, Goto, TypeOK
  <2> DEFINE whole == [NewLine(p) EXCEPT !.closed = FALSE]
             part(b) == [NewLine(p) EXCEPT !.closed = FALSE, !.parses = FALSE,
                                           !.hash = NoHash, !.prev = NoHash, !.big = b]
  <2>3. PICK fragment \in {whole} \cup {part(b) : b \in {FALSE, loc[p].big}} :
          log' = Extended(fragment)
    BY <1>3 DEF AppendTorn
  <2>4. whole \in Line /\ ~whole.big /\ part(FALSE) \in Line /\ ~part(FALSE).big
    <3>1. NewLine(p) \in Line /\ ~NewLine(p).big
      BY <1>a, <2>1 DEF NewLine, Line, Locals
    <3>2. QED
      BY <3>1 DEF Line, NoHash
  <2>5. fragment \in Line /\ ~fragment.big
    <3> HIDE DEF whole, part
    <3>1. QED
      BY <2>1, <2>3, <2>4
  <2> HIDE DEF whole, part
  <2>6. QED
    BY <2>1, <2>2, <2>3, <2>5, TipWrite DEF NoLocals
<1>4. ASSUME NEW p \in Procs, AppendMeta(p) \/ ReplaceFails(p) \/ VerifyPin(p) \/ Fail(p)
      PROVE  ReadInv'
  <2>1. Leave(p) /\ log' = log
    BY <1>4 DEF AppendMeta, ReplaceFails, VerifyPin, Fail
  <2>2. QED
    BY <2>1, TipLeave
<1>5. ASSUME NEW p \in Procs, OpenTmp(p) \/ DumpTmp(p)
      PROVE  ReadInv'
  <2> DEFINE n == IF loc[p].op = "append" THEN pin.entry_count + 1 ELSE loc[p].count
  <2>1. log' = log /\ pc[p] \in {"open", "dump"} /\ pc'[p] \in {"dump", "replace"}
    BY <1>5 DEF OpenTmp, DumpTmp, Goto, TypeOK
  <2>2. \A q \in Procs : q # p => pc'[q] = pc[q] /\ loc'[q] = loc[q]
    BY <1>5 DEF OpenTmp, DumpTmp, Goto, TypeOK
  <2>3. \/ loc'[p] = [loc[p] EXCEPT !.fd = "tmp", !.count = n]
        \/ loc'[p] = [loc[p] EXCEPT !.fd = "none"]
    BY <1>5 DEF OpenTmp, DumpTmp, TypeOK
  <2> HIDE DEF n
  <2>4. loc'[p].op = loc[p].op /\ loc'[p].hash = loc[p].hash
    BY <1>a, <2>3 DEF Locals
  <2>5. LastHash' = LastHash
    BY <2>1 DEF LastHash, Readable
  <2>6. TipProc(p)'
    BY <1>a, <2>1, <2>4, <2>5 DEF TipProc
  <2>7. QED
    BY <2>1, <2>2, <2>6, TipFrame
<1>6. ASSUME NEW p \in Procs, ReplaceTmp(p)
      PROVE  ReadInv'
  <2>1. log' = log /\ pc'[p] \in {"meta", "idle"}
        /\ \A q \in Procs : q # p => pc'[q] = pc[q]
    BY <1>6 DEF ReplaceTmp, Goto, TypeOK
  <2>2. ASSUME NEW q \in Procs, q # p
        PROVE  loc'[q].op = loc[q].op /\ loc'[q].hash = loc[q].hash /\ loc'[q].big = loc[q].big
    <3> DEFINE fd == IF loc[q].fd = "tmp" THEN "pin"
                     ELSE IF loc[q].fd = "pin" THEN "gone" ELSE loc[q].fd
    <3>1. loc'[q] = [loc[q] EXCEPT !.fd = fd]
      BY <1>6, <1>a, <2>2, ZenonT(40) DEF ReplaceTmp, TypeOK, Locals
    <3> HIDE DEF fd
    <3>2. QED
      BY <1>a, <3>1 DEF Locals
  <2>3. TipProc(p)'
    BY <2>1 DEF TipProc
  <2>4. QED
    BY <2>1, <2>2, <2>3, TipFrame
<1>7. ASSUME NEW p \in Procs, RecoverTail(p)
      PROVE  ReadInv'
  <2>1. CASE TailHash \in {NoHash, loc[p].prev}
    BY <1>7, <2>1, TipLeave DEF RecoverTail
  <2>2. CASE TailHash \notin {NoHash, loc[p].prev}
    <3>1. log' = log /\ pc'[p] = "count" /\ loc'[p] = [loc[p] EXCEPT !.hash = TailHash]
          /\ \A q \in Procs : q # p => pc'[q] = pc[q] /\ loc'[q] = loc[q]
      BY <1>7, <2>2 DEF RecoverTail, Goto, TypeOK
    <3>2. loc'[p].hash = TailHash
      BY <1>a, <3>1 DEF Locals
    <3>3. TailHash = LastHash
      <4>1. Readable \cap InTailWindow = Readable
        BY DEF ReadInv, InTailWindow, Readable
      <4> DEFINE last(S) == IF S = {} THEN NoHash
                              ELSE log[CHOOSE i \in S : \A j \in S : j <= i].hash
      <4>2. TailHash = last(Readable \cap InTailWindow) /\ LastHash = last(Readable)
        BY Zenon DEF TailHash, LastHash
      <4> HIDE DEF last
      <4>3. QED
        BY <4>1, <4>2
    <3>4. LastHash' = LastHash
      BY <3>1 DEF LastHash, Readable
    <3>5. TipProc(p)'
      BY <3>1, <3>2, <3>3, <3>4 DEF TipProc
    <3>6. QED
      BY <3>1, <3>5, TipFrame
  <2>3. QED
    BY <2>1, <2>2
<1>8. ASSUME NEW p \in Procs, RecoverCount(p)
      PROVE  ReadInv'
  <2>1. log' = log /\ pc[p] = "count" /\ pc'[p] = "decide"
        /\ loc'[p] = [loc[p] EXCEPT !.count = Len(log)]
        /\ \A q \in Procs : q # p => pc'[q] = pc[q] /\ loc'[q] = loc[q]
    BY <1>8 DEF RecoverCount, Goto, TypeOK
  <2>2. loc'[p].op = loc[p].op /\ loc'[p].hash = loc[p].hash
    BY <1>a, <2>1 DEF Locals
  <2>3. LastHash' = LastHash
    BY <2>1 DEF LastHash, Readable
  <2>4. TipProc(p)'
    BY <1>a, <2>1, <2>2, <2>3 DEF TipProc
  <2>5. QED
    BY <2>1, <2>4, TipFrame
<1>9. ASSUME NEW p \in Procs, NEW a \in BOOLEAN, RecoverDecide(p, a)
      PROVE  ReadInv'
  <2> DEFINE nonforward == pin.kind = "json" /\ loc[p].count <= pin.entry_count
  <2>0. log' = log /\ pc[p] = "decide"
    BY <1>9 DEF RecoverDecide
  <2>1. CASE Leave(p)
    BY <2>0, <2>1, TipLeave
  <2>2. CASE loc' = [loc EXCEPT ![p].accept = nonforward] /\ Goto(p, "open")
    <3>1. pc'[p] = "open" /\ loc'[p] = [loc[p] EXCEPT !.accept = nonforward]
          /\ \A q \in Procs : q # p => pc'[q] = pc[q] /\ loc'[q] = loc[q]
      BY <2>2 DEF Goto, TypeOK
    <3> HIDE DEF nonforward
    <3>2. loc'[p].op = loc[p].op /\ loc'[p].hash = loc[p].hash
      BY <1>a, <3>1 DEF Locals
    <3>3. LastHash' = LastHash
      BY <2>0 DEF LastHash, Readable
    <3>4. TipProc(p)'
      BY <1>a, <2>0, <3>1, <3>2, <3>3 DEF TipProc
    <3>5. QED
      BY <2>0, <3>1, <3>4, TipFrame
  <2>3. QED
    BY <1>9, <2>1, <2>2 DEF RecoverDecide
<1>10. CASE Truncate
  <2>1. PICK n \in 0 .. Len(log) - 1 : log' = SubSeq(log, 1, n)
    BY <1>10 DEF Truncate
  <2>2. \A i \in DOMAIN log' : i \in DOMAIN log /\ log'[i] = log[i]
    BY <2>1, PrefixLines DEF TypeOK
  <2>3. UNCHANGED <<pc, loc>> /\ \A q \in Procs : loc[q].op # "reconcile"
    BY <1>10 DEF Truncate
  <2>4. \A q \in Procs : TipProc(q)'
    BY <2>3 DEF ReadInv, TipProc
  <2>5. QED
    BY <2>2, <2>4 DEF ReadInv
<1>11. CASE LoseMeta \/ UNCHANGED vars
  <2>1. UNCHANGED <<log, pc, loc>>
    BY <1>11 DEF LoseMeta, vars
  <2>2. LastHash' = LastHash
    BY <2>1 DEF LastHash, Readable
  <2>3. QED
    BY <2>1, <2>2 DEF ReadInv, TipProc
<1>12. QED
  BY <1>1, <1>2, <1>3, <1>4, <1>5, <1>6, <1>7, <1>8, <1>9, <1>10, <1>11 DEF Next, Step

\* A reconcile_shard that moves the pin forward leaves it on the last entry a reader sees,
\* whatever was torn, truncated or killed before: provided that it runs undisturbed and that
\* every line fits the window of _read_last_segment_tail.
THEOREM RecoveryReachesTip ==
    QuietRecovery /\ ShortLines => (Spec => RecoveryPinsTip)
<1> SUFFICES ASSUME QuietRecovery, ShortLines
             PROVE  Spec => RecoveryPinsTip
  OBVIOUS
<1>1. Init => PinInv /\ ReadInv
  BY PinInit DEF Init, ReadInv, TipProc
<1>2. TypeOK /\ PinInv /\ ReadInv /\ [Next]_vars => PinInv' /\ ReadInv'
  BY PinStep, TipStep
<1>3. ASSUME PinInv, ReadInv, NEW p \in Procs, ReplaceTmp(p), loc[p].op = "reconcile"
      PROVE  pin'.last_hash = LastHash
  <2>1. ProcPin(p) /\ TipProc(p) /\ pc[p] = "replace" /\ pin' = tmp
    BY <1>3 DEF PinInv, ReadInv, ReplaceTmp
  <2>2. QED
    BY <1>3, <2>1 DEF ProcPin, TipProc
<1>4. PinInv /\ ReadInv =>
        [\A p \in Procs : ReplaceTmp(p) /\ loc[p].op = "reconcile" /\ ~loc[p].accept
                          => pin'.last_hash = LastHash]_vars
  BY <1>3
<1>5. QED
  BY <1>1, <1>2, <1>4, TypeCorrect, PTL DEF Spec, RecoveryPinsTip

----------------------------------------------------------------------------
(* Lost entries are reported.  LossReported is not inductive, and neither the lines that  *)
(* survive nor the pin tell by themselves what was lost.  The invariant behind it counts: *)
(* every pin that is not an accepted truncation counts at least one entry more than the   *)
(* pin before it, so entry_count never falls below the number of committed entries whose  *)
(* loss nobody accepted; and a chain without a break has committed entries everywhere but *)
(* at its end.  Lines may be torn and truncated here, and metadata lost.                  *)

Owed == committed \ forgiven

\* Readable lines carry their own hashes and name committed ones, and the pin counts
\* every committed entry that is still owed.
RecordInv ==
    /\ \A i \in Readable :
         /\ log[i].hash \in 1 .. written /\ log[i].hash \notin forgiven
         /\ log[i].prev = NoHash \/ log[i].prev \in committed
    /\ \A i, j \in Readable : i < j => log[i].hash < log[j].hash
    /\ committed \subseteq 1 .. written /\ forgiven \subseteq 1 .. written
    /\ pin.last_hash = NoHash \/ pin.last_hash \in committed
    /\ pin.last_hash = NoHash => committed = {}
    /\ Cardinality(Owed) <= pin.entry_count

\* What each call carries from one step to the next: an append the hashes it read and
\* wrote, a reconcile_shard a readable line and the number of lines, a verify_shard the
\* entries that were missing when it read the lines.
ProcLoss(p) ==
    /\ loc[p].op = "append" => ~loc[p].accept
    /\ pc[p] = "write" => loc[p].prev = NoHash \/ loc[p].prev \in committed
    /\ loc[p].op = "append" /\ pc[p] \in {"open", "dump", "replace"} =>
         loc[p].hash \in 1 .. written
    /\ loc[p].op = "reconcile" /\ pc[p] \in {"count", "decide", "open", "dump", "replace"} =>
         \E i \in Readable : log[i].hash = loc[p].hash
    /\ loc[p].op = "reconcile" /\ pc[p] \in {"decide", "open", "dump", "replace"} =>
         loc[p].count = Len(log)
    /\ loc[p].op = "reconcile" /\ pc[p] \in {"open", "dump", "replace"} /\ ~loc[p].accept =>
         loc[p].count > pin.entry_count
    /\ pc[p] = "observe" =>
         /\ loc[p].missing \subseteq committed
         /\ \A i \in Readable : log[i].hash \notin loc[p].missing
         /\ loc[p].missing \ forgiven # {} => VerdictOf(p) # "OK"

LossInv == RecordInv /\ \A p \in Procs : ProcLoss(p)

\* Readable is a finite set of positions, and what is owed is finite.
LEMMA LossSets ==
    ASSUME TypeOK, RecordInv
    PROVE  /\ DOMAIN log = 1 .. Len(log) /\ Len(log) \in Nat
           /\ IsFiniteSet(1 .. Len(log)) /\ Cardinality(1 .. Len(log)) = Len(log)
           /\ Readable \subseteq 1 .. Len(log) /\ IsFiniteSet(Readable)
           /\ Cardinality(Readable) \in Nat
           /\ IsFiniteSet(committed) /\ IsFiniteSet(Owed) /\ Cardinality(Owed) \in Nat
           /\ written \in Nat
<1>1. DOMAIN log = 1 .. Len(log) /\ Len(log) \in Nat /\ written \in Nat
  BY DEF TypeOK
<1>2. ASSUME NEW n \in Nat
      PROVE  IsFiniteSet(1 .. n) /\ Cardinality(1 .. n) = n
  <2>1. 1 \in Int /\ n \in Int
    BY <1>2
  <2>2. IsFiniteSet(1 .. n) /\ Cardinality(1 .. n) = IF 1 > n THEN 0 ELSE n - 1 + 1
    BY <2>1, FS_Interval
  <2>3. QED
    BY <1>2, <2>2
<1>3. Readable \subseteq 1 .. Len(log)
  BY <1>1 DEF Readable
<1>4. IsFiniteSet(Readable) /\ Cardinality(Readable) \in Nat
  BY <1>1, <1>2, <1>3, FS_Subset, FS_CardinalityType
<1>5. committed \in SUBSET (1 .. written) /\ Owed \in SUBSET (1 .. written)
  BY DEF RecordInv, Owed
<1>6. IsFiniteSet(committed) /\ IsFiniteSet(Owed)
  BY <1>1, <1>2, <1>5, FS_Subset
<1>7. QED
  BY <1>1, <1>2, <1>3, <1>4, <1>6, FS_CardinalityType

\* In a chain without a break every readable line but the last is committed.
LEMMA UnbrokenCommitted ==
    ASSUME TypeOK, RecordInv, ~ChainBroken, NEW i \in Readable, NEW m \in Readable, i < m
    PROVE  log[i].hash \in committed
<1> DEFINE D == {k \in Readable : i < k}
<1>1. Readable \subseteq Nat
  BY LossSets
<1>2. PICK j \in D : \A k \in D : ~(k < j)
  <2>1. D \subseteq Nat /\ D # {}
    BY <1>1
  <2> HIDE DEF D
  <2>2. QED
    BY <2>1, LeastNat, Zenon
<1>3. j \in Readable /\ i < j /\ \A k \in Readable : ~(i < k /\ k < j)
  BY <1>2
<1>4. log[j].prev = log[i].hash
  BY <1>3 DEF ChainBroken
<1>5. log[i].hash # NoHash
  BY LossSets DEF RecordInv, NoHash
<1>6. QED
  BY <1>3, <1>4, <1>5 DEF RecordInv

\* A committed entry that no reader sees is in the verdict of verify_shard.
LEMMA LossSeen ==
    ASSUME TypeOK, RecordInv
    PROVE  LossReported
<1> SUFFICES ASSUME NEW h \in Lost, ~ChainBroken
             PROVE  Verdict(Cardinality(Readable), LastHash, ChainBroken, pin) = "TAMPERED"
  BY DEF LossReported, VerifyShard, Verdict
<1> DEFINE R == Cardinality(Readable)
           c == pin.entry_count
<1>1. /\ h \in Owed /\ h \in committed /\ \A i \in Readable : log[i].hash # h
      /\ pin.last_hash # NoHash
  BY DEF Lost, Owed, RecordInv
<1>2. /\ IsFiniteSet(Owed) /\ Cardinality(Owed) \in Nat /\ R \in Nat /\ c \in Nat
      /\ Cardinality(Owed) <= c
  BY LossSets DEF RecordInv, TypeOK, PinFile
<1>3. \A i, j \in Readable : log[i].hash = log[j].hash => i = j
  <2>1. \A i \in Readable : i \in Nat /\ log[i].hash \in Nat
    BY LossSets DEF RecordInv
  <2>2. QED
    BY <2>1 DEF RecordInv
<1>4. CASE Readable = {}
  <2>1. R = 0
    BY <1>4, FS_EmptySet
  <2>2. Cardinality(Owed) # 0
    BY <1>1, <1>2, FS_EmptySet
  <2>3. R < c
    BY <1>2, <2>1, <2>2
  <2>4. QED
    BY <1>1, <1>2, <2>3 DEF Verdict
<1>5. CASE Readable # {}
  <2> DEFINE m == CHOOSE i \in Readable : \A j \in Readable : j <= i
  <2>1. m \in Readable /\ (\A j \in Readable : j <= m) /\ LastHash = log[m].hash
    BY <1>5, NewestLine, LossSets DEF TypeOK, LastHash
  <2> HIDE DEF m
  <2>2. \A i \in Readable : i # m => log[i].hash \in Owed
    <3> SUFFICES ASSUME NEW i \in Readable, i # m
                 PROVE  log[i].hash \in Owed
      OBVIOUS
    <3>1. i \in Nat /\ m \in Nat /\ i <= m
      BY <2>1, LossSets
    <3>2. log[i].hash \in committed
      BY <2>1, <3>1, UnbrokenCommitted
    <3>3. QED
      BY <3>2 DEF RecordInv, Owed
  <2>3. R <= Cardinality(Owed)
    <3> DEFINE f == [i \in Readable |-> IF i = m THEN h ELSE log[i].hash]
    <3>1. f \in [Readable -> Owed]
      BY <1>1, <2>2
    <3>2. \A i, j \in Readable : f[i] = f[j] => i = j
      BY <1>1, <1>3
    <3> HIDE DEF f
    <3>3. QED
      BY <1>2, <3>1, <3>2, NoLarger
  <2>4. CASE LastHash = pin.last_hash
    <3>1. log[m].hash \in Owed
      BY <1>1, <2>1, <2>4 DEF RecordInv, Owed
    <3> DEFINE f == [i \in Readable |-> log[i].hash]
               T == Owed \ {h}
    <3>2. f \in [Readable -> T]
      BY <1>1, <2>2, <3>1
    <3>3. \A i, j \in Readable : f[i] = f[j] => i = j
      BY <1>3
    <3>4. IsFiniteSet(T) /\ Cardinality(T) = Cardinality(Owed) - 1
      BY <1>1, <1>2, FS_RemoveElement
    <3> HIDE DEF f, T
    <3>5. R <= Cardinality(T)
      BY <3>2, <3>3, <3>4, NoLarger
    <3>6. R < c
      BY <1>2, <3>4, <3>5
    <3>7. QED
      BY <1>1, <1>2, <3>6 DEF Verdict
  <2>5. CASE LastHash # pin.last_hash
    <3>1. R <= c
      BY <1>2, <2>3
    <3>2. QED
      BY <1>1, <1>2, <2>5, <3>1 DEF Verdict
  <2>6. QED
    BY <2>4, <2>5
<1>6. QED
  BY <1>4, <1>5

\* A step of p that touches neither the lines, nor the pin, nor the record of commits.
LEMMA LossFrame ==
    ASSUME TypeOK, LossInv, NEW p \in Procs,
           UNCHANGED <<log, pin, committed, forgiven, written>>,
           \A q \in Procs : q # p => pc'[q] = pc[q] /\ loc'[q] = loc[q],
           ProcLoss(p)'
    PROVE  LossInv'
<1>1. Readable' = Readable
  BY DEF Readable
<1>2. RecordInv'
  BY <1>1 DEF LossInv, RecordInv, Owed
<1>3. ASSUME NEW q \in Procs, q # p
      PROVE  ProcLoss(q)'
  <2>1. ProcLoss(q) /\ pc'[q] = pc[q] /\ loc'[q] = loc[q] /\ VerdictOf(q)' = VerdictOf(q)
    BY <1>3 DEF LossInv, VerdictOf
  <2>2. QED
    BY <1>1, <2>1 DEF ProcLoss
<1>4. QED
  BY <1>2, <1>3 DEF LossInv

\* The call of p ends without touching them.
LEMMA LossLeave ==
    ASSUME TypeOK, LossInv, NEW p \in Procs, Leave(p),
           UNCHANGED <<log, pin, committed, forgiven, written>>
    PROVE  LossInv'
<1>1. /\ pc'[p] = "idle" /\ loc'[p] = NoLocals
      /\ \A q \in Procs : q # p => pc'[q] = pc[q] /\ loc'[q] = loc[q]
  BY DEF Leave, Goto, TypeOK
<1>2. ProcLoss(p)'
  BY <1>1 DEF ProcLoss, NoLocals
<1>3. QED
  BY <1>1, <1>2, LossFrame

\* What readers see after a write: lines they saw before, and the new one if it parses.
LEMMA ExtendedReadable ==
    ASSUME TypeOK, NEW line \in Line, log' = Extended(line)
    PROVE  \A i \in Readable' :
             \/ i \in Readable /\ i < Len(log') /\ log'[i] = log[i]
             \/ i = Len(log') /\ log'[i] = line /\ line.parses
<1>1. CASE Len(log) > 0 /\ log[Len(log)].seg = line.seg /\ ~log[Len(log)].closed
  <2> DEFINE n == Len(log)
             merged == [line EXCEPT !.hash = NoHash, !.prev = NoHash, !.parses = FALSE,
                                    !.big = @ \/ log[n].big]
  <2>1. n \in 1 .. Len(log) /\ log \in Seq(Line)
    BY <1>1 DEF TypeOK
  <2>2. ~merged.parses
    BY DEF Line
  <2>3. log' = [log EXCEPT ![n] = merged]
    BY <1>1 DEF Extended
  <2> HIDE DEF merged
  <2>4. Len(log') = n /\ DOMAIN log' = 1 .. n /\ DOMAIN log = 1 .. n
        /\ log'[n] = merged /\ \A i \in 1 .. n : i # n => log'[i] = log[i]
    BY <2>1, <2>3, SMTT(30)
  <2>5. ASSUME NEW i \in Readable'
        PROVE  i \in Readable /\ i < Len(log') /\ log'[i] = log[i]
    <3>1. i \in 1 .. n /\ log'[i].parses
      BY <2>4, <2>5, ZenonT(40) DEF Readable
    <3>2. i # n
      BY <2>2, <2>4, <3>1, ZenonT(40)
    <3>3. log'[i] = log[i] /\ i \in DOMAIN log
      BY <2>4, <3>1, <3>2, Zenon
    <3>4. i < n
      BY <2>1, <3>1, <3>2
    <3>5. QED
      BY <2>4, <3>1, <3>3, <3>4, ZenonT(40) DEF Readable
  <2>6. QED
    BY <2>5
<1>2. CASE ~(Len(log) > 0 /\ log[Len(log)].seg = line.seg /\ ~log[Len(log)].closed)
  <2>1. log' = Append(log, line) /\ log \in Seq(Line)
    BY <1>2 DEF Extended, TypeOK
  <2>2. /\ Len(log) \in Nat /\ Len(log') = Len(log) + 1 /\ DOMAIN log' = 1 .. Len(log) + 1
        /\ DOMAIN log = 1 .. Len(log) /\ log'[Len(log) + 1] = line
        /\ \A i \in 1 .. Len(log) : log'[i] = log[i]
    BY <2>1
  <2>3. QED
    BY <2>2 DEF Readable
<1>3. QED
  BY <1>1, <1>2

\* A write by p, whole or torn.
LEMMA LossWrite ==
    ASSUME TypeOK, TypeOK', PinInv, LossInv, NEW p \in Procs, pc[p] = "write",
           NEW line \in Line, log' = Extended(line),
           line.parses => line.hash = written + 1 /\ line.prev = loc[p].prev,
           written' = written + 1, UNCHANGED <<pin, committed, forgiven>>,
           \A q \in Procs : q # p => pc'[q] = pc[q] /\ loc'[q] = loc[q],
           ProcLoss(p)'
    PROVE  LossInv'
<1>1. \A i \in Readable' :
        \/ i \in Readable /\ i < Len(log') /\ log'[i] = log[i]
        \/ i = Len(log') /\ log'[i] = line /\ line.parses
  BY ExtendedReadable
<1>2. /\ RecordInv /\ written \in Nat /\ Len(log') \in Nat /\ ProcPin(p) /\ ProcLoss(p)
      /\ loc[p].prev = NoHash \/ loc[p].prev \in committed
  BY SMTT(30) DEF LossInv, TypeOK, PinInv, ProcLoss
<1>3. ASSUME NEW i \in Readable'
      PROVE  /\ log'[i].hash \in 1 .. written + 1 /\ log'[i].hash \notin forgiven
             /\ log'[i].prev = NoHash \/ log'[i].prev \in committed
             /\ log'[i].hash = written + 1 \/ (i \in Readable /\ log'[i] = log[i])
  <2>1. CASE i \in Readable /\ log'[i] = log[i]
    BY <1>2, <2>1 DEF RecordInv
  <2>2. CASE log'[i] = line /\ line.parses
    <3>1. written + 1 \notin forgiven
      BY <1>2 DEF RecordInv
    <3>2. log'[i].hash = written + 1 /\ log'[i].prev = loc[p].prev
      BY <2>2
    <3>3. written + 1 \in 1 .. written + 1
      BY <1>2
    <3>4. log'[i].hash \in 1 .. written + 1 /\ log'[i].hash \notin forgiven
      BY ONLY <3>1, <3>2, <3>3
    <3>5. log'[i].prev = NoHash \/ log'[i].prev \in committed
      BY ONLY <1>2, <3>2
    <3>6. QED
      BY ONLY <3>2, <3>4, <3>5
  <2>3. QED
    BY <1>1, <1>3, <2>1, <2>2
<1>4. ASSUME NEW i \in Readable', NEW j \in Readable', i < j
      PROVE  log'[i].hash < log'[j].hash
  <2>1. i \in Readable /\ log'[i] = log[i]
    BY <1>1, <1>2, <1>4, LossSets, SMTT(30) DEF Readable, TypeOK
  <2>2. log[i].hash \in 1 .. written
    BY <1>2, <2>1 DEF RecordInv
  <2>3. CASE j \in Readable /\ log'[j] = log[j]
    BY <1>2, <1>4, <2>1, <2>3 DEF RecordInv
  <2>4. CASE log'[j].hash = written + 1
    BY <1>2, <2>1, <2>2, <2>4
  <2>5. QED
    BY <1>3, <2>3, <2>4
<1>5. RecordInv'
  <2>1. committed \subseteq 1 .. written + 1 /\ forgiven \subseteq 1 .. written + 1
    BY <1>2 DEF RecordInv
  <2>2. Owed' = Owed
    BY DEF Owed
  <2>3. QED
    BY <1>2, <1>3, <1>4, <2>1, <2>2 DEF RecordInv
<1>6. ASSUME NEW q \in Procs, q # p
      PROVE  ProcLoss(q)'
  <2>1. ProcLoss(q) /\ ProcPin(q) /\ pc'[q] = pc[q] /\ loc'[q] = loc[q]
        /\ VerdictOf(q)' = VerdictOf(q) /\ pc[q] \in PCs
    BY <1>6 DEF LossInv, PinInv, VerdictOf, TypeOK
  <2>2. ~Busy(q)
    BY <1>2, <1>6 DEF PinInv, ProcPin, Busy
  <2>3. pc[q] \in {"idle", "observe"} /\ loc[q].op \notin {"append", "reconcile"}
    BY <2>1, <2>2 DEF ProcPin, Busy, PCs
  <2>4. pc[q] = "observe" => /\ loc[q].missing \subseteq committed
                             /\ \A i \in Readable' : log'[i].hash \notin loc[q].missing
    <3> SUFFICES ASSUME pc[q] = "observe"
                 PROVE  /\ loc[q].missing \subseteq committed
                        /\ \A i \in Readable' : log'[i].hash \notin loc[q].missing
      OBVIOUS
    <3>1. loc[q].missing \subseteq committed
          /\ \A i \in Readable : log[i].hash \notin loc[q].missing
      BY <2>1 DEF ProcLoss
    <3>2. written + 1 \notin committed
      BY <1>2 DEF RecordInv
    <3>3. QED
      BY <1>3, <3>1, <3>2
  <2>5. QED
    BY <2>1, <2>3, <2>4 DEF ProcLoss
<1>7. QED
  BY <1>5, <1>6 DEF LossInv

\* A new pin: it counts one entry more than the pin before it, or it is an accepted
\* truncation, after which only what readers see is owed.
LEMMA LossReplace ==
    ASSUME TypeOK, TypeOK', PinInv, LossInv, NEW p \in Procs, ReplaceTmp(p)
    PROVE  LossInv'
<1> DEFINE h == loc[p].hash
           n == loc[p].count
           c == pin.entry_count
<1>1. /\ pc[p] = "replace" /\ ProcPin(p) /\ ProcLoss(p) /\ RecordInv /\ loc[p] \in Locals
      /\ n \in Nat /\ c \in Nat /\ written \in Nat /\ Busy(p)
      /\ log' = log /\ written' = written
  BY DEF ReplaceTmp, PinInv, LossInv, TypeOK, Locals, PinFile, ProcPin
<1>2. /\ tmp.last_hash = h /\ tmp.entry_count = n
      /\ pin'.last_hash = h /\ pin'.entry_count = n
  BY <1>1 DEF ReplaceTmp, ProcPin
<1>3. h \in 1 .. written
  <2>1. CASE loc[p].op = "append"
    BY <1>1, <2>1 DEF ProcLoss
  <2>2. CASE loc[p].op = "reconcile"
    BY <1>1, <2>2 DEF ProcLoss, RecordInv
  <2>3. QED
    BY <1>1, <2>1, <2>2 DEF Busy
<1>4. h # NoHash /\ h \in Nat
  BY <1>1, <1>3 DEF NoHash
<1>5. committed' = committed \cup {h}
  BY <1>2, <1>4 DEF ReplaceTmp
<1>6. Readable' = Readable
  BY <1>1 DEF Readable
<1>7. IsFiniteSet(Owed) /\ Cardinality(Owed) \in Nat /\ Cardinality(Owed) <= c
  BY <1>1, LossSets DEF RecordInv
<1>8. /\ ~loc[p].accept => n >= c + 1 /\ forgiven' = forgiven
      /\ loc[p].accept => /\ forgiven' = forgiven \cup Lost /\ n = Len(log)
                          /\ \E i \in Readable : log[i].hash = h
  <2>1. CASE loc[p].op = "append"
    <3>1. n = c + 1 /\ ~loc[p].accept
      BY <1>1, <2>1 DEF ProcPin, ProcLoss
    <3>2. forgiven' = forgiven
      BY <3>1 DEF ReplaceTmp
    <3>3. QED
      BY <1>1, <3>1, <3>2
  <2>2. CASE loc[p].op = "reconcile"
    <3>1. /\ n = Len(log) /\ (\E i \in Readable : log[i].hash = h)
          /\ ~loc[p].accept => n > c
      BY <1>1, <2>2 DEF ProcLoss
    <3>2. ~loc[p].accept => n >= c + 1
      BY <1>1, <3>1
    <3>3. forgiven' = IF loc[p].accept THEN forgiven \cup Lost ELSE forgiven
      BY DEF ReplaceTmp
    <3> HIDE DEF h, n, c
    <3>4. QED
      BY <3>1, <3>2, <3>3
  <2>3. QED
    BY <1>1, <2>1, <2>2 DEF Busy
<1> HIDE DEF h, n, c
<1>9. \A x \in Lost : x \in committed /\ \A i \in Readable : log[i].hash # x
  BY DEF Lost
<1>10. forgiven' \subseteq 1 .. written /\ \A i \in Readable : log[i].hash \notin forgiven'
  BY <1>1, <1>8, <1>9 DEF RecordInv
<1>11. Cardinality(Owed') <= n
  <2>1. CASE ~loc[p].accept
    <3>1. IsFiniteSet(Owed \cup {h}) /\ Cardinality(Owed \cup {h}) \in Nat
          /\ Cardinality(Owed \cup {h}) <= Cardinality(Owed) + 1
      BY <1>7, AddOne
    <3>2. Owed' \in SUBSET (Owed \cup {h})
      BY <1>5, <1>8, <2>1 DEF Owed
    <3> DEFINE O == Owed'
    <3> HIDE DEF O
    <3>3. IsFiniteSet(O) /\ Cardinality(O) <= Cardinality(Owed \cup {h})
      BY <3>1, <3>2, FS_Subset DEF O
    <3>4. Cardinality(O) \in Nat
      BY <3>3, FS_CardinalityType
    <3>5. n >= c + 1
      BY <1>8, <2>1
    <3>6. Cardinality(O) <= n
      BY <1>1, <1>7, <3>1, <3>3, <3>4, <3>5 DEF c, n
    <3>7. QED
      BY <3>6 DEF O
  <2>2. CASE loc[p].accept
    <3> DEFINE O == Owed'
               f == [x \in O |-> CHOOSE i \in Readable : log[i].hash = x]
    <3>1. \A x \in O : \E i \in Readable : log[i].hash = x
      BY <1>5, <1>8, <2>2 DEF Owed, Lost
    <3> HIDE DEF O
    <3>2. \A x \in O : f[x] \in Readable /\ log[f[x]].hash = x
      BY <3>1
    <3>3. f \in [O -> 1 .. Len(log)]
      BY <1>1, <3>2, LossSets
    <3>4. \A x, y \in O : f[x] = f[y] => x = y
      BY <3>2
    <3> HIDE DEF f
    <3>5. IsFiniteSet(1 .. Len(log)) /\ Cardinality(1 .. Len(log)) = Len(log)
      BY <1>1, LossSets
    <3>6. Cardinality(O) <= Len(log)
      BY <3>3, <3>4, <3>5, NoLarger
    <3>7. QED
      BY <1>8, <2>2, <3>6 DEF O
  <2>3. QED
    BY <2>1, <2>2
<1>12. RecordInv'
  <2>1. committed' \subseteq 1 .. written /\ h \in committed'
    BY <1>1, <1>3, <1>5 DEF RecordInv
  <2>2. \A i \in Readable : /\ log[i].hash \in 1 .. written
                            /\ log[i].prev = NoHash \/ log[i].prev \in committed'
    BY <1>1, <1>5 DEF RecordInv
  <2>3. \A i, j \in Readable : i < j => log[i].hash < log[j].hash
    BY <1>1 DEF RecordInv
  <2>4. QED
    BY <1>1, <1>2, <1>4, <1>6, <1>10, <1>11, <2>1, <2>2, <2>3 DEF RecordInv
<1>13. ProcLoss(p)'
  <2>1. \/ pc'[p] = "idle" /\ loc'[p] = NoLocals
        \/ /\ pc'[p] = "meta" /\ loc[p].op = "append"
           /\ loc'[p].op = loc[p].op /\ loc'[p].accept = loc[p].accept
    <3>1. CASE loc[p].op # "append"
      BY <1>1, <3>1 DEF ReplaceTmp, Goto, TypeOK
    <3>2. CASE loc[p].op = "append"
      <4>1. loc[p].fd = "none"
        BY <1>1 DEF ProcPin
      <4>2. loc'[p] = [loc[p] EXCEPT !.fd = "none"] /\ pc'[p] = "meta"
        BY <1>1, <3>2, <4>1, SMTT(30) DEF ReplaceTmp, Goto, TypeOK
      <4>3. QED
        BY <1>1, <3>2, <4>2 DEF Locals
    <3>3. QED
      BY <3>1, <3>2
  <2>2. loc[p].op = "append" => ~loc[p].accept
    BY <1>1 DEF ProcLoss
  <2>3. QED
    BY <2>1, <2>2 DEF ProcLoss, NoLocals
<1>14. ASSUME NEW q \in Procs, q # p
       PROVE  ProcLoss(q)'
  <2>1. ProcLoss(q) /\ ProcPin(q) /\ loc[q] \in Locals /\ pc[q] \in PCs /\ ~Busy(q)
    BY <1>1, <1>14 DEF LossInv, PinInv, TypeOK
  <2>2. pc[q] \in {"idle", "observe"} /\ loc[q].op \notin {"append", "reconcile"}
        /\ loc[q].fd = "none"
    BY <2>1 DEF ProcPin, Busy, PCs
  <2>3. pc'[q] = pc[q]
    BY <1>14 DEF ReplaceTmp, Goto, TypeOK
  <2>4. loc'[q] = loc[q]
    <3>1. loc'[q] = [loc[q] EXCEPT !.fd = "none"]
      BY <1>14, <2>1, <2>2 DEF ReplaceTmp, TypeOK
    <3>2. QED
      BY <2>1, <2>2, <3>1 DEF Locals
  <2>5. CASE pc[q] = "idle"
    BY <2>2, <2>3, <2>4, <2>5 DEF ProcLoss
  <2>6. CASE pc[q] = "observe"
    <3>1. /\ loc[q].missing \subseteq committed
          /\ \A i \in Readable : log[i].hash \notin loc[q].missing
          /\ loc[q].missing \ forgiven # {} => VerdictOf(q) # "OK"
      BY <2>1, <2>6 DEF ProcLoss
    <3>2. CASE loc[p].accept
      <4>1. loc[q].missing \subseteq forgiven'
        BY <1>8, <3>1, <3>2 DEF Lost
      <4>2. QED
        BY <1>1, <1>5, <1>6, <2>2, <2>3, <2>4, <2>6, <3>1, <4>1 DEF ProcLoss
    <3>3. CASE ~loc[p].accept
      <4>1. VerdictOf(q) # "OK" => VerdictOf(q)' # "OK"
        <5> SUFFICES ASSUME VerdictOf(q) # "OK"
                     PROVE  VerdictOf(q)' # "OK"
          OBVIOUS
        <5>1. CASE loc[q].broken
          BY <2>4, <5>1 DEF VerdictOf, Verdict
        <5>2. CASE ~loc[q].broken
          <6>1. ~(loc[q].count > c) /\ loc[q].count \in Nat
            BY <2>1, <5>2 DEF VerdictOf, Verdict, Locals, c
          <6>2. c \in Nat /\ n \in Nat /\ n >= c + 1
            BY <1>1, <1>8, <3>3 DEF c, n
          <6>3. loc[q].count < n /\ ~(loc[q].count > n)
            BY <6>1, <6>2
          <6>4. QED
            BY <1>2, <1>4, <2>4, <5>2, <6>3 DEF VerdictOf, Verdict
        <5>3. QED
          BY <5>1, <5>2
      <4>2. QED
        BY <1>1, <1>5, <1>6, <1>8, <2>2, <2>3, <2>4, <2>6, <3>1, <3>3, <4>1 DEF ProcLoss
    <3>4. QED
      BY <3>2, <3>3
  <2>7. QED
    BY <2>2, <2>5, <2>6
<1>15. QED
  BY <1>12, <1>13, <1>14 DEF LossInv

\* Lines that disappear are read by nobody who is about to pin.
LEMMA LossTruncate ==
    ASSUME QuietRecovery, TypeOK, PinInv, LossInv, Truncate
    PROVE  LossInv'
<1>1. PICK n \in 0 .. Len(log) - 1 : log' = SubSeq(log, 1, n)
  BY DEF Truncate
<1>2. \A i \in DOMAIN log' : i \in DOMAIN log /\ log'[i] = log[i]
  BY <1>1, PrefixLines DEF TypeOK
<1>3. \A i \in Readable' : i \in Readable /\ log'[i] = log[i]
  BY <1>2 DEF Readable
<1>4. /\ UNCHANGED <<pin, pc, loc, committed, forgiven, written>>
      /\ \A q \in Procs : loc[q].op # "reconcile"
  BY DEF Truncate, ghosts
<1>5. RecordInv'
  BY <1>3, <1>4 DEF LossInv, RecordInv, Owed
<1>6. ASSUME NEW q \in Procs
      PROVE  ProcLoss(q)'
  <2>1. ProcLoss(q) /\ VerdictOf(q)' = VerdictOf(q)
    BY <1>4 DEF LossInv, VerdictOf
  <2>2. QED
    BY <1>3, <1>4, <2>1 DEF ProcLoss
<1>7. QED
  BY <1>5, <1>6 DEF LossInv

\* Every step keeps LossInv.
LEMMA LossStep ==
    QuietRecovery /\ TypeOK /\ TypeOK' /\ PinInv /\ LossInv /\ [Next]_vars => LossInv'
<1> SUFFICES ASSUME QuietRecovery, TypeOK, TypeOK', PinInv, LossInv, [Next]_vars
             PROVE  LossInv'
  OBVIOUS
<1>a. ASSUME NEW p \in Procs
      PROVE  ProcPin(p) /\ ProcLoss(p) /\ loc[p] \in Locals
  BY <1>a DEF PinInv, LossInv, TypeOK
<1>b. pin.last_hash = NoHash \/ pin.last_hash \in committed
  BY DEF LossInv, RecordInv
<1>1. ASSUME NEW p \in Procs, AppendBegin(p)
      PROVE  LossInv'
  <2>1. UNCHANGED <<log, pin, committed, forgiven, written>> /\ pc'[p] = "write"
    BY <1>1 DEF AppendBegin, Goto, TypeOK, ghosts
  <2>2. \A q \in Procs : q # p => pc'[q] = pc[q] /\ loc'[q] = loc[q]
    BY <1>1 DEF AppendBegin, Goto, TypeOK
  <2>3. loc'[p].prev = pin.last_hash /\ ~loc'[p].accept /\ loc'[p].op = "append"
    BY <1>1 DEF AppendBegin, TypeOK, NoLocals
  <2>4. ProcLoss(p)'
    BY <1>b, <2>1, <2>3 DEF ProcLoss
  <2>5. QED
    BY <2>1, <2>2, <2>4, LossFrame
<1>2. ASSUME NEW p \in Procs, AppendWrite(p)
      PROVE  LossInv'
  <2>1. /\ pc[p] = "write" /\ pc'[p] = "open" /\ log' = Extended(NewLine(p))
        /\ written' = written + 1 /\ written \in Nat /\ UNCHANGED <<pin, committed, forgiven>>
        /\ loc'[p] = [loc[p] EXCEPT !.hash = written + 1]
    BY <1>2 DEF AppendWrite, Goto, TypeOK, ghosts
  <2>2. \A q \in Procs : q # p => pc'[q] = pc[q] /\ loc'[q] = loc[q]
    BY <1>2 DEF AppendWrite, Goto, TypeOK
  <2>3. NewLine(p) \in Line /\ NewLine(p).hash = written + 1 /\ NewLine(p).prev = loc[p].prev
    BY <1>a, <2>1 DEF NewLine, Line, Locals
  <2>4. loc'[p].op = "append" /\ ~loc'[p].accept /\ loc'[p].hash = written + 1
    BY <1>a, <2>1 DEF ProcPin, ProcLoss, Locals
  <2>5. written + 1 \in 1 .. written + 1
    BY <2>1
  <2>6. ProcLoss(p)'
    BY <2>1, <2>4, <2>5 DEF ProcLoss
  <2>7. QED
    BY <2>1, <2>2, <2>3, <2>6, LossWrite
<1>3. ASSUME NEW p \in Procs, AppendTorn(p)
      PROVE  LossInv'
  <2>1. /\ pc[p] = "write" /\ written' = written + 1 /\ written \in Nat
        /\ UNCHANGED <<pin, committed, forgiven>> /\ Leave(p)
    BY <1>3 DEF AppendTorn, TypeOK, ghosts
  <2>2. /\ pc'[p] = "idle" /\ loc'[p] = NoLocals
        /\ \A q \in Procs : q # p => pc'[q] = pc[q] /\ loc'[q] = loc[q]
    BY <2>1 DEF Leave, Goto, TypeOK
  <2>3. ProcLoss(p)'
    BY <2>2 DEF ProcLoss, NoLocals
  <2> DEFINE whole == [NewLine(p) EXCEPT !.closed = FALSE]
             part(b) == [NewLine(p) EXCEPT !.closed = FALSE, !.parses = FALSE,
                                           !.hash = NoHash, !.prev = NoHash, !.big = b]
  <2>4. PICK fragment \in {whole} \cup {part(b) : b \in {FALSE, loc[p].big}} :
          log' = Extended(fragment)
    BY <1>3 DEF AppendTorn
  <2>5. /\ whole \in Line /\ whole.hash = written + 1 /\ whole.prev = loc[p].prev
        /\ \A b \in BOOLEAN : part(b) \in Line /\ ~part(b).parses
    <3>1. NewLine(p) \in Line /\ NewLine(p).hash = written + 1 /\ NewLine(p).prev = loc[p].prev
      BY <1>a, <2>1 DEF NewLine, Line, Locals
    <3>2. QED
      BY <3>1 DEF Line, NoHash
  <2>6. fragment \in Line
        /\ (fragment.parses => fragment.hash = written + 1 /\ fragment.prev = loc[p].prev)
    <3>1. loc[p].big \in BOOLEAN
      BY <1>a DEF Locals
    <3> HIDE DEF whole, part
    <3>2. QED
      BY <2>4, <2>5, <3>1
  <2> HIDE DEF whole, part
  <2>7. QED
    BY <2>1, <2>2, <2>3, <2>4, <2>6, LossWrite
<1>4. ASSUME NEW p \in Procs, AppendMeta(p) \/ ReplaceFails(p) \/ VerifyPin(p) \/ Fail(p)
      PROVE  LossInv'
  <2>1. Leave(p) /\ UNCHANGED <<log, pin, committed, forgiven, written>>
    BY <1>4 DEF AppendMeta, ReplaceFails, VerifyPin, Fail, ghosts
  <2>2. QED
    BY <2>1, LossLeave
<1>5. ASSUME NEW p \in Procs, OpenTmp(p) \/ DumpTmp(p)
      PROVE  LossInv'
  <2> DEFINE n == IF loc[p].op = "append" THEN pin.entry_count + 1 ELSE loc[p].count
  <2>1. /\ UNCHANGED <<log, pin, committed, forgiven, written>>
        /\ pc[p] \in {"open", "dump"} /\ pc'[p] \in {"dump", "replace"}
    BY <1>5, <1>a DEF OpenTmp, DumpTmp, Goto, TypeOK, ghosts, ProcPin
  <2>2. \A q \in Procs : q # p => pc'[q] = pc[q] /\ loc'[q] = loc[q]
    BY <1>5 DEF OpenTmp, DumpTmp, Goto, TypeOK
  <2>3. \/ loc'[p] = [loc[p] EXCEPT !.fd = "tmp", !.count = n]
        \/ loc'[p] = [loc[p] EXCEPT !.fd = "none"]
    BY <1>5 DEF OpenTmp, DumpTmp, TypeOK
  <2>4. loc[p].op = "reconcile" => n = loc[p].count
    OBVIOUS
  <2> HIDE DEF n
  <2>5. /\ loc'[p].op = loc[p].op /\ loc'[p].hash = loc[p].hash /\ loc'[p].accept = loc[p].accept
        /\ loc[p].op = "reconcile" => loc'[p].count = loc[p].count
    BY <1>a, <2>3, <2>4 DEF Locals
  <2>6. Readable' = Readable
    BY <2>1 DEF Readable
  <2>7. ProcLoss(p)'
    BY <1>a, <2>1, <2>5, <2>6 DEF ProcLoss
  <2>8. QED
    BY <2>1, <2>2, <2>7, LossFrame
<1>6. ASSUME NEW p \in Procs, RecoverBegin(p)
      PROVE  LossInv'
  <2>1. UNCHANGED <<log, pin, committed, forgiven, written>> /\ pc'[p] = "tail"
    BY <1>6 DEF RecoverBegin, Goto, TypeOK, ghosts
  <2>2. \A q \in Procs : q # p => pc'[q] = pc[q] /\ loc'[q] = loc[q]
    BY <1>6 DEF RecoverBegin, Goto, TypeOK
  <2>3. loc'[p].op = "reconcile"
    BY <1>6 DEF RecoverBegin, TypeOK, NoLocals
  <2>4. ProcLoss(p)'
    BY <2>1, <2>3 DEF ProcLoss
  <2>5. QED
    BY <2>1, <2>2, <2>4, LossFrame
<1>7. ASSUME NEW p \in Procs, RecoverTail(p)
      PROVE  LossInv'
  <2>0. UNCHANGED <<log, pin, committed, forgiven, written>> /\ pc[p] = "tail"
    BY <1>7 DEF RecoverTail, ghosts
  <2>1. CASE TailHash \in {NoHash, loc[p].prev}
    BY <1>7, <2>0, <2>1, LossLeave DEF RecoverTail
  <2>2. CASE TailHash \notin {NoHash, loc[p].prev}
    <3>1. pc'[p] = "count" /\ loc'[p] = [loc[p] EXCEPT !.hash = TailHash]
      BY <1>7, <2>2 DEF RecoverTail, Goto, TypeOK
    <3>2. \A q \in Procs : q # p => pc'[q] = pc[q] /\ loc'[q] = loc[q]
      BY <1>7, <2>2 DEF RecoverTail, Goto, TypeOK
    <3>3. loc'[p].hash = TailHash /\ loc'[p].op = "reconcile"
      BY <1>a, <2>0, <3>1 DEF Locals, ProcPin
    <3>4. \E i \in Readable : log[i].hash = TailHash
      <4> DEFINE seen == Readable \cap InTailWindow
      <4>1. seen # {} /\ seen \subseteq DOMAIN log
        BY <2>2 DEF TailHash, Readable
      <4>2. TailHash = log[CHOOSE i \in seen : \A j \in seen : j <= i].hash
        BY <4>1 DEF TailHash
      <4>3. (CHOOSE i \in seen : \A j \in seen : j <= i) \in seen
        <5> HIDE DEF seen
        <5>1. QED
          BY <4>1, NewestLine DEF TypeOK
      <4>4. QED
        BY <4>2, <4>3
    <3>5. Readable' = Readable
      BY <2>0 DEF Readable
    <3>6. ProcLoss(p)'
      BY <2>0, <3>1, <3>3, <3>4, <3>5 DEF ProcLoss
    <3>7. QED
      BY <2>0, <3>2, <3>6, LossFrame
  <2>3. QED
    BY <2>1, <2>2
<1>8. ASSUME NEW p \in Procs, RecoverCount(p)
      PROVE  LossInv'
  <2>1. UNCHANGED <<log, pin, committed, forgiven, written>> /\ pc'[p] = "decide" /\ pc[p] = "count"
    BY <1>8 DEF RecoverCount, Goto, TypeOK, ghosts
  <2>2. \A q \in Procs : q # p => pc'[q] = pc[q] /\ loc'[q] = loc[q]
    BY <1>8 DEF RecoverCount, Goto, TypeOK
  <2>3. loc'[p] = [loc[p] EXCEPT !.count = Len(log)]
    BY <1>8 DEF RecoverCount, TypeOK
  <2>4. loc'[p].hash = loc[p].hash /\ loc'[p].count = Len(log) /\ loc'[p].op = "reconcile"
        /\ loc[p].op = "reconcile"
    BY <1>a, <2>1, <2>3 DEF Locals, ProcPin
  <2>5. Readable' = Readable
    BY <2>1 DEF Readable
  <2>6. ProcLoss(p)'
    BY <1>a, <2>1, <2>4, <2>5 DEF ProcLoss
  <2>7. QED
    BY <2>1, <2>2, <2>6, LossFrame
<1>9. ASSUME NEW p \in Procs, NEW a \in BOOLEAN, RecoverDecide(p, a)
      PROVE  LossInv'
  <2> DEFINE nonforward == pin.kind = "json" /\ loc[p].count <= pin.entry_count
  <2>0. UNCHANGED <<log, pin, committed, forgiven, written>> /\ pc[p] = "decide"
    BY <1>9 DEF RecoverDecide, ghosts
  <2>1. CASE Leave(p)
    BY <2>0, <2>1, LossLeave
  <2>2. CASE loc' = [loc EXCEPT ![p].accept = nonforward] /\ Goto(p, "open")
    <3>1. pc'[p] = "open" /\ loc'[p] = [loc[p] EXCEPT !.accept = nonforward]
      BY <2>2 DEF Goto, TypeOK
    <3>2. \A q \in Procs : q # p => pc'[q] = pc[q] /\ loc'[q] = loc[q]
      BY <2>2 DEF Goto, TypeOK
    <3>3. /\ loc'[p].hash = loc[p].hash /\ loc'[p].op = "reconcile"
          /\ loc'[p].count = loc[p].count /\ loc'[p].accept = nonforward
      <4> HIDE DEF nonforward
      <4>1. loc[p].op = "reconcile"
        BY <1>a, <2>0 DEF ProcPin
      <4>2. QED
        BY <1>a, <3>1, <4>1 DEF Locals
    <3>4. /\ loc[p].count = Len(log) /\ \E i \in Readable : log[i].hash = loc[p].hash
      BY <1>a, <2>0 DEF ProcLoss, ProcPin
    <3>5. ~nonforward => loc[p].count > pin.entry_count
      <4>1. Len(log) \in Nat /\ pin.entry_count \in Nat
        BY DEF TypeOK, PinFile
      <4>2. CASE pin.kind = "json"
        BY <3>4, <4>1, <4>2
      <4>3. CASE pin = Absent
        <5>1. pin.entry_count = 0
          BY <4>3 DEF Absent
        <5>2. Len(log) # 0
          BY <3>4 DEF Readable, TypeOK
        <5>3. QED
          BY <3>4, <4>1, <5>1, <5>2
      <4>4. QED
        BY <4>2, <4>3 DEF PinInv
    <3>6. Readable' = Readable
      BY <2>0 DEF Readable
    <3> HIDE DEF nonforward
    <3>7. ProcLoss(p)'
      BY <2>0, <3>1, <3>3, <3>4, <3>5, <3>6 DEF ProcLoss
    <3>8. QED
      BY <2>0, <3>2, <3>7, LossFrame
  <2>3. QED
    BY <1>9, <2>1, <2>2 DEF RecoverDecide
<1>10. ASSUME NEW p \in Procs, VerifyRead(p)
       PROVE  LossInv'
  <2>1. UNCHANGED <<log, pin, committed, forgiven, written>> /\ pc'[p] = "observe"
    BY <1>10 DEF VerifyRead, Goto, TypeOK, ghosts
  <2>2. \A q \in Procs : q # p => pc'[q] = pc[q] /\ loc'[q] = loc[q]
    BY <1>10 DEF VerifyRead, Goto, TypeOK
  <2>3. /\ loc'[p].op = "verify" /\ loc'[p].missing = Lost
        /\ loc'[p].count = Cardinality(Readable) /\ loc'[p].hash = LastHash
        /\ loc'[p].broken = ChainBroken
    BY <1>10 DEF VerifyRead, TypeOK, NoLocals
  <2>4. VerdictOf(p)' = VerifyShard
    BY <2>1, <2>3 DEF VerdictOf, VerifyShard
  <2>5. Lost # {} => VerifyShard # "OK"
    BY LossSeen DEF LossInv, LossReported
  <2>6. Lost \subseteq committed /\ \A i \in Readable : log[i].hash \notin Lost
    BY DEF Lost
  <2>7. Readable' = Readable
    BY <2>1 DEF Readable
  <2>8. ProcLoss(p)'
    BY <2>1, <2>3, <2>4, <2>5, <2>6, <2>7 DEF ProcLoss
  <2>9. QED
    BY <2>1, <2>2, <2>8, LossFrame
<1>11. CASE LoseMeta \/ UNCHANGED vars
  <2>1. UNCHANGED <<log, pin, pc, loc, committed, forgiven, written>>
    BY <1>11 DEF LoseMeta, vars, ghosts
  <2>2. Readable' = Readable /\ Owed' = Owed
    BY <2>1 DEF Readable, Owed
  <2>3. \A q \in Procs : VerdictOf(q)' = VerdictOf(q)
    BY <2>1 DEF VerdictOf
  <2>4. RecordInv'
    BY <2>1, <2>2 DEF LossInv, RecordInv
  <2>5. \A q \in Procs : ProcLoss(q)'
    BY <2>1, <2>2, <2>3 DEF LossInv, ProcLoss
  <2>6. QED
    BY <2>4, <2>5 DEF LossInv
<1>12. QED
  BY <1>1, <1>2, <1>3, <1>4, <1>5, <1>6, <1>7, <1>8, <1>9, <1>10, <1>11,
     LossReplace, LossTruncate DEF Next, Step

\* LossInv holds from the start.
LEMMA LossInit == Init => LossInv
<1> SUFFICES ASSUME Init
             PROVE  LossInv
  OBVIOUS
<1>1. Owed = {} /\ Readable = {} /\ committed = {} /\ forgiven = {}
  BY DEF Init, Owed, Readable
<1>2. Cardinality(Owed) = 0
  BY <1>1, FS_EmptySet
<1>3. RecordInv
  BY <1>1, <1>2 DEF Init, RecordInv, Absent
<1>4. \A p \in Procs : ProcLoss(p)
  BY DEF Init, ProcLoss, NoLocals
<1>5. QED
  BY <1>3, <1>4 DEF LossInv

\* Whatever is torn, truncated or killed, a committed entry that can no longer be read is
\* in the verdict of every verify_shard that reads the lines after the loss, however
\* appends and reconciles move the pin before it reads that, until an operator accepts
\* the loss: provided reconcile_shard runs undisturbed.
THEOREM LossesAreVisible == QuietRecovery => (Spec => []LossIsVisible)
<1> SUFFICES ASSUME QuietRecovery
             PROVE  Spec => []LossIsVisible
  OBVIOUS
<1>1. TypeOK /\ PinInv /\ [Next]_vars => PinInv'
  BY PinStep
<1>2. TypeOK /\ TypeOK' /\ PinInv /\ LossInv /\ [Next]_vars => LossInv'
  BY LossStep
<1>3. TypeOK /\ LossInv => LossIsVisible
  BY LossSeen DEF LossInv, LossIsVisible, VerifyCatchesLoss, ProcLoss
<1>4. QED
  BY <1>1, <1>2, <1>3, PinInit, LossInit, TypeCorrect, PTL DEF Spec

----------------------------------------------------------------------------
(* The ledger callers see.  Every step of ShardStore is a step of Ledger on the committed *)
(* lines, or leaves them alone: a pin commits the last line, append returns what it       *)
(* pinned.  Beside ChainInv this needs that the bound on writes reaches every line and    *)
(* that an append counting its line has pinned it.                                        *)

\* The k-th of a finite set of positions is one of them, with k - 1 before it.
LEMMA NthOf ==
    ASSUME NEW S, S \subseteq Nat, IsFiniteSet(S), NEW k \in 1 .. Cardinality(S)
    PROVE  Nth(S, k) \in S /\ Cardinality({j \in S : j < Nth(S, k)}) = k - 1
<1>1. Cardinality(S) \in Nat
  BY FS_CardinalityType
<1>2. k - 1 \in Nat /\ k - 1 < Cardinality(S)
  BY <1>1
<1>3. \E i \in S : Cardinality({j \in S : j < i}) = k - 1
  BY <1>2, RankExists, Zenon
<1>4. QED
  BY <1>3, Zenon DEF Nth

\* Two positions with as many before them are the same.
LEMMA NthIs ==
    ASSUME NEW S, S \subseteq Nat, IsFiniteSet(S), NEW k \in 1 .. Cardinality(S),
           NEW i \in S, Cardinality({j \in S : j < i}) = k - 1
    PROVE  Nth(S, k) = i
<1> DEFINE B(x) == {j \in S : j < x}
<1>1. ASSUME NEW a \in S, NEW b \in S, a < b
      PROVE  Cardinality(B(a)) # Cardinality(B(b))
  <2>1. IsFiniteSet(B(a)) /\ IsFiniteSet(B(b))
    <3>1. B(a) \in SUBSET S /\ B(b) \in SUBSET S
      OBVIOUS
    <3>2. QED
      BY <3>1, FS_Subset
  <2>2. a \notin B(a) /\ B(a) \cup {a} \in SUBSET B(b)
    <3>1. a \in Nat /\ b \in Nat
      BY <1>1
    <3>2. \A j \in S : j \in Nat /\ (j < a => j < b)
      BY <1>1, <3>1
    <3>3. ~(a < a)
      BY <3>1
    <3>4. \A j \in B(a) : j \in B(b)
      BY <3>2
    <3>5. a \in B(b)
      BY <1>1
    <3>6. QED
      BY <3>3, <3>4, <3>5
  <2> HIDE DEF B
  <2>3. /\ Cardinality(B(a)) \in Nat
        /\ Cardinality(B(a) \cup {a}) = Cardinality(B(a)) + 1
    BY <2>1, <2>2, AddOne
  <2>4. Cardinality(B(a) \cup {a}) <= Cardinality(B(b)) /\ Cardinality(B(b)) \in Nat
    BY <2>1, <2>2, FS_Subset, FS_CardinalityType
  <2>5. QED
    BY <2>3, <2>4
<1> DEFINE n == Nth(S, k)
<1>2. n \in S /\ Cardinality(B(n)) = k - 1 /\ Cardinality(B(i)) = k - 1
  BY NthOf
<1> HIDE DEF B, n
<1>3. n \in Nat /\ i \in Nat
  BY <1>2
<1>4. ~(n < i) /\ ~(i < n)
  BY <1>1, <1>2, Zenon
<1>5. n = i
  BY <1>3, <1>4
<1>6. QED
  BY <1>5 DEF n

\* A greater position comes last and moves no other.
LEMMA NthGrows ==
    ASSUME NEW S, S \subseteq Nat, IsFiniteSet(S), NEW n \in Nat, \A i \in S : i < n
    PROVE  /\ Cardinality(S) \in Nat /\ Cardinality(S \cup {n}) = Cardinality(S) + 1
           /\ \A k \in 1 .. Cardinality(S) : Nth(S \cup {n}, k) = Nth(S, k)
           /\ Nth(S \cup {n}, Cardinality(S) + 1) = n
<1> DEFINE T == S \cup {n}
           c == Cardinality(S)
<1>1. n \notin S
  OBVIOUS
<1>2. T \subseteq Nat /\ IsFiniteSet(T) /\ c \in Nat /\ Cardinality(T) = c + 1 /\ n \in T
  BY <1>1, AddOne
<1>3. ASSUME NEW k \in 1 .. c
      PROVE  Nth(T, k) = Nth(S, k)
  <2> DEFINE i == Nth(S, k)
  <2>1. i \in S /\ Cardinality({j \in S : j < i}) = k - 1
    BY NthOf
  <2> HIDE DEF i
  <2>2. {j \in T : j < i} = {j \in S : j < i}
    <3>1. i \in Nat /\ i < n
      BY <2>1
    <3>2. ~(n < i)
      BY <3>1
    <3>3. QED
      BY <3>2
  <2>3. k \in 1 .. Cardinality(T)
    BY <1>2
  <2>4. i \in T /\ Cardinality({j \in T : j < i}) = k - 1
    BY <2>1, <2>2
  <2> HIDE DEF T
  <2>5. Nth(T, k) = i
    BY <1>2, <2>3, <2>4, NthIs
  <2>6. QED
    BY <2>5 DEF i
<1>4. Nth(T, c + 1) = n
  <2>1. {j \in T : j < n} = S
    <3>1. ~(n < n)
      OBVIOUS
    <3>2. QED
      BY <3>1
  <2> DEFINE B == {j \in T : j < n}
  <2>a. Cardinality(B) = c
    BY <2>1
  <2> HIDE DEF T, B, c
  <2>2. c + 1 \in 1 .. Cardinality(T) /\ Cardinality(B) = (c + 1) - 1
    BY <1>2, <2>a
  <2> USE DEF B
  <2>3. QED
    BY <1>2, <2>2, NthIs
<1>5. QED
  BY <1>2, <1>3, <1>4

\* Every line written is one of the ledger's entries, and an append that is about to return
\* has committed its line.
LedgerInv ==
    /\ written <= MaxWrites
    /\ \A p \in Procs : pc[p] = "write" => written < MaxWrites
    /\ \A p \in Procs : pc[p] = "meta" => loc[p].hash \in committed

\* Every step keeps LedgerInv.
LEMMA LedgerInvStep ==
    TypeOK /\ PinInv /\ LedgerInv /\ ChainInv /\ [Next]_vars => LedgerInv'
<1> SUFFICES ASSUME TypeOK, PinInv, LedgerInv, ChainInv, [Next]_vars
             PROVE  LedgerInv'
  OBVIOUS
<1>a. ASSUME written' = written, committed' = committed,
             \A q \in Procs : pc'[q] = "write" => pc[q] = "write",
             \A q \in Procs : pc'[q] = "meta" => pc[q] = "meta" /\ loc'[q] = loc[q]
      PROVE  LedgerInv'
  BY <1>a DEF LedgerInv
<1>1. ASSUME NEW p \in Procs, AppendBegin(p)
      PROVE  LedgerInv'
  <2>1. /\ written' = written /\ committed' = committed /\ written < MaxWrites
        /\ \A q \in Procs : pc'[q] = "meta" => pc[q] = "meta" /\ loc'[q] = loc[q]
    BY <1>1 DEF AppendBegin, Goto, TypeOK, ghosts
  <2>2. QED
    BY <2>1 DEF LedgerInv
<1>2. ASSUME NEW p \in Procs, AppendWrite(p) \/ AppendTorn(p)
      PROVE  LedgerInv'
  <2>1. /\ pc[p] = "write" /\ written' = written + 1 /\ committed' = committed
        /\ pc'[p] \in {"open", "idle"}
        /\ \A q \in Procs : q # p => pc'[q] = pc[q] /\ loc'[q] = loc[q]
    BY <1>2 DEF AppendWrite, AppendTorn, Leave, Goto, TypeOK, ghosts
  <2>2. written + 1 <= MaxWrites
    BY <2>1, ShardAssumption DEF LedgerInv, TypeOK
  <2>3. \A q \in Procs : pc'[q] \notin {"write", "meta"}
    <3> SUFFICES ASSUME NEW q \in Procs, q # p
                 PROVE  pc[q] \notin {"write", "meta"}
      BY <2>1
    <3>1. ProcPin(q) /\ ProcPin(p)
      BY DEF PinInv
    <3>2. ~Busy(q)
      BY <2>1, <3>1 DEF PinInv, ProcPin, Busy
    <3>3. QED
      BY <3>1, <3>2 DEF ProcPin, Busy
  <2>4. QED
    BY <2>1, <2>2, <2>3 DEF LedgerInv
<1>3. ASSUME NEW p \in Procs, ReplaceTmp(p)
      PROVE  LedgerInv'
  <2>1. /\ written' = written /\ pc[p] = "replace" /\ ProcPin(p) /\ loc[p] \in Locals
        /\ \A q \in Procs : q # p => pc'[q] = pc[q]
        /\ pc'[p] \in {"meta", "idle"}
    BY <1>3 DEF ReplaceTmp, Goto, TypeOK, PinInv
  <2>2. \A q \in Procs : q # p => pc[q] \notin {"write", "meta"}
    <3> SUFFICES ASSUME NEW q \in Procs, q # p
                 PROVE  pc[q] \notin {"write", "meta"}
      OBVIOUS
    <3>1. ProcPin(q) /\ ~Busy(q)
      BY <2>1 DEF PinInv, ProcPin
    <3>2. QED
      BY <3>1 DEF ProcPin, Busy
  <2>3. ASSUME pc'[p] = "meta"
        PROVE  loc'[p].hash \in committed'
    <3>1. loc[p].op = "append" /\ loc[p].fd = "none"
      BY <1>3, <2>1, <2>3 DEF ReplaceTmp, Goto, TypeOK, ProcPin
    <3>2. loc'[p] = [loc[p] EXCEPT !.fd = "none"]
      BY <1>3, <2>1, <3>1 DEF ReplaceTmp, TypeOK
    <3>3. loc'[p].hash = tmp.last_hash
      BY <2>1, <3>2 DEF Locals, ProcPin
    <3>4. tmp.last_hash # NoHash
      <4>1. loc[p].hash = Len(log) /\ pin.last_hash < Len(log)
        BY <2>1 DEF ChainInv, ProcChain
      <4>2. pin.last_hash \in Nat /\ Len(log) \in Nat
        BY DEF TypeOK, PinFile
      <4>3. QED
        BY <2>1, <4>1, <4>2 DEF ProcPin, NoHash
    <3>5. QED
      BY <1>3, <3>3, <3>4 DEF ReplaceTmp
  <2>4. \A q \in Procs : pc'[q] # "write" /\ (pc'[q] = "meta" => q = p)
    BY <2>1, <2>2
  <2>5. QED
    BY <2>1, <2>3, <2>4 DEF LedgerInv
<1>4. ASSUME NEW p \in Procs,
             \/ AppendMeta(p) \/ ReplaceFails(p) \/ VerifyPin(p) \/ Fail(p)
             \/ OpenTmp(p) \/ DumpTmp(p) \/ RecoverBegin(p) \/ RecoverCount(p) \/ VerifyRead(p)
      PROVE  LedgerInv'
  <2>1. written' = written /\ committed' = committed
    BY <1>4 DEF AppendMeta, ReplaceFails, VerifyPin, Fail, OpenTmp, DumpTmp, RecoverBegin,
                RecoverCount, VerifyRead, ghosts
  <2>2. pc'[p] \notin {"write", "meta"} /\ \A q \in Procs : q # p => pc'[q] = pc[q] /\ loc'[q] = loc[q]
    BY <1>4 DEF AppendMeta, ReplaceFails, VerifyPin, Fail, OpenTmp, DumpTmp, RecoverBegin,
                RecoverCount, VerifyRead, Leave, Goto, TypeOK
  <2>3. QED
    BY <1>a, <2>1, <2>2
<1>5. ASSUME NEW p \in Procs, RecoverTail(p) \/ \E a \in BOOLEAN : RecoverDecide(p, a)
      PROVE  LedgerInv'
  <2>1. written' = written /\ committed' = committed
    BY <1>5 DEF RecoverTail, RecoverDecide, ghosts
  <2>2. pc'[p] \notin {"write", "meta"} /\ \A q \in Procs : q # p => pc'[q] = pc[q] /\ loc'[q] = loc[q]
    BY <1>5 DEF RecoverTail, RecoverDecide, Leave, Goto, TypeOK
  <2>3. QED
    BY <1>a, <2>1, <2>2
<1>6. CASE LoseMeta \/ Truncate \/ UNCHANGED vars
  BY <1>6, <1>a DEF LoseMeta, Truncate, vars, ghosts
<1>7. QED
  BY <1>1, <1>2, <1>3, <1>4, <1>5, <1>6 DEF Next, Step

\* While nothing is damaged the committed positions are the committed hashes.
LEMMA LedgerPositions ==
    ASSUME TypeOK, ChainInv
    PROVE  /\ CommittedPositions = committed /\ committed \subseteq Nat
           /\ IsFiniteSet(committed) /\ Cardinality(committed) \in Nat
           /\ committed \subseteq DOMAIN log /\ pin.last_hash \in Nat
           /\ \A i \in committed : log[i].hash = i /\ i <= pin.last_hash
<1>1. /\ DOMAIN log = 1 .. Len(log) /\ Len(log) \in Nat /\ pin.last_hash \in Nat
      /\ \A i \in 1 .. Len(log) : log[i].hash = i
      /\ committed \subseteq 1 .. pin.last_hash /\ pin.last_hash <= Len(log)
  BY DEF TypeOK, PinFile, ChainInv, LineInv, TipInv
<1>2. ASSUME NEW i \in committed
      PROVE  i \in 1 .. Len(log) /\ i <= pin.last_hash /\ i \in Nat
  <2>1. i \in 1 .. pin.last_hash
    BY <1>1, <1>2
  <2>2. QED
    BY <1>1, <2>1
<1>3. CommittedPositions = committed
  BY <1>1, <1>2 DEF CommittedPositions
<1>4. IsFiniteSet(1 .. Len(log))
  BY <1>1, FS_Interval
<1>5. IsFiniteSet(committed)
  BY <1>2, <1>4, FS_Subset
<1>6. Cardinality(committed) \in Nat
  BY <1>5, FS_CardinalityType
<1>7. committed \subseteq Nat /\ committed \subseteq DOMAIN log
  BY <1>1, <1>2
<1>8. \A i \in committed : log[i].hash = i /\ i <= pin.last_hash
  BY <1>1, <1>2
<1>9. QED
  BY <1>1, <1>3, <1>5, <1>6, <1>7, <1>8

\* The lines behind the committed positions are not disturbed.
LEMMA LedgerSame ==
    ASSUME TypeOK, ChainInv, TypeOK', ChainInv', committed' = committed,
           \A i \in DOMAIN log : i \in DOMAIN log' /\ log'[i] = log[i]
    PROVE  CommittedLines' = CommittedLines
<1> DEFINE c == Cardinality(committed)
<1>1. CommittedPositions = committed /\ IsFiniteSet(committed) /\ committed \subseteq Nat
      /\ committed \subseteq DOMAIN log
  BY LedgerPositions
<1>2. CommittedPositions' = committed
  <2>1. \A i \in DOMAIN log' : log'[i].hash = i
    BY DEF ChainInv, LineInv
  <2>2. committed \subseteq DOMAIN log'
    BY <1>1
  <2>3. QED
    BY <2>1, <2>2 DEF CommittedPositions
<1>3. \A k \in 1 .. c : Nth(committed, k) \in committed
  BY <1>1, NthOf
<1>4. \A k \in 1 .. c : log'[Nth(committed, k)] = log[Nth(committed, k)]
  BY <1>1, <1>3
<1>5. CommittedLines = [k \in 1 .. c |-> [hash |-> log[Nth(committed, k)].hash,
                                          prev |-> log[Nth(committed, k)].prev]]
  BY <1>1 DEF CommittedLines
<1>6. CommittedLines' = [k \in 1 .. c |-> [hash |-> log'[Nth(committed, k)].hash,
                                           prev |-> log'[Nth(committed, k)].prev]]
  BY <1>2 DEF CommittedLines
<1>7. QED
  BY <1>4, <1>5, <1>6

\* What the ledger holds: the committed lines, the pinned one last.
LEMMA LedgerContents ==
    ASSUME TypeOK, ChainInv
    PROVE  /\ Abstract!Committed = committed /\ Abstract!Tip = pin.last_hash
           /\ CommittedLines = [k \in 1 .. Cardinality(committed) |->
                                  [hash |-> log[Nth(committed, k)].hash,
                                   prev |-> log[Nth(committed, k)].prev]]
<1> DEFINE c == Cardinality(committed)
           E(k) == [hash |-> log[Nth(committed, k)].hash, prev |-> log[Nth(committed, k)].prev]
<1>1. /\ CommittedPositions = committed /\ committed \subseteq Nat
      /\ IsFiniteSet(committed) /\ c \in Nat /\ pin.last_hash \in Nat
      /\ \A i \in committed : log[i].hash = i /\ i <= pin.last_hash
  BY LedgerPositions
<1>2. CommittedLines = [k \in 1 .. c |-> E(k)]
  BY <1>1 DEF CommittedLines
<1>3. \A k \in 1 .. c : Nth(committed, k) \in committed
  BY <1>1, NthOf
<1>4. \A k \in 1 .. c : CommittedLines[k].hash = Nth(committed, k)
  BY <1>1, <1>2, <1>3
<1>5. DOMAIN CommittedLines = 1 .. c
  BY <1>2
<1>6. ASSUME NEW h \in committed
      PROVE  \E k \in 1 .. c : Nth(committed, k) = h
  <2> DEFINE B == {j \in committed : j < h}
  <2>1. h \in Nat /\ h \notin B /\ B \in SUBSET committed /\ B \cup {h} \in SUBSET committed
    BY <1>1, <1>6
  <2>2. IsFiniteSet(B)
    BY <1>1, <2>1, FS_Subset
  <2>3. Cardinality(B) \in Nat /\ Cardinality(B \cup {h}) = Cardinality(B) + 1
    BY <2>1, <2>2, AddOne
  <2>4. Cardinality(B \cup {h}) <= c
    BY <1>1, <2>1, FS_Subset
  <2> HIDE DEF c, B
  <2>5. Cardinality(B) + 1 \in 1 .. c /\ Cardinality(B) = (Cardinality(B) + 1) - 1
    BY <1>1, <2>3, <2>4
  <2>6. Nth(committed, Cardinality(B) + 1) = h
    BY <1>1, <1>6, <2>5, NthIs DEF B, c
  <2>7. QED
    BY <2>5, <2>6
<1>7. Abstract!Committed = committed
  <2>1. \A x : x \in Abstract!Committed <=> \E k \in 1 .. c : x = CommittedLines[k].hash
    BY <1>5 DEF Abstract!Committed
  <2>2. \A x : x \in Abstract!Committed <=> x \in committed
    BY <1>3, <1>4, <1>6, <2>1
  <2>3. QED
    BY <2>2
<1>8. Abstract!Tip = pin.last_hash
  <2>1. pin.last_hash = 0 \/ pin.last_hash \in committed
    BY DEF ChainInv, TipInv
  <2>2. CASE committed = {}
    <3>1. c = 0
      BY <2>2, FS_EmptySet
    <3>2. 1 .. c = {}
      BY <3>1
    <3>3. CommittedLines = <<>>
      BY <1>2, <3>2
    <3>4. QED
      BY <2>1, <2>2, <3>3 DEF Abstract!Tip, NoHash
  <2>3. CASE committed # {}
    <3> DEFINE l == pin.last_hash
               B == {j \in committed : j < l}
    <3>1. l \in committed
      <4>1. committed \subseteq 1 .. l
        BY DEF ChainInv, TipInv
      <4>2. 1 .. 0 = {}
        OBVIOUS
      <4>3. l # 0
        <5> HIDE DEF l
        <5>1. QED
          BY <2>3, <4>1, <4>2
      <4>4. QED
        BY <2>1, <4>3
    <3>2. B = committed \ {l}
      <4>1. \A j \in committed : j < l <=> j # l
        BY <1>1, <3>1
      <4>2. QED
        BY <4>1, Zenon
    <3>3. Cardinality(B) = c - 1
      BY <1>1, <3>1, <3>2, FS_RemoveElement
    <3>4. c # 0
      BY <1>1, <2>3, FS_EmptySet
    <3>5. c \in 1 .. c
      BY <1>1, <3>4
    <3>6. Nth(committed, c) = l
      <4> HIDE DEF l
      <4>1. QED
        BY <1>1, <3>1, <3>3, <3>5, NthIs
    <3>7. CommittedLines # <<>> /\ Len(CommittedLines) = c
      <4> HIDE DEF E, c
      <4>1. CommittedLines \in Seq({E(k) : k \in 1 .. c}) /\ DOMAIN CommittedLines = 1 .. c
        BY <1>1, <1>2
      <4>2. QED
        BY <1>1, <3>5, <4>1
    <3>8. QED
      BY <1>4, <3>5, <3>6, <3>7 DEF Abstract!Tip
  <2>4. QED
    BY <2>2, <2>3
<1>9. QED
  BY <1>2, <1>7, <1>8

\* A pin commits the last line to the ledger.
LEMMA LedgerCommit ==
    ASSUME TypeOK, PinInv, ChainInv, LedgerInv, TypeOK', ChainInv', NEW p \in Procs, ReplaceTmp(p)
    PROVE  Abstract!Next
<1> DEFINE n == Len(log)
           c == Cardinality(committed)
           E(k) == [hash |-> log[Nth(committed, k)].hash, prev |-> log[Nth(committed, k)].prev]
           new == [hash |-> n, prev |-> pin.last_hash]
<1>1. /\ n \in Nat /\ pin.last_hash \in Nat /\ pc[p] = "replace" /\ ProcPin(p) /\ ProcChain(p)
      /\ DOMAIN log = 1 .. n
  BY SMTT(30) DEF TypeOK, PinFile, ReplaceTmp, PinInv, ChainInv
<1>2. loc[p].hash = n /\ pin.last_hash < n /\ n \in 1 .. n
  BY <1>1 DEF ProcChain
<1>3. committed' = committed \cup {n} /\ log' = log /\ acked' = acked
  <2>1. tmp.last_hash = n /\ n # NoHash
    BY <1>1, <1>2 DEF ProcPin, NoHash
  <2>2. QED
    BY <2>1 DEF ReplaceTmp
<1>4. n \in 1 .. MaxWrites
  BY <1>1, <1>2, ShardAssumption DEF ChainInv, LineInv, LedgerInv
<1>5. /\ committed \subseteq Nat /\ IsFiniteSet(committed)
      /\ \A i \in committed : i < n
  <2>1. \A i \in committed : i \in Nat /\ i <= pin.last_hash
    BY LedgerPositions
  <2>2. QED
    BY <1>1, <1>2, <2>1, LedgerPositions
<1>6. /\ c \in Nat /\ Cardinality(committed') = c + 1
      /\ \A k \in 1 .. c : Nth(committed', k) = Nth(committed, k)
      /\ Nth(committed', c + 1) = n
  BY <1>1, <1>3, <1>5, NthGrows
<1>7. CommittedPositions' = committed'
  <2>1. \A i \in DOMAIN log : log[i].hash = i
    BY DEF ChainInv, LineInv
  <2>2. committed' \subseteq DOMAIN log
    BY <1>1, <1>2, <1>3, LedgerPositions
  <2>3. QED
    BY <1>3, <2>1, <2>2 DEF CommittedPositions
<1>8. log[n].hash = n /\ log[n].prev = pin.last_hash
  BY <1>1, <1>2 DEF ChainInv, LineInv
<1>9. CommittedLines = [k \in 1 .. c |-> E(k)]
  BY LedgerContents
<1>10. CommittedLines' = [k \in 1 .. c + 1 |-> IF k \in 1 .. c THEN E(k) ELSE new]
  <2> DEFINE D(k) == [hash |-> log[Nth(committed', k)].hash, prev |-> log[Nth(committed', k)].prev]
  <2>1. CommittedLines' = [k \in 1 .. c + 1 |-> D(k)]
    BY <1>3, <1>6, <1>7 DEF CommittedLines
  <2>2. \A k \in 1 .. c : D(k) = E(k)
    BY <1>6
  <2>3. D(c + 1) = new
    BY <1>6, <1>8
  <2>4. \A k \in 1 .. c + 1 : k \in 1 .. c \/ k = c + 1
    BY <1>6
  <2> HIDE DEF D, E, new, c
  <2>5. QED
    BY <2>1, <2>2, <2>3, <2>4
<1>11. CommittedLines' = Append(CommittedLines, new)
  <2> HIDE DEF E, new, c
  <2>1. CommittedLines \in Seq({E(k) : k \in 1 .. c}) /\ Len(CommittedLines) = c
    BY <1>6, <1>9
  <2>2. /\ Append(CommittedLines, new) \in Seq({E(k) : k \in 1 .. c} \cup {new})
        /\ DOMAIN Append(CommittedLines, new) = 1 .. c + 1
        /\ Append(CommittedLines, new)[c + 1] = new
        /\ \A k \in 1 .. c : Append(CommittedLines, new)[k] = E(k)
    BY <1>6, <1>9, <2>1
  <2> DEFINE A == Append(CommittedLines, new)
             X == {E(k) : k \in 1 .. c} \cup {new}
             F == [k \in 1 .. c + 1 |-> IF k \in 1 .. c THEN E(k) ELSE new]
  <2>3. A = [k \in 1 .. c + 1 |-> A[k]]
    <3>1. A \in Seq(X) /\ DOMAIN A = 1 .. c + 1
      BY <2>2
    <3> HIDE DEF A, X
    <3>2. A \in [1 .. Len(A) -> X] /\ DOMAIN A = 1 .. Len(A)
      BY <3>1
    <3>3. A \in [1 .. c + 1 -> X]
      BY <3>1, <3>2
    <3>4. QED
      BY <3>3
  <2>4. A[c + 1] = new /\ (\A k \in 1 .. c : A[k] = E(k)) /\ c + 1 \notin 1 .. c
    BY <1>6, <2>2
  <2>5. \A k \in 1 .. c + 1 : k \in 1 .. c \/ k = c + 1
    BY <1>6
  <2> HIDE DEF A
  <2>6. \A k \in 1 .. c + 1 : A[k] = F[k]
    BY <2>4, <2>5
  <2>7. A = F
    BY <2>3, <2>6
  <2>8. QED
    BY <1>10, <2>7 DEF A
<1>12. n \notin Abstract!Committed /\ Abstract!Tip = pin.last_hash
  <2>1. n \notin committed
    BY <1>1, <1>5
  <2>2. QED
    BY <2>1, LedgerContents
<1>13. Abstract!Commit(n)
  <2> HIDE DEF n
  <2>1. CommittedLines' = Append(CommittedLines, [hash |-> n, prev |-> Abstract!Tip])
    BY <1>11, <1>12 DEF new
  <2>2. QED
    BY <1>3, <1>12, <2>1 DEF Abstract!Commit
<1>14. QED
  BY <1>4, <1>13 DEF Abstract!Next

\* Every step is a step of the ledger, or leaves it alone.
LEMMA LedgerStep ==
    ASSUME Undamaged, TypeOK, PinInv, ChainInv, LedgerInv, TypeOK', ChainInv', [Next]_vars
    PROVE  [Abstract!Next]_<<CommittedLines, acked>>
<1>1. ASSUME NEW p \in Procs, ReplaceTmp(p)
      PROVE  Abstract!Next
  BY <1>1, LedgerCommit
<1>2. ASSUME NEW p \in Procs, AppendMeta(p)
      PROVE  Abstract!Next
  <2>1. /\ pc[p] = "meta" /\ acked' = acked \cup {loc[p].hash}
        /\ log' = log /\ committed' = committed
    BY <1>2 DEF AppendMeta
  <2>2. CommittedLines' = CommittedLines
    BY <2>1, LedgerSame
  <2>3. loc[p].hash \in Abstract!Committed
    BY <2>1, LedgerContents DEF LedgerInv
  <2>4. loc[p].hash \in 1 .. MaxWrites
    <3>1. loc[p].hash \in committed
      BY <2>1 DEF LedgerInv
    <3>2. committed \subseteq DOMAIN log
      BY LedgerPositions
    <3>3. DOMAIN log = 1 .. Len(log) /\ Len(log) \in Nat
      BY DEF TypeOK
    <3>4. Len(log) <= MaxWrites
      BY DEF ChainInv, LineInv, LedgerInv
    <3>5. QED
      BY <3>1, <3>2, <3>3, <3>4, ShardAssumption
  <2>5. Abstract!Return(loc[p].hash)
    BY <2>1, <2>2, <2>3 DEF Abstract!Return
  <2>6. QED
    BY <2>4, <2>5 DEF Abstract!Next
<1>3. ASSUME NEW p \in Procs, AppendWrite(p)
      PROVE  UNCHANGED <<CommittedLines, acked>>
  <2>1. log' = Extended(NewLine(p)) /\ committed' = committed /\ acked' = acked
    BY <1>3 DEF AppendWrite, ghosts
  <2>2. log' = Append(log, NewLine(p))
    <3>1. Len(log) \in Nat /\ DOMAIN log = 1 .. Len(log)
      BY DEF TypeOK
    <3>2. Len(log) > 0 => log[Len(log)].closed
      BY <3>1 DEF ChainInv, LineInv
    <3>3. QED
      BY <2>1, <3>2 DEF Extended
  <2>3. \A i \in DOMAIN log : i \in DOMAIN log' /\ log'[i] = log[i]
    BY <2>2, SMTT(30) DEF TypeOK
  <2>4. QED
    BY <2>1, <2>3, LedgerSame
<1>4. ASSUME log' = log, committed' = committed, acked' = acked
      PROVE  UNCHANGED <<CommittedLines, acked>>
  BY <1>4, LedgerSame
<1>5. ASSUME NEW p \in Procs,
             \/ AppendBegin(p) \/ RecoverBegin(p) \/ VerifyRead(p) \/ OpenTmp(p) \/ DumpTmp(p)
             \/ ReplaceFails(p) \/ RecoverTail(p) \/ RecoverCount(p) \/ VerifyPin(p) \/ Fail(p)
             \/ \E a \in BOOLEAN : RecoverDecide(p, a)
      PROVE  UNCHANGED <<CommittedLines, acked>>
  BY <1>5, <1>4 DEF AppendBegin, RecoverBegin, VerifyRead, OpenTmp, DumpTmp, ReplaceFails,
                    RecoverTail, RecoverCount, VerifyPin, Fail, RecoverDecide, ghosts
<1>6. ASSUME NEW p \in Procs, AppendTorn(p)
      PROVE  FALSE
  BY <1>6 DEF AppendTorn, Undamaged, TypeOK
<1>7. CASE Truncate
  BY <1>7 DEF Truncate, Undamaged, TypeOK
<1>8. CASE LoseMeta \/ UNCHANGED vars
  BY <1>8, <1>4 DEF LoseMeta, vars, ghosts
<1>9. QED
  BY <1>1, <1>2, <1>3, <1>5, <1>6, <1>7, <1>8 DEF Next, Step

\* However processes interleave, are killed and recover, callers of append see the
\* abstract Ledger: while no line is torn or lost and reconcile_shard runs undisturbed.
THEOREM ShardIsALedger == QuietRecovery /\ Undamaged => (Spec => ImplementsLedger)
<1> SUFFICES ASSUME QuietRecovery, Undamaged
             PROVE  Spec => ImplementsLedger
  OBVIOUS
<1>1. Spec => [](TypeOK /\ PinInv /\ ChainInv)
  BY ChainInvariant
<1>2. Init => LedgerInv
  BY ShardAssumption DEF Init, LedgerInv
<1>3. TypeOK /\ PinInv /\ LedgerInv /\ ChainInv /\ [Next]_vars => LedgerInv'
  BY LedgerInvStep
<1>4. Init => Abstract!Init
  <2> SUFFICES ASSUME Init
               PROVE  Abstract!Init
    OBVIOUS
  <2>1. CommittedPositions = {}
    BY DEF Init, CommittedPositions
  <2>2. Cardinality(CommittedPositions) = 0 /\ 1 .. 0 = {}
    BY <2>1, FS_EmptySet
  <2>3. CommittedLines = <<>>
    BY <2>2 DEF CommittedLines
  <2>4. QED
    BY <2>3 DEF Init, Abstract!Init
<1>5. TypeOK /\ PinInv /\ ChainInv /\ LedgerInv /\ TypeOK' /\ ChainInv' /\ [Next]_vars
        => [Abstract!Next]_<<CommittedLines, acked>>
  BY LedgerStep
<1>6. QED
  BY <1>1, <1>2, <1>3, <1>4, <1>5, PTL DEF Spec, ImplementsLedger, Abstract!Spec
=============================================================================
