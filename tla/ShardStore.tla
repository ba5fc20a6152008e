---------------------------- MODULE ShardStore ----------------------------
(***************************************************************************)
(* One DSM shard on disk, shared by several operating-system processes:    *)
(* Storage.append and Storage.reconcile_shard (core/storage.py), the       *)
(* segment files and their metadata (core/shard_segments.py) and           *)
(* verify_shard (verify.py).                                               *)
(*                                                                         *)
(* An entry is known by its hash.  SHA-256 over the canonical entry is     *)
(* taken to be collision free, so a hash is the number of the write that   *)
(* produced it; NoHash is Python's None.  The segment files of the shard   *)
(* are one sequence of lines, each tagged with the number of its segment:  *)
(* readers visit the segments by number (get_segment_files_ordered).       *)
(*                                                                         *)
(* Each step is one access to a file another process may touch in between. *)
(* append runs under the shard's lock file; reconcile_shard and            *)
(* verify_shard take no lock.                                              *)
(***************************************************************************)
EXTENDS Integers, Sequences, FiniteSets

CONSTANTS
    Procs,           \* processes that opened the data directory
    MaxEvents,       \* MAX_EVENTS_PER_SEGMENT
    EntrySizes,      \* subset of BOOLEAN: TRUE is a line longer than the 8192-byte tail window
    QuietRecovery,   \* TRUE: nothing changes the shard while reconcile_shard runs (startup)
    MaxWrites,       \* bound: lines written, lost ones included
    MaxFails,        \* bound: processes killed, or OSErrors raised, between two steps
    MaxTorn,         \* bound: writes of a line that stop half way (ENOSPC, power loss)
    MaxTruncations   \* bound: external losses of the shard's last lines

ASSUME ShardAssumption ==
    /\ MaxEvents \in Nat \ {0}
    /\ EntrySizes \subseteq BOOLEAN
    /\ QuietRecovery \in BOOLEAN
    /\ MaxWrites \in Nat /\ MaxFails \in Nat
    /\ MaxTorn \in Nat /\ MaxTruncations \in Nat

VARIABLES
    log,        \* the lines of the segment files, oldest first
    pin,        \* integrity/{shard}_last_hash.json
    tmp,        \* integrity/{shard}_last_hash.json.tmp
    meta,       \* segment_meta.json; active = 0 when the file is missing
    lock,       \* holders of integrity/{shard}.lock
    newest,     \* number of the newest segment file on disk, 0 when there is none
    pc,         \* what each process does next
    loc,        \* the local variables of its call
    written,    \* number of hashes computed so far
    committed,  \* ghost: hashes some pin has named
    acked,      \* ghost: hashes append has returned to a caller
    forgiven,   \* ghost: committed hashes whose loss an operator accepted
    fails, torn, truncations

ghosts == <<committed, acked, forgiven>>
faults == <<fails, torn, truncations>>
vars == <<log, pin, tmp, meta, newest, lock, pc, loc, written, ghosts, faults>>

NoHash == 0

----------------------------------------------------------------------------
(* Files and readers *)

\* A pin file: absent, unparsable (created and not yet written), or a JSON object.
PinFile == [kind : {"absent", "garbled", "json"}, last_hash : Nat, entry_count : Nat]
Absent  == [kind |-> "absent", last_hash |-> NoHash, entry_count |-> 0]
Garbled == [kind |-> "garbled", last_hash |-> NoHash, entry_count |-> 0]

\* A line of a segment file.  parses: json.loads accepts it; closed: it ends in a newline.
Line == [seg : Nat, hash : Nat, prev : Nat, big : BOOLEAN, parses : BOOLEAN,
         closed : BOOLEAN]

\* The lines iter_shard_events yields: unparsable ones are skipped.
Readable == {i \in DOMAIN log : log[i].parses}

\* The lines _read_last_segment_tail can see: of each segment, what follows its last
\* line longer than the window.
InTailWindow == {i \in DOMAIN log :
                   \A j \in DOMAIN log : j >= i /\ log[j].seg = log[i].seg => ~log[j].big}

\* Fault seed: the lines in view are tried from the oldest.
TailHash_Forward ==
    LET seen == Readable \cap InTailWindow
    IN  IF seen = {} THEN NoHash
        ELSE log[CHOOSE i \in seen : \A j \in seen : i <= j].hash

\* _read_last_segment_tail: the newest parsable line in view, segment by segment.
TailHash ==
    LET seen == Readable \cap InTailWindow
    IN  IF seen = {} THEN NoHash
        ELSE log[CHOOSE i \in seen : \A j \in seen : j <= i].hash

\* The hash of the last entry a full read returns.
LastHash ==
    IF Readable = {} THEN NoHash
    ELSE log[CHOOSE i \in Readable : \A j \in Readable : j <= i].hash

\* verify_shard's chain test: an entry does not name its predecessor.  The first
\* entry's prev_hash is not tested.
ChainBroken ==
    \E i, j \in Readable :
        /\ i < j
        /\ \A k \in Readable : ~(i < k /\ k < j)
        /\ log[j].prev # log[i].hash

\* Fault seed: a segment ahead of its pin is an alarm.
Verdict_AheadIsTampered(n, tip, broken, p) ==
    IF broken THEN "CHAIN_BROKEN"
    ELSE IF p.last_hash = NoHash \/ (n = p.entry_count /\ tip = p.last_hash) THEN "OK"
    ELSE "TAMPERED"

\* verify_shard's verdict for the n entries read, their tip, and a pin.
Verdict(n, tip, broken, p) ==
    IF broken THEN "CHAIN_BROKEN"
    ELSE IF p.last_hash = NoHash \/ n > p.entry_count THEN "OK"
    ELSE IF n < p.entry_count \/ tip # p.last_hash THEN "TAMPERED"
    ELSE "OK"

\* verify_shard when nothing happens between its two reads.
VerifyShard == Verdict(Cardinality(Readable), LastHash, ChainBroken, pin)

----------------------------------------------------------------------------
(* Processes *)

\* op: the call in progress.  prev: the hash read from the pin.  hash, count: what it is
\* about to pin (append: the new entry), or what verify_shard observed.  fd: where its
\* open handle on the temporary file leads, renames included.  missing is a ghost: Lost at that time.
Locals == [op : {"none", "append", "reconcile", "verify"}, seg : Nat, prev : Nat,
           hash : Nat, count : Nat, big : BOOLEAN, accept : BOOLEAN, broken : BOOLEAN,
           missing : SUBSET Nat, fd : {"none", "tmp", "pin", "gone"}]

NoLocals == [op |-> "none", seg |-> 0, prev |-> NoHash, hash |-> NoHash, count |-> 0,
             big |-> FALSE, accept |-> FALSE, broken |-> FALSE, missing |-> {},
             fd |-> "none"]

PCs == {"idle", "write", "open", "dump", "replace", "meta", "tail", "count", "decide",
        "observe"}

Goto(p, label) == pc' = [pc EXCEPT ![p] = label]

\* Fault seed: a call that ends does not release the lock.
Leave_KeepsLock(p) ==
    /\ Goto(p, "idle")
    /\ loc' = [loc EXCEPT ![p] = NoLocals]
    /\ UNCHANGED lock

\* The call ends, by a return or an exception: its handle is closed and the shard lock,
\* if it held it, released (the operating system does both for a process that died).
Leave(p) ==
    /\ Goto(p, "idle")
    /\ loc' = [loc EXCEPT ![p] = NoLocals]
    /\ lock' = lock \ {p}

\* Hashes of committed entries no reader can see any more.
Lost == {h \in committed : \A i \in Readable : log[i].hash # h} \ forgiven

Init ==
    /\ log = <<>> /\ pin = Absent /\ tmp = Absent
    /\ meta = [active |-> 0, event_count |-> 0] /\ newest = 0
    /\ lock = {}
    /\ pc = [p \in Procs |-> "idle"]
    /\ loc = [p \in Procs |-> NoLocals]
    /\ written = 0
    /\ committed = {} /\ acked = {} /\ forgiven = {}
    /\ fails = 0 /\ torn = 0 /\ truncations = 0

----------------------------------------------------------------------------
(* Storage.append *)

\* Fault seed: a segment takes one line more than the limit.
ActiveSegment_RotatesLate ==
    IF meta.active # 0 /\ meta.event_count > MaxEvents
    THEN [active |-> meta.active + 1, event_count |-> 0]
    ELSE IF meta.active # 0 THEN meta
    ELSE [active |-> IF newest = 0 THEN 1 ELSE newest, event_count |-> 0]

\* Fault seed: without metadata, numbering starts again at 0001.
ActiveSegment_RestartsAtOne ==
    IF meta.active # 0 /\ meta.event_count >= MaxEvents
    THEN [active |-> meta.active + 1, event_count |-> 0]
    ELSE IF meta.active # 0 THEN meta
    ELSE [active |-> 1, event_count |-> 0]

\* _get_active_segment_path: the segment named by the metadata, the next one when that
\* is full, and the newest file, its lines counted, when the metadata is missing.
ActiveSegment ==
    IF meta.active # 0
    THEN IF meta.event_count >= MaxEvents
         THEN [active |-> meta.active + 1, event_count |-> 0]
         ELSE meta
    ELSE IF newest = 0
         THEN [active |-> 1, event_count |-> 0]
         ELSE [active |-> newest,
               event_count |-> Cardinality({i \in DOMAIN log : log[i].seg = newest})]

\* Fault seed: append does not wait for the lock.
AppendBegin_NoLock(p) ==
    /\ pc[p] = "idle"
    /\ written < MaxWrites
    /\ QuietRecovery => \A q \in Procs : loc[q].op # "reconcile"
    /\ meta' = ActiveSegment
    /\ newest' = IF meta'.active > newest THEN meta'.active ELSE newest
    /\ \E big \in EntrySizes :
         loc' = [loc EXCEPT ![p] = [NoLocals EXCEPT !.op = "append", !.seg = meta'.active,
                                                    !.prev = pin.last_hash, !.big = big]]
    /\ Goto(p, "write")
    /\ UNCHANGED <<log, pin, tmp, lock, written, ghosts, faults>>

\* append takes the lock, resolves the active segment, opens it and reads prev_hash.
AppendBegin(p) ==
    /\ pc[p] = "idle" /\ lock = {}
    /\ written < MaxWrites
    /\ QuietRecovery => \A q \in Procs : loc[q].op # "reconcile"
    /\ lock' = {p}
    /\ meta' = ActiveSegment
    /\ newest' = IF meta'.active > newest THEN meta'.active ELSE newest
    /\ \E big \in EntrySizes :
         loc' = [loc EXCEPT ![p] = [NoLocals EXCEPT !.op = "append", !.seg = meta'.active,
                                                    !.prev = pin.last_hash, !.big = big]]
    /\ Goto(p, "write")
    /\ UNCHANGED <<log, pin, tmp, written, ghosts, faults>>

\* A write to a segment file opened for appending.  Bytes that follow an unterminated
\* line of the same segment continue that line, and no JSON object survives it.
Extended(line) ==
    LET n == Len(log)
    IN  IF n > 0 /\ log[n].seg = line.seg /\ ~log[n].closed
        THEN [log EXCEPT ![n] = [line EXCEPT !.hash = NoHash, !.prev = NoHash,
                                             !.parses = FALSE, !.big = @ \/ log[n].big]]
        ELSE Append(log, line)

\* The line process p is about to write.
NewLine(p) == [seg |-> loc[p].seg, hash |-> written + 1, prev |-> loc[p].prev,
               big |-> loc[p].big, parses |-> TRUE, closed |-> TRUE]

\* append hashes the entry, writes the line and fsyncs it.
AppendWrite(p) ==
    /\ pc[p] = "write"
    /\ log' = Extended(NewLine(p))
    /\ written' = written + 1
    /\ loc' = [loc EXCEPT ![p].hash = written + 1]
    /\ Goto(p, "open")
    /\ UNCHANGED <<pin, tmp, meta, newest, lock, ghosts, faults>>

\* The write stops half way: a fragment of the JSON is on disk, or all of it without the
\* newline.  append raises, or its process is gone.
AppendTorn(p) ==
    /\ pc[p] = "write"
    /\ torn < MaxTorn
    /\ \E fragment \in {[NewLine(p) EXCEPT !.closed = FALSE]}
                       \cup {[NewLine(p) EXCEPT !.closed = FALSE, !.parses = FALSE,
                                !.hash = NoHash, !.prev = NoHash, !.big = b] :
                             b \in {FALSE, loc[p].big}} :
         log' = Extended(fragment)
    /\ written' = written + 1
    /\ torn' = torn + 1
    /\ Leave(p)
    /\ UNCHANGED <<pin, tmp, meta, newest, ghosts, fails, truncations>>

\* Fault seed: the event count moves the wrong way.
AppendMeta_CountsDown(p) ==
    /\ pc[p] = "meta"
    /\ meta' = IF meta.active = 0 THEN meta ELSE [meta EXCEPT !.event_count = @ - 1]
    /\ acked' = acked \cup {loc[p].hash}
    /\ Leave(p)
    /\ UNCHANGED <<log, pin, tmp, newest, written, committed, forgiven, faults>>

\* update_active_segment_metadata, then append returns the entry to its caller.
AppendMeta(p) ==
    /\ pc[p] = "meta"
    /\ meta' = IF meta.active = 0 THEN meta ELSE [meta EXCEPT !.event_count = @ + 1]
    /\ acked' = acked \cup {loc[p].hash}
    /\ Leave(p)
    /\ UNCHANGED <<log, pin, tmp, newest, written, committed, forgiven, faults>>

----------------------------------------------------------------------------
(* The pin file: temporary file, fsync, os.replace.  Both append (in               *)
(* _commit_integrity_and_metadata) and reconcile_shard end with these three steps, *)
(* on the same temporary name.                                                     *)

\* append reads the pin again for its entry_count; opening for writing truncates.
OpenTmp(p) ==
    /\ pc[p] = "open"
    /\ tmp' = Garbled
    /\ LET n == IF loc[p].op = "append" THEN pin.entry_count + 1 ELSE loc[p].count
       IN  loc' = [loc EXCEPT ![p] = [@ EXCEPT !.fd = "tmp", !.count = n]]
    /\ Goto(p, "dump")
    /\ UNCHANGED <<log, pin, meta, newest, lock, written, ghosts, faults>>

\* What a file holds once `new` was written from its start: over the text of another
\* writer, whose length differs, the rest of that text may remain.
Overwrites(old, new) == {new} \cup IF old.kind = "json" THEN {Garbled} ELSE {}

\* The JSON is written through the handle, to whatever name the file has by now.
DumpTmp(p) ==
    /\ pc[p] = "dump"
    /\ LET new == [kind |-> "json", last_hash |-> loc[p].hash, entry_count |-> loc[p].count]
       IN  \/ /\ loc[p].fd = "tmp"
              /\ tmp' \in Overwrites(tmp, new)
              /\ UNCHANGED pin
           \/ /\ loc[p].fd = "pin"
              /\ pin' \in Overwrites(pin, new)
              /\ UNCHANGED tmp
           \/ /\ loc[p].fd = "gone"
              /\ UNCHANGED <<pin, tmp>>
    /\ loc' = [loc EXCEPT ![p].fd = "none"]
    /\ Goto(p, "replace")
    /\ UNCHANGED <<log, meta, newest, lock, written, ghosts, faults>>

\* os.replace: handles other processes hold follow their file.
ReplaceTmp(p) ==
    /\ pc[p] = "replace"
    /\ tmp.kind # "absent"
    /\ pin' = tmp
    /\ tmp' = Absent
    /\ LET moved == [q \in Procs |->
                       [loc[q] EXCEPT !.fd = IF @ = "tmp" THEN "pin"
                                             ELSE IF @ = "pin" THEN "gone" ELSE @]]
       IN  IF loc[p].op = "append"
           THEN loc' = moved /\ Goto(p, "meta") /\ UNCHANGED lock
           ELSE /\ loc' = [moved EXCEPT ![p] = NoLocals]
                /\ Goto(p, "idle")
                /\ lock' = lock \ {p}
    /\ committed' = committed \cup ({tmp.last_hash} \ {NoHash})
    /\ forgiven' = IF loc[p].accept THEN forgiven \cup Lost ELSE forgiven
    /\ UNCHANGED <<log, meta, newest, written, acked, faults>>

\* os.replace raises FileNotFoundError: another process renamed the temporary file.
ReplaceFails(p) ==
    /\ pc[p] = "replace"
    /\ tmp.kind = "absent"
    /\ Leave(p)
    /\ UNCHANGED <<log, pin, tmp, meta, newest, written, ghosts, faults>>

----------------------------------------------------------------------------
(* Storage.reconcile_shard *)

\* reconcile_shard reads the pinned hash.
RecoverBegin(p) ==
    /\ pc[p] = "idle"
    /\ QuietRecovery => \A q \in Procs : loc[q].op \in {"none", "verify"}
    /\ loc' = [loc EXCEPT ![p] = [NoLocals EXCEPT !.op = "reconcile", !.prev = pin.last_hash]]
    /\ Goto(p, "tail")
    /\ UNCHANGED <<log, pin, tmp, meta, newest, lock, written, ghosts, faults>>

\* It reads the tail of the last segment and stops when that is what is pinned.
RecoverTail(p) ==
    /\ pc[p] = "tail"
    /\ IF TailHash \in {NoHash, loc[p].prev}
       THEN Leave(p)
       ELSE /\ loc' = [loc EXCEPT ![p].hash = TailHash]
            /\ Goto(p, "count")
            /\ UNCHANGED lock
    /\ UNCHANGED <<log, pin, tmp, meta, newest, written, ghosts, faults>>

\* _count_shard_entries: non-blank lines, unparsable ones included.
RecoverCount(p) ==
    /\ pc[p] = "count"
    /\ loc' = [loc EXCEPT ![p].count = Len(log)]
    /\ Goto(p, "decide")
    /\ UNCHANGED <<log, pin, tmp, meta, newest, lock, written, ghosts, faults>>

\* Fault seed: as many lines as pinned, under another tip, count as a forward divergence.
RecoverDecide_AcceptsEqual(p, allow_truncation) ==
    /\ pc[p] = "decide"
    /\ LET is_non_forward == pin.kind = "json" /\ loc[p].count < pin.entry_count
       IN  IF is_non_forward /\ ~allow_truncation
           THEN Leave(p)
           ELSE /\ loc' = [loc EXCEPT ![p].accept = is_non_forward]
                /\ Goto(p, "open")
                /\ UNCHANGED lock
    /\ UNCHANGED <<log, pin, tmp, meta, newest, written, ghosts, faults>>

\* Fault seed: every divergence rewrites the pin.
RecoverDecide_Launders(p, allow_truncation) ==
    /\ pc[p] = "decide"
    /\ Goto(p, "open")
    /\ UNCHANGED <<log, pin, tmp, meta, newest, lock, loc, written, ghosts, faults>>

\* The divergence is classified against the pinned entry_count.  A non-forward one is
\* refused unless the operator passed allow_truncation.
RecoverDecide(p, allow_truncation) ==
    /\ pc[p] = "decide"
    /\ LET is_non_forward == pin.kind = "json" /\ loc[p].count <= pin.entry_count
       IN  IF is_non_forward /\ ~allow_truncation
           THEN Leave(p)
           ELSE /\ loc' = [loc EXCEPT ![p].accept = is_non_forward]
                /\ Goto(p, "open")
                /\ UNCHANGED lock
    /\ UNCHANGED <<log, pin, tmp, meta, newest, written, ghosts, faults>>

----------------------------------------------------------------------------
(* verify_shard *)

\* It reads every entry first ...
VerifyRead(p) ==
    /\ pc[p] = "idle"
    /\ loc' = [loc EXCEPT ![p] = [NoLocals EXCEPT !.op = "verify",
                                    !.count = Cardinality(Readable), !.hash = LastHash,
                                    !.broken = ChainBroken, !.missing = Lost]]
    /\ Goto(p, "observe")
    /\ UNCHANGED <<log, pin, tmp, meta, newest, lock, written, ghosts, faults>>

\* ... and the pin afterwards; VerdictOf(p) is what it then reports.
VerdictOf(p) == Verdict(loc[p].count, loc[p].hash, loc[p].broken, pin)

VerifyPin(p) ==
    /\ pc[p] = "observe"
    /\ Leave(p)
    /\ UNCHANGED <<log, pin, tmp, meta, newest, written, ghosts, faults>>

----------------------------------------------------------------------------
(* The environment *)

\* A call raises OSError between two of its steps, or its process is killed there.
Fail(p) ==
    /\ pc[p] # "idle"
    /\ fails < MaxFails
    /\ fails' = fails + 1
    /\ Leave(p)
    /\ UNCHANGED <<log, pin, tmp, meta, newest, written, ghosts, torn, truncations>>

\* segment_meta.json is lost or unreadable.
LoseMeta ==
    /\ meta.active # 0
    /\ fails < MaxFails
    /\ fails' = fails + 1
    /\ meta' = [active |-> 0, event_count |-> 0]
    /\ UNCHANGED <<log, pin, tmp, newest, lock, pc, loc, written, ghosts, torn, truncations>>

\* The last lines of the shard disappear outside the program's control.
Truncate ==
    /\ truncations < MaxTruncations
    /\ QuietRecovery => \A q \in Procs : loc[q].op # "reconcile"
    /\ truncations' = truncations + 1
    /\ \E n \in 0 .. Len(log) - 1 : log' = SubSeq(log, 1, n)
    /\ UNCHANGED <<pin, tmp, meta, newest, lock, pc, loc, written, ghosts, fails, torn>>

Step(p) ==
    \/ AppendWrite(p) \/ AppendMeta(p)
    \/ OpenTmp(p) \/ DumpTmp(p) \/ ReplaceTmp(p) \/ ReplaceFails(p)
    \/ RecoverTail(p) \/ RecoverCount(p)
    \/ \E allow_truncation \in BOOLEAN : RecoverDecide(p, allow_truncation)
    \/ VerifyPin(p)

Next ==
    \/ \E p \in Procs :
         \/ AppendBegin(p) \/ RecoverBegin(p) \/ VerifyRead(p)
         \/ Step(p)
         \/ AppendTorn(p) \/ Fail(p)
    \/ LoseMeta
    \/ Truncate

\* A call that has begun keeps running: nothing in it waits for another process.
Spec == Init /\ [][Next]_vars /\ \A p \in Procs : WF_vars(Step(p))

----------------------------------------------------------------------------
(* Properties *)

\* Type correctness of the files and of the processes' local state.
TypeOK ==
    /\ log \in Seq(Line) /\ pin \in PinFile /\ tmp \in PinFile
    /\ meta \in [active : Nat, event_count : Nat] /\ newest \in Nat
    /\ lock \subseteq Procs
    /\ pc \in [Procs -> PCs] /\ loc \in [Procs -> Locals]
    /\ written \in Nat
    /\ committed \subseteq Nat /\ acked \subseteq Nat /\ forgiven \subseteq Nat
    /\ fails \in 0 .. MaxFails /\ torn \in 0 .. MaxTorn
    /\ truncations \in 0 .. MaxTruncations

\* Entries that were ever pinned form one chain, whatever crashed between them: each
\* names the pinned entry before it (prev_hash is read from the pin, not from the file).
CommittedChain ==
    \A i, j \in DOMAIN log :
        /\ i < j /\ log[i].hash \in committed /\ log[j].hash \in committed
        /\ \A k \in DOMAIN log : i < k /\ k < j => log[k].hash \notin committed
        => log[j].prev = log[i].hash

\* verify_shard reports a shard as damaged only if an append failed after its write and
\* a later one was made without reconciling: a pin that lags by one entry is no alarm.
NoFalseAlarm ==
    VerifyShard # "OK" => \E i \in DOMAIN log : i < Len(log) /\ log[i].hash \notin committed

\* A committed entry that can no longer be read is reported, until an operator accepts
\* its loss with allow_truncation: no sequence of failed appends and safe reconciles
\* launders it.
LossReported == Lost # {} => VerifyShard # "OK"

\* The same for a verify_shard that runs beside appends: what was lost before it read
\* the entries is in its verdict, whatever the pin says by then.
VerifyCatchesLoss ==
    \A p \in Procs : pc[p] = "observe" /\ loc[p].missing \ forgiven # {} => VerdictOf(p) # "OK"

\* A loss is visible to a verify_shard, alone or beside appends (storage.py, verify.py).
LossIsVisible == LossReported /\ VerifyCatchesLoss

\* Readers that go through the segments by number see the lines in the order in which
\* they were written, across rotations and lost segment metadata.
WriteOrder == \A i, j \in DOMAIN log : i < j => log[i].seg <= log[j].seg

\* No segment outgrows the rotation limit by more than one line per failure.
SegmentBound ==
    \A s \in 1 .. newest :
        Cardinality({i \in DOMAIN log : log[i].seg = s}) <= MaxEvents + fails + torn

\* The pin is replaced whole, and its entry_count never goes back unless an operator
\* accepted a truncation.
PinNeverRegresses ==
    [][ \/ pin'.kind = "json" /\ pin'.entry_count >= pin.entry_count
        \/ pin' = pin
        \/ \E p \in Procs : loc[p].accept /\ pc[p] = "replace" ]_vars

\* A forward reconcile leaves the pin on the last entry of the shard.
RecoveryPinsTip ==
    [][ \A p \in Procs :
          ReplaceTmp(p) /\ loc[p].op = "reconcile" /\ ~loc[p].accept
          => pin'.last_hash = LastHash ]_vars

\* A shard lock is given back, whether the append succeeds or fails at any step.
LockFreed == \A p \in Procs : p \in lock ~> p \notin lock

----------------------------------------------------------------------------
(* What callers see *)

\* The k-th smallest of the positions S.
Nth(S, k) == CHOOSE i \in S : Cardinality({j \in S : j < i}) = k - 1

\* Refinement mapping: the ledger is the committed lines, in file order.
CommittedPositions == {i \in DOMAIN log : log[i].hash \in committed}

CommittedLines ==
    [k \in 1 .. Cardinality(CommittedPositions) |->
       [hash |-> log[Nth(CommittedPositions, k)].hash,
        prev |-> log[Nth(CommittedPositions, k)].prev]]

Abstract == INSTANCE Ledger WITH Hashes <- 1 .. MaxWrites, chain <- CommittedLines,
                                 returned <- acked

\* However processes interleave, crash and recover, callers see a Ledger: entries are
\* committed one at a time at its end, chained, and are returned only once committed.
ImplementsLedger == Abstract!Spec
============================================================================
