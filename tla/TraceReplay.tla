----------------------------- MODULE TraceReplay -----------------------------
(***************************************************************************)
(* The action trace and its audit.  TraceWriter (core/tracing.py) appends  *)
(* records to one file and chains them through a hash it keeps in memory   *)
(* only; replay_session (core/replay.py) reads the file back, keeps the    *)
(* lines of one session and checks their hashes and their chain.           *)
(*                                                                         *)
(* A record's step hash is its number in the order of creation: two        *)
(* records never share one.  Of a record's content the model keeps what    *)
(* the two modules treat differently: "plain", "accented" (characters      *)
(* beyond ASCII: the writer hashes them as they are, the replay hashes     *)
(* their escapes) and "untyped" (an empty action_type).                    *)
(***************************************************************************)
EXTENDS Integers, FiniteSets, SequencesExt

CONSTANTS Writers,     \* TraceWriter objects
          TSessions,   \* session ids
          Contents,    \* subset of {"plain", "accented", "untyped"}
          MaxWrites,   \* bound on records created
          MaxRestarts, \* bound on writers created anew
          MaxDamage    \* bound on failed writes and lines edited or removed later

VARIABLES tfile,    \* lines of trace_log.jsonl
          last,     \* writer -> last_step_hash, 0 for None
          life,     \* writer -> how many TraceWriter objects it has been
          created,  \* history: [life, session, content] of every record created
          damage    \* failed writes, and lines edited or removed so far

trVars == <<tfile, last, life, created, damage>>

None == 0
Torn == [torn |-> TRUE, id |-> 0, prev |-> None, edited |-> FALSE]

TrTypeOK ==
  /\ tfile \in Seq([torn: BOOLEAN, id: 0..MaxWrites, prev: 0..MaxWrites, edited: BOOLEAN])
  /\ last \in [Writers -> 0..MaxWrites]
  /\ life \in [Writers -> 0..MaxRestarts]
  /\ Len(created) <= MaxWrites
  /\ damage \in 0..MaxDamage

TrInit ==
  /\ tfile = <<>>
  /\ last = [w \in Writers |-> None]
  /\ life = [w \in Writers |-> 0]
  /\ created = <<>>
  /\ damage = 0

(***************************************************************************)
(* The writer.                                                             *)
(***************************************************************************)

\* _create_record_dict: the record points at the writer's last hash, and the
\* writer remembers the new one before anything is written.
CreateRecord(w, s, c) ==
  /\ Len(created) < MaxWrites
  /\ created' = Append(created, [by |-> <<w, life[w]>>, session |-> s, content |-> c])
  /\ last' = [last EXCEPT ![w] = Len(created')]
  /\ UNCHANGED life

Appended(line) ==
  IF tfile # <<>> /\ Last(tfile).torn THEN tfile ELSE Append(tfile, line)

\* write, trace_action: one line appended.  After a torn line that has no end
\* of line the new text joins it, and neither can be parsed.
TraceAction(w, s, c) ==
  /\ CreateRecord(w, s, c)
  /\ tfile' = Appended([torn |-> FALSE, id |-> Len(created'), prev |-> last[w], edited |-> FALSE])
  /\ UNCHANGED damage

\* write when the file cannot be opened or the line is only partly written.
WriteFails(w, s, c) ==
  /\ CreateRecord(w, s, c)
  /\ tfile' \in {tfile, Appended(Torn)}
  /\ damage < MaxDamage /\ damage' = damage + 1

\* A new TraceWriter: the chain starts again from None.
NewWriter(w) ==
  /\ life[w] < MaxRestarts
  /\ life' = [life EXCEPT ![w] = @ + 1]
  /\ last' = [last EXCEPT ![w] = None]
  /\ UNCHANGED <<tfile, created, damage>>

\* Later changes of the file, which the audit is for.
EditLine(i) ==
  /\ damage < MaxDamage
  /\ ~tfile[i].torn
  /\ tfile' = [tfile EXCEPT ![i].edited = TRUE]
  /\ damage' = damage + 1
  /\ UNCHANGED <<last, life, created>>

DropLine(i) ==
  /\ damage < MaxDamage
  /\ tfile' = RemoveAt(tfile, i)
  /\ damage' = damage + 1
  /\ UNCHANGED <<last, life, created>>

TrNext ==
  \/ \E w \in Writers, s \in TSessions, c \in Contents :
        TraceAction(w, s, c) \/ WriteFails(w, s, c)
  \/ \E w \in Writers : NewWriter(w)
  \/ \E i \in 1..Len(tfile) : EditLine(i) \/ DropLine(i)

TrSpec == TrInit /\ [][TrNext]_trVars

(***************************************************************************)
(* The audit.                                                              *)
(***************************************************************************)

\* parse_trace_line and the filter of replay_session.
InSession(line, s) == ~line.torn /\ created[line.id].session = s

HashAgrees(line) == ~line.edited /\ created[line.id].content # "accented"

\* Fault seed: a hash mismatch is never a refusal.
VerifyRecord_Lenient(line, strict) == HashAgrees(line) => created[line.id].content # "untyped"

\* verify_record: only the strict mode turns a hash mismatch into a refusal,
\* and a mismatch in the other mode returns before the fields are looked at.
VerifyRecord(line, strict) ==
  IF HashAgrees(line) THEN created[line.id].content # "untyped" ELSE ~strict

Kept(s, strict) == SelectSeq(tfile, LAMBDA l : InSession(l, s) /\ VerifyRecord(l, strict))

\* limit = 0 stands for None, which "if limit" does not tell apart either.
Limited(recs, limit) == IF limit > 0 /\ Len(recs) > limit THEN SubSeq(recs, 1, limit) ELSE recs

\* verify_chain: the positions that get an error.
VerifyChain(recs) ==
  {i \in 1..Len(recs) : recs[i].prev # (IF i = 1 THEN None ELSE recs[i - 1].id)}

CorruptCount(s, strict) ==
  Len(SelectSeq(tfile, LAMBDA l : l.torn \/ (strict /\ InSession(l, s) /\ ~VerifyRecord(l, strict))))

\* replay_session: torn lines count against every session.
ReplaySession(s, strict, limit) ==
  LET recs   == Limited(Kept(s, strict), limit)
      broken == VerifyChain(recs)
  IN [total    |-> Len(recs),
      verified |-> Len(recs) - Cardinality(broken),
      status   |-> IF CorruptCount(s, strict) > 0 THEN "CORRUPT"
                   ELSE IF broken # {} THEN "DIVERGENCE" ELSE "OK"]

(***************************************************************************)
(* Properties.                                                             *)
(***************************************************************************)

IdsOf(lines) == [i \in 1..Len(lines) |-> lines[i].id]
CreatedBy(l) == SelectSeq([i \in 1..Len(created) |-> i], LAMBDA i : created[i].by = l)
LinesOf(s)   == SelectSeq(tfile, LAMBDA l : InSession(l, s))
Lives        == {created[i].by : i \in 1..Len(created)}

\* A strict replay that says OK can be believed: the session's lines are the
\* first records one writer object created, none missing between them, none
\* edited (replay_session, core/replay.py).  What it cannot tell is how many
\* records followed.
StrictOkIsAuthentic ==
  \A s \in TSessions :
    (ReplaySession(s, TRUE, 0).status = "OK" /\ LinesOf(s) # <<>>) =>
      /\ \A i \in 1..Len(LinesOf(s)) : ~LinesOf(s)[i].edited
      /\ \E l \in Lives : IsPrefix(IdsOf(LinesOf(s)), CreatedBy(l))

\* A session that has a writer object to itself and whose records are plain
\* and all in the file replays OK in both modes, with every record verified,
\* whatever happened to the lines of other sessions short of tearing them.
OwnWriterReplaysOk ==
  \A s \in TSessions, l \in Lives :
    ( /\ \A i \in 1..Len(created) :
            (created[i].by = l) <=> (created[i].session = s)
      /\ \A i \in 1..Len(created) : created[i].by = l => created[i].content = "plain"
      /\ IdsOf(LinesOf(s)) = CreatedBy(l)
      /\ \A i \in 1..Len(tfile) : ~tfile[i].torn /\ (InSession(tfile[i], s) => ~tfile[i].edited) )
    => \A strict \in BOOLEAN : ReplaySession(s, strict, 0) =
          [total |-> Len(CreatedBy(l)), verified |-> Len(CreatedBy(l)), status |-> "OK"]

\* docs/DSM_FULL_SYSTEM_AUDIT.md reads the replay as the audit of one session
\* of the trace; an undamaged trace whose records are all in the file should
\* then replay OK.
HonestTraceReplaysOk ==
  (damage = 0 /\ Len(tfile) = Len(created) /\ \A i \in 1..Len(tfile) : ~tfile[i].torn)
  => \A s \in TSessions : ReplaySession(s, FALSE, 0).status = "OK"

=============================================================================
