---- MODULE HexaContext ----
(***************************************************************************)
(* A HexaShard project: the bounded active state, the ladder that compacts *)
(* it, epoch rotation, the turn the adapter wraps around them, and the     *)
(* files all of it is saved to (src/src/hexashard/context.py, project.py,  *)
(* src/src/hexashard_adapter/adapter.py and __main__.py).                  *)
(*                                                                         *)
(* Texts are abstract: a hex, a question, a pin, a decision is its address *)
(* and the running summary the sequence of parts appended to it.  A token  *)
(* count is the number of addresses and parts held, two for an entry whose *)
(* text can still be shortened.                                            *)
(***************************************************************************)
EXTENDS Integers, Sequences, FiniteSets, SequencesExt

CONSTANTS Hexes, Questions, Pins, Critical, Decisions,
          Budget, RotateAt, ModelBudget, HeadParts, KeepHints, MaxHandoffRefs,
          SharedUse, Crashes,
          MaxTurns, MaxParts, MaxCommands

VARIABLES disk,      \* the project directory
          session,   \* the long-lived adapter or project object, or NoSession
          seen,      \* addresses that were loaded in a state saved to disk
          opened,    \* questions opened and not resolved
          said,      \* summary parts of finished turns
          turns, commands

hexaVars == <<disk, session, seen, opened, said, turns, commands>>

Least(n, P(_)) ==
  CHOOSE k \in 0..n : (P(k) \/ k = n) /\ \A j \in 0..(k - 1) : ~P(j)

DropHead(s, k) == SubSeq(s, k + 1, Len(s))
Without(s, x) == SelectSeq(s, LAMBDA y : y # x)
Newest(s, k) == SubSeq(s, IF Len(s) > k THEN Len(s) - k + 1 ELSE 1, Len(s))

\* ActiveState: what crosses a restart in active_state.json.
FreshState ==
  [epoch |-> 1, turn |-> 0, parts |-> <<>>, hints |-> <<>>, refs |-> <<>>,
   decs |-> <<>>, qs |-> [q \in Questions |-> "absent"], pins |-> {},
   dropped |-> {}, ledger |-> FALSE, sumHex |-> 0]

QuestionCost == [absent |-> 0, long |-> 2, short |-> 1, resolved |-> 2]
CostOf(S, cost(_)) ==
  Cardinality({<<x, i>> \in S \X (1..2) : i <= cost(x)})

Tokens(s) ==
  Len(s.hints) + Len(s.refs) + Len(s.parts) + Cardinality(s.pins)
  + Cardinality(s.dropped) + (IF s.ledger THEN 1 ELSE 0)
  + Cardinality({<<i, j>> \in (DOMAIN s.decs) \X (1..2) : j = 1 \/ s.decs[i].title})
  + CostOf(Questions, LAMBDA q : QuestionCost[s.qs[q]])

Fits(s) == Tokens(s) <= Budget

Unresolved(s) == {q \in Questions : s.qs[q] \in {"long", "short"}}

Drop(s, kind, refs) ==
  [s EXCEPT !.dropped = @ \cup {<<kind, r>> : r \in refs}]

---------------------------------------------------------------------------
\* The rungs of enforce_budget, in the order the ladder climbs them.
TrimHints(s) ==
  LET cut(k) == [s EXCEPT !.hints = DropHead(@, k)]
  IN cut(Least(Len(s.hints), LAMBDA k : Fits(cut(k))))

UnloadRefs(s) ==
  LET cut(k) == Drop([s EXCEPT !.refs = DropHead(@, k)], "hex", ToSet(SubSeq(s.refs, 1, k)))
  IN cut(Least(Len(s.refs), LAMBDA k : Fits(cut(k))))

UnloadDecisions(s) ==
  LET bare == IF Fits(s) THEN s
              ELSE [s EXCEPT !.decs = [i \in DOMAIN @ |-> [@[i] EXCEPT !.title = FALSE]]]
      cut(k) == Drop([bare EXCEPT !.decs = DropHead(@, k)], "decision",
                     {bare.decs[i].addr : i \in 1..k} \ {"none"})
  IN cut(Least(Len(bare.decs), LAMBDA k : Fits(cut(k))))

CutSummary(s, pointer) ==
  LET head == IF ~Fits(s) /\ Len(s.parts) > HeadParts /\ pointer # 0
              THEN Drop([s EXCEPT !.parts = SubSeq(@, 1, HeadParts)], "summary", {pointer})
              ELSE s
  IN IF ~Fits(head) /\ head.parts # <<>> /\ pointer # 0
     THEN Drop([head EXCEPT !.parts = <<>>], "summary", {pointer}) ELSE head

UnloadResolved(s) ==
  LET done == {q \in Questions : s.qs[q] = "resolved"}
  IN IF Fits(s) THEN s
     ELSE Drop([s EXCEPT !.qs = [q \in Questions |-> IF q \in done THEN "absent" ELSE @[q]]],
               "question", done)

UnloadPins(s) ==
  IF Fits(s) THEN s
  ELSE Drop([s EXCEPT !.pins = @ \cap Critical], "pin", s.pins \ Critical)

ShortenQuestions(s) ==
  IF Fits(s) THEN s
  ELSE [s EXCEPT !.qs = [q \in Questions |-> IF @[q] = "long" THEN "short" ELSE @[q]]]

Unloaded(s, rung, pointer) ==
  CASE rung = "hints"     -> TrimHints(s)
    [] rung = "refs"      -> UnloadRefs(s)
    [] rung = "decisions" -> UnloadDecisions(s)
    [] rung = "summary"   -> CutSummary(s, pointer)
    [] rung = "resolved"  -> UnloadResolved(s)
    [] rung = "pins"      -> UnloadPins(s)
    [] rung = "questions" -> ShortenQuestions(s)

\* Fault seed: the ledger file is written over, not added to.
Spilled_ReplacesLedger(r) ==
  IF Fits(r.st) \/ r.st.dropped = {} THEN r
  ELSE [st |-> [r.st EXCEPT !.dropped = {}, !.ledger = TRUE], file |-> r.st.dropped]

\* spill_ledger: the dropped addresses move to unloaded_refs.json.
Spilled(r) ==
  IF Fits(r.st) \/ r.st.dropped = {} THEN r
  ELSE [st |-> [r.st EXCEPT !.dropped = {}, !.ledger = TRUE], file |-> r.file \cup r.st.dropped]

Ladder == <<"hints", "refs", "decisions", "summary", "resolved", "pins", "questions", "spill">>

\* enforce_budget: the compacted state and the ledger file it leaves; a state
\* the ladder made no smaller is kept.
EnforceBudget(s, pointer, ledgerFile) ==
  LET climb(r, rung) == IF rung = "spill" THEN Spilled(r)
                        ELSE [r EXCEPT !.st = Unloaded(@, rung, pointer)]
  IN IF Fits(s) THEN [st |-> s, file |-> ledgerFile]
     ELSE [FoldLeft(climb, [st |-> s, file |-> ledgerFile], Ladder)
             EXCEPT !.st = IF Tokens(@) > Tokens(s) THEN s ELSE @]

---------------------------------------------------------------------------
\* summary_pointer: upsert the epoch's SUMMARY hex with the running summary.
SummaryPointer(s, sums) ==
  IF s.parts = <<>> THEN [st |-> s, sums |-> sums]
  ELSE IF s.sumHex \in DOMAIN sums
       THEN [st |-> s, sums |-> [sums EXCEPT ![s.sumHex] = s.parts]]
       ELSE [st |-> [s EXCEPT !.sumHex = Len(sums) + 1], sums |-> Append(sums, s.parts)]

\* sync_pins: the live pins of the store, critical ones first.
SyncPins(s, pins) == [s EXCEPT !.pins = pins]

\* build_handoff and state_from_handoff: what crosses an epoch boundary.
BuildHandoff(s) ==
  [FreshState EXCEPT
     !.epoch = s.epoch + 1,
     !.hints = (IF s.sumHex # 0 THEN <<<<"summary", s.sumHex>>>> ELSE <<>>)
               \o Newest(s.hints, KeepHints),
     !.refs = Newest(s.refs, MaxHandoffRefs),
     !.decs = [i \in DOMAIN s.decs |-> [s.decs[i] EXCEPT !.title = FALSE]],
     !.qs = [q \in Questions |-> IF q \in Unresolved(s) THEN s.qs[q] ELSE "absent"],
     !.pins = s.pins \cap Critical,
     !.dropped = {<<"pin", p>> : p \in s.pins \ Critical},
     !.ledger = s.ledger]

TrimHandoff(h, ceiling) ==
  LET r(k) == [h EXCEPT !.refs = DropHead(@, k)]
      noRefs == r(Least(Len(h.refs), LAMBDA k : Tokens(r(k)) < ceiling))
      d(k) == [noRefs EXCEPT !.decs = DropHead(@, k)]
  IN d(Least(Len(h.decs), LAMBDA k : Tokens(d(k)) < ceiling))

ProposedHandoff(s) == TrimHandoff(BuildHandoff(s), Tokens(s))
RotationWouldHelp(s) == Tokens(ProposedHandoff(s)) < RotateAt

---------------------------------------------------------------------------
\* One call of handle_turn.  The result is the project object afterwards and
\* the successive contents of the directory: each file is replaced
\* atomically, in the order rotate_epoch, spill_ledger and save write them.
Touch(s, refs) == [s EXCEPT !.refs = SelectSeq(@, LAMBDA x : x \notin refs)
                                     \o (IF refs = {} THEN <<>> ELSE <<CHOOSE x \in refs : TRUE>>)]

\* Project.save: the map and the pins first, the state that names them last.
Stored(d, s, p) == <<[d EXCEPT !.sums = p.sums, !.pins = p.pins],
                     [d EXCEPT !.sums = p.sums, !.pins = p.pins, !.st = s]>>

RotationDue(s) == Tokens(s) >= RotateAt
Pointed(w) == LET a == SummaryPointer(w.st, w.sums) IN [w EXCEPT !.st = a.st, !.sums = a.sums]
Written(w, ds) == [w EXCEPT !.writes = @ \o ds, !.disk = ds[Len(ds)]]
RotateEpoch(w) ==
  \* the checkpoint of the closing epoch, then the state it hands over
  LET d == [w.disk EXCEPT !.epochs = @ \cup {w.st}]
      s == ProposedHandoff(w.st)
  IN Written([w EXCEPT !.st = s], <<d>> \o Stored(d, s, w))

Compacted(w) ==
  LET fit == EnforceBudget(w.st, w.st.sumHex, w.disk.ledger)
  IN [w EXCEPT !.st = fit.st, !.disk.ledger = fit.file]

TurnPhases == <<"due", "rotate", "point", "compact", "save">>
TurnPhase(w, phase) ==
  CASE phase = "due"     -> IF RotationDue(w.st) THEN Pointed(w) ELSE w
    [] phase = "rotate"  -> IF RotationDue(w.st) /\ RotationWouldHelp(w.st) THEN RotateEpoch(w) ELSE w
    [] phase = "point"   -> Pointed(w)
    [] phase = "compact" -> Compacted(w)
    [] phase = "save"    -> Written(w, <<w.disk>> \o Stored(w.disk, w.st, w))

HandleTurn(p, d, touched, msg, new) ==
  LET s == [Touch([p.st EXCEPT !.turn = @ + 1, !.parts = @ \o new], touched)
              EXCEPT !.hints = Append(Without(@, msg), msg)]
      w == FoldLeft(TurnPhase, [st |-> SyncPins(s, p.pins), sums |-> p.sums, pins |-> p.pins,
                                disk |-> d, writes |-> <<d>>], TurnPhases)
  IN [project |-> [p EXCEPT !.st = w.st, !.sums = w.sums], writes |-> w.writes]

\* _TurnSnapshot.restore: the state file, then the map, then new epoch files.
Restore(snap, d) ==
  <<d, [d EXCEPT !.st = snap.st],
    [d EXCEPT !.st = snap.st, !.sums = snap.sums, !.pins = snap.pins],
    [d EXCEPT !.st = snap.st, !.sums = snap.sums, !.pins = snap.pins,
              !.epochs = {c \in @ : \E e \in snap.epochs : e.epoch = c.epoch}]>>

---------------------------------------------------------------------------
\* Addresses a state has loaded or remembers.
Loaded(s) == {<<"hex", h>> : h \in ToSet(s.refs)}
             \cup {<<"decision", s.decs[i].addr>> : i \in {j \in DOMAIN s.decs : s.decs[j].addr # "none"}}
             \cup {<<"question", q>> : q \in {x \in Questions : s.qs[x] # "absent"}}

Known(s) == Loaded(s) \cup s.dropped

\* assemble: the sections of the prompt are dropped in order, the retrieved
\* fragments last; what is left is protected, and refused when it is too much.
Assembles(s) == 1 + Cardinality(s.pins \cap Critical) <= ModelBudget

NoSession == [mode |-> "none"]
Open(mode) == [mode |-> mode, st |-> disk.st, sums |-> disk.sums, pins |-> disk.pins]

HexaInit ==
  /\ disk = [st |-> FreshState, sums |-> <<>>, pins |-> {}, epochs |-> {}, ledger |-> {}]
  /\ session = NoSession
  /\ seen = {} /\ opened = {} /\ said = {}
  /\ turns = 0 /\ commands = 0

\* A crash leaves the directory as one of the writes had it and no object.
After(writes, ok) ==
  /\ \/ ok /\ disk' = writes[Len(writes)]
     \/ Crashes /\ ~ok /\ \E k \in 1..Len(writes) : disk' = writes[k]
  /\ seen' = seen \cup Loaded(disk'.st)

OpenSession(mode) ==
  /\ session = NoSession
  /\ session' = Open(mode)
  /\ UNCHANGED <<disk, seen, opened, said, turns, commands>>

\* Project.close, also from an adapter opened READ_ONLY.
CloseSession ==
  /\ session # NoSession
  /\ \E ok \in {TRUE, FALSE} : After(<<disk>> \o Stored(disk, session.st, session), ok)
  /\ session' = NoSession
  /\ UNCHANGED <<opened, said, turns, commands>>

\* handle_turn called by the project's owner, with a part for the summary.
ProjectTurn(touched, msg) ==
  /\ session.mode = "NORMAL" /\ turns < MaxTurns /\ Cardinality(said) < MaxParts
  /\ \E ok \in {TRUE, FALSE} :
       LET part == Cardinality(said) + 1 IN
       \E t \in {HandleTurn(session, disk, touched, msg, <<part>>)} :
          /\ After(t.writes, ok)
          /\ session' = IF ok THEN t.project ELSE NoSession
          /\ said' = IF ok THEN said \cup {part} ELSE said
  /\ turns' = turns + 1
  /\ UNCHANGED <<opened, commands>>

\* HexaShardAdapter.chat in NORMAL mode: the turn, then the provider's answer
\* or a failure (no answer, or a context over the limit), which is undone.
Chat(touched, msg, answered) ==
  /\ session.mode = "NORMAL" /\ turns < MaxTurns
  /\ \E ok \in {TRUE, FALSE} :
       \E t \in {HandleTurn(session, disk, touched, msg, <<>>)} :
       LET d == t.writes[Len(t.writes)]
           w == IF answered THEN t.writes \o Stored(d, t.project.st, t.project)
                ELSE t.writes \o Restore(disk, d)
       IN /\ answered => Assembles(t.project.st)
          /\ After(w, ok)
          /\ session' = IF ~ok THEN NoSession
                        ELSE IF answered THEN t.project
                        ELSE [mode |-> "NORMAL", st |-> disk'.st, sums |-> disk'.sums,
                              pins |-> disk'.pins]
  /\ turns' = turns + 1
  /\ UNCHANGED <<opened, said, commands>>

\* A command of the command line: opens the project, changes it, saves it.
Command(s, pins) ==
  /\ SharedUse \/ session = NoSession
  /\ commands < MaxCommands /\ commands' = commands + 1
  /\ \E ok \in {TRUE, FALSE} :
       After(<<disk>> \o Stored(disk, s, [sums |-> disk.sums, pins |-> pins]), ok)
  /\ UNCHANGED <<session, said, turns>>

CmdQuestionAdd(q) ==
  /\ disk.st.qs[q] = "absent"
  /\ Command([disk.st EXCEPT !.qs[q] = "long"], disk.pins)
  /\ opened' = IF disk'.st.qs[q] = "long" THEN opened \cup {q} ELSE opened

CmdQuestionResolve(q) ==
  /\ disk.st.qs[q] # "absent"
  /\ Command([disk.st EXCEPT !.qs[q] = "resolved"], disk.pins)
  /\ opened' = IF disk'.st.qs[q] = "resolved" THEN opened \ {q} ELSE opened

CmdDecision(a) ==
  /\ Command([disk.st EXCEPT !.decs = Append(@, [addr |-> a, title |-> TRUE])], disk.pins)
  /\ UNCHANGED opened

CmdPin(p) ==
  /\ p \notin disk.pins
  /\ Command(SyncPins(disk.st, disk.pins \cup {p}), disk.pins \cup {p})
  /\ UNCHANGED opened

Touched == {{}} \cup {{h} : h \in Hexes}
HexaNext ==
  \/ \E m \in {"NORMAL", "READ_ONLY"} : OpenSession(m)
  \/ CloseSession
  \/ \E t \in Touched, msg \in {<<"message", 1>>} :
       \/ ProjectTurn(t, msg)
       \/ \E a \in {TRUE, FALSE} : Chat(t, msg, a)
  \/ \E q \in Questions : CmdQuestionAdd(q) \/ CmdQuestionResolve(q)
  \/ \E a \in Decisions \cup {"none"} : CmdDecision(a)
  \/ \E p \in Pins : CmdPin(p)

HexaSpec == HexaInit /\ [][HexaNext]_hexaVars

---------------------------------------------------------------------------
TypeOK ==
  /\ disk.st.epoch \in 1..(MaxTurns + 1) /\ disk.st.turn \in 0..MaxTurns
  /\ disk.st.qs \in [Questions -> {"absent", "long", "short", "resolved"}]
  /\ disk.st.pins \subseteq Pins /\ disk.pins \subseteq Pins
  /\ disk.st.sumHex \in 0..MaxTurns
  /\ session.mode \in {"none", "NORMAL", "READ_ONLY"}

\* "Nothing becomes unreachable, only unloaded" (context.py): every address
\* that was ever part of a saved state is still in the saved state, in its
\* dropped_refs, in the ledger file or in the checkpoint of an earlier epoch,
\* whatever was compacted, rotated, rolled back or interrupted.
NothingUnreachable ==
  seen \subseteq (Known(disk.st) \cup disk.ledger \cup UNION {Known(c) : c \in disk.epochs})

\* An unresolved question survives every compaction, rotation and failed turn.
OpenQuestionsKept == \A q \in opened : q \in Unresolved(disk.st)

\* A saved state never names a summary hex that the saved map lacks: the map
\* is written before the state, and put back after it.
SummaryHexExists == disk.st.sumHex \in 0..Len(disk.sums)

\* "Compaction may truncate or unload the summary from the working set; it may
\* not destroy it" (project.py).
SummaryKept ==
  \A part \in said :
    \/ part \in ToSet(disk.st.parts) \/ (session # NoSession /\ part \in ToSet(session.st.parts))
    \/ \E i \in DOMAIN disk.sums : part \in ToSet(disk.sums[i])
    \/ \E c \in disk.epochs : part \in ToSet(c.parts)

\* "READ_ONLY answers without changing the project" (__main__.py).
ReadOnlyChangesNothing == [][session.mode = "READ_ONLY" => (disk' = disk \/ session' = session)]_hexaVars
====
