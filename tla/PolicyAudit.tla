---------------------------- MODULE PolicyAudit ----------------------------
(***************************************************************************)
(* The policy audit (src/dsm/audit.py) and its portable reports            *)
(* (src/dsm/policy_adapter.py): a policy written for one of two engines is *)
(* recognised and translated by an adapter, the shards are audited one     *)
(* after the other while agents go on writing, and the results are bound   *)
(* in a report whose hash is checked later.                                *)
(***************************************************************************)
EXTENDS Integers, Sequences, FiniteSets, SequencesExt

CONSTANTS Shards,       \* the shards, in the order list_shards gives them
          Actions,      \* action names
          Sessions,     \* session ids
          Rules,        \* the policies under test, as Policy records
          MaxLog,       \* bound: entries of all shards
          MaxReports    \* bound: reports

VARIABLES
  alog,      \* alog[s]: entries of shard s, oldest first
  audit,     \* the audit_all or generate_audit_report in progress, or NoAudit
  reports    \* AuditReports as they were exported, some altered since

paVars == <<alog, audit, reports>>

ShardSet == Range(Shards)

-----------------------------------------------------------------------------
(* Policies and adapters.  NoList and NoLimit stand for JSON null: the rule *)
(* is absent.                                                              *)

NoList == {"*"}
NoLimit == -1

Engines == {"inkog", "opa"}

\* What an engine's document looks like: InkogAdapter finds its limits under
\* rules.limits, OPAAdapter under rules itself; other keys are not looked at.
Document(engine, p) ==
  [engine |-> engine,
   rules |-> IF engine = "inkog"
             THEN [allow |-> p.allow, deny |-> p.deny, sources |-> p.sources,
                   limits |-> [max |-> p.max, shards |-> p.shards]]
             ELSE [allow_actions |-> p.allow, deny_actions |-> p.deny, allow_sources |-> p.sources,
                   max_actions |-> p.max, allow_shards |-> p.shards]]

Get(rec, key, default) == IF key \in DOMAIN rec THEN rec[key] ELSE default

\* InkogAdapter.load.
LoadInkog(doc) ==
  LET limits == Get(doc.rules, "limits", <<>>)
  IN [allow |-> Get(doc.rules, "allow", NoList), deny |-> Get(doc.rules, "deny", {}),
      sources |-> Get(doc.rules, "sources", NoList),
      max |-> Get(limits, "max", NoLimit), shards |-> Get(limits, "shards", NoList)]

\* OPAAdapter.load.
LoadOPA(doc) ==
  [allow |-> Get(doc.rules, "allow_actions", NoList), deny |-> Get(doc.rules, "deny_actions", {}),
   sources |-> Get(doc.rules, "allow_sources", NoList),
   max |-> Get(doc.rules, "max_actions", NoLimit), shards |-> Get(doc.rules, "allow_shards", NoList)]

\* auto_detect_adapter: the first registered adapter whose engine it is.
AutoDetect(doc) == Engines \cap {doc.engine}

Load(name, doc) == IF name = "inkog" THEN LoadInkog(doc) ELSE LoadOPA(doc)

-----------------------------------------------------------------------------
(* The audit of one shard.                                                 *)

Intents(es) == {i \in DOMAIN es : es[i].kind = "action_intent" /\ es[i].action # ""}

\* audit_shard's checks of one entry.  A forbidden action is reported once,
\* under forbidden_actions; a session's source is checked where it starts.
Broken(p, s, e) ==
  (IF p.shards # NoList /\ s \notin p.shards THEN {"allowed_shards"} ELSE {})
  \cup (IF e.kind = "session_start" /\ p.sources # NoList /\ e.source \notin p.sources
        THEN {"allowed_sources"} ELSE {})
  \cup (IF ~(e.kind = "action_intent" /\ e.action # "") THEN {}
        ELSE IF e.action \in p.deny THEN {"forbidden_actions"}
        ELSE IF p.allow # NoList /\ e.action \notin p.allow THEN {"allowed_actions"} ELSE {})

\* The sessions over their limit, counted within this shard only.
OverLimit(p, es) ==
  IF p.max = NoLimit THEN {}
  ELSE {n \in Sessions : Cardinality({i \in Intents(es) : es[i].session = n}) > p.max}

\* The violations of single entries: which entry, which rule.
Violations(p, s, es) ==
  {v \in (DOMAIN es) \X {"allowed_shards", "allowed_sources", "forbidden_actions", "allowed_actions"} :
     v[2] \in Broken(p, s, es[v[1]])}

\* audit_shard.
AuditShard(p, s, es) ==
  [shard |-> s, total |-> Len(es), checked |-> Cardinality(Intents(es)),
   violations |-> Violations(p, s, es), sessions |-> OverLimit(p, es),
   count |-> Cardinality(Violations(p, s, es)) + Cardinality(OverLimit(p, es))]

-----------------------------------------------------------------------------
(* Steps.                                                                  *)

NoAudit == [policy |-> {}]

Size == FoldSet(LAMBDA s, n : n + Len(alog[s]), 0, ShardSet)

\* Sessions and agents write: SessionGraph writes session_start and
\* action_intent entries, DarylAgent._add_entry tool_call entries.
Write(s, e) ==
  /\ Size < MaxLog
  /\ alog' = [alog EXCEPT ![s] = Append(@, e)]
  /\ UNCHANGED <<audit, reports>>

\* load_and_audit: the adapter is the one named, or the one detected; the
\* document's engine must be the adapter's.
StartAudit(doc, named, shards) ==
  /\ audit = NoAudit
  /\ Cardinality(reports) < MaxReports
  /\ \E name \in IF named = {} THEN AutoDetect(doc) ELSE named :
       /\ name = doc.engine
       /\ audit' = [policy |-> {Load(name, doc)}, engine |-> name, todo |-> shards, results |-> <<>>]
  /\ UNCHANGED <<alog, reports>>

\* audit_all and generate_audit_report audit the shards one by one; each is
\* read when its turn comes.
AuditNext ==
  /\ audit # NoAudit
  /\ audit.todo # <<>>
  /\ \E p \in audit.policy :
       LET s == Head(audit.todo)
       IN audit' = [audit EXCEPT !.todo = Tail(@), !.results = Append(@, AuditShard(p, s, alog[s]))]
  /\ UNCHANGED <<alog, reports>>

\* The report binds its engine and its results in report_hash.
ReportHash(engine, results) == <<engine, results>>

Report ==
  /\ audit # NoAudit
  /\ audit.todo = <<>>
  /\ reports' = reports \cup
       {[engine |-> audit.engine, policy |-> audit.policy, results |-> audit.results,
         hash |-> ReportHash(audit.engine, audit.results)]}
  /\ audit' = NoAudit
  /\ UNCHANGED alog

\* An exported report is changed in its file: a result loses its violations.
AlterReport(r, i) ==
  /\ r.results[i].count > 0
  /\ reports' = (reports \ {r}) \cup
       {[r EXCEPT !.results[i] = [@ EXCEPT !.violations = {}, !.sessions = {}, !.count = 0]]}
  /\ UNCHANGED <<alog, audit>>

\* verify_report.
VerifyReport(r) == IF r.hash = ReportHash(r.engine, r.results) THEN "INTACT" ELSE "TAMPERED"

\* AuditReport.summary; the sum of the counts is 0 when each of them is.
Summary(r) ==
  [shards |-> Len(r.results), total |-> FoldLeft(LAMBDA n, x : n + x.total, 0, r.results),
   status |-> IF \A i \in DOMAIN r.results : r.results[i].count = 0
              THEN "COMPLIANT" ELSE "VIOLATIONS_FOUND"]

-----------------------------------------------------------------------------
Entry ==
  [kind: {"session_start"}, action: {""}, session: Sessions, source: {"known", "other"}]
  \cup [kind: {"action_intent", "tool_call"}, action: Actions, session: Sessions, source: {"known"}]

PaInit == alog = [s \in ShardSet |-> <<>>] /\ audit = NoAudit /\ reports = {}

PaNext ==
  \/ \E s \in ShardSet, e \in Entry : Write(s, e)
  \/ \E g \in Engines, p \in Rules, named \in {{}} \cup {{n} : n \in Engines},
        shards \in {Shards} \cup {<<s>> : s \in ShardSet} : StartAudit(Document(g, p), named, shards)
  \/ AuditNext
  \/ Report
  \/ \E r \in reports : \E i \in DOMAIN r.results : AlterReport(r, i)

PaSpec == PaInit /\ [][PaNext]_paVars

-----------------------------------------------------------------------------
(* Types of the state.                                                     *)
PaTypeOK ==
  /\ \A s \in ShardSet : \A i \in DOMAIN alog[s] : alog[s][i] \in Entry
  /\ \A r \in reports : r.engine \in Engines /\ Summary(r).shards \in 1..Len(Shards)

\* An entry that breaks the policy, said without the audit's bookkeeping.
Breaks(p, s, e) ==
  \/ p.shards # NoList /\ s \notin p.shards
  \/ e.kind = "session_start" /\ p.sources # NoList /\ e.source \notin p.sources
  \/ e.kind = "action_intent" /\ (e.action \in p.deny \/ (p.allow # NoList /\ e.action \notin p.allow))

(* A report that verify_report finds intact and whose summary says         *)
(* COMPLIANT is right about the part of each audited shard that was read:  *)
(* no entry of it breaks the policy the document states, in whichever      *)
(* engine's words, and no session in it exceeds its limit, although the    *)
(* shards were read at different moments and the file may have been        *)
(* altered.                                                                *)
CompliantIsTrue ==
  \A r \in reports :
    (VerifyReport(r) = "INTACT" /\ Summary(r).status = "COMPLIANT") =>
      \A p \in r.policy, k \in DOMAIN r.results :
        LET s == r.results[k].shard
            read == SubSeq(alog[s], 1, r.results[k].total)
        IN /\ p \in Rules
           /\ \A i \in DOMAIN read : ~Breaks(p, s, read[i])
           /\ p.max # NoLimit =>
                \A n \in Sessions :
                  Cardinality({i \in DOMAIN read : read[i].kind = "action_intent" /\ read[i].session = n}) <= p.max

(* "Verifies that every action recorded in a shard was authorized by a     *)
(* policy" (src/dsm/audit.py:4): no entry with an action name that the     *)
(* policy forbids is in the part of a shard a compliant report covers.     *)
(* The actions DarylAgent.dispatch_task records are tool_call entries,     *)
(* which the audit does not look at.                                       *)
EveryActionAudited ==
  \A r \in reports :
    (VerifyReport(r) = "INTACT" /\ Summary(r).status = "COMPLIANT") =>
      \A p \in r.policy, k \in DOMAIN r.results :
        \A i \in 1..r.results[k].total : alog[r.results[k].shard][i].action \notin p.deny
=============================================================================
