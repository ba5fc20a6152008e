-------------------------- MODULE SecurityBaseline --------------------------
(***************************************************************************)
(* The security layer (src/dsm/core/security.py, security_listener.py):    *)
(* the baseline of hashes of the critical files and the gate before it is  *)
(* updated, the single-use token that lets a protected file be written,    *)
(* the audit log of these, and the limits on requests per cycle.           *)
(*                                                                         *)
(* Several processes hold a SecurityLayer on one workspace.  Loading and   *)
(* saving the integrity file are separate steps, and so are looking at the *)
(* token and removing it.  A file's content is a version number, 0 when    *)
(* the file does not exist.                                                *)
(***************************************************************************)
EXTENDS Integers, Sequences, FiniteSets

CONSTANTS Layers,       \* processes with a SecurityLayer
          Critical,     \* the critical files
          MaxApi,       \* MAX_API_REQUESTS_PER_CYCLE
          TokenLife,    \* age at which a token has expired (60 s)
          MaxVersion,   \* bound: versions of a file
          MaxTokens,    \* bound: tokens made by the operator
          MaxAge,       \* bound: the clock
          MaxAsks       \* bound: operations started by the processes

VARIABLES
  content,   \* content[f]: version of the file, 0 when missing
  git,       \* git[f]: what git status says: "none", "modified", "untracked", "clean"
  base,      \* base[f]: version recorded in integrity.json, 0 when none is
  policy,    \* protected_files.enabled
  token,     \* the time the token file was made, or NoToken
  now, made, asks,
  at,        \* at[p]: what process p is doing
  granted,   \* writes of a protected file allowed by a token
  acked,     \* <<f, v>>: versions first seen by a check or accepted by the operator
  asked,     \* the last update-baseline command: what it met, and its answer
  events,    \* the types of the events in audit.jsonl
  api        \* api[p]: api_requests of p's cycle

sbVars == <<content, git, base, policy, token, now, made, asks, at, granted, acked, asked, events, api>>

NoToken == -1

\* _load_policy: without a policy file the protection is off.
Protected == policy
Rest == [step |-> "rest", data |-> [f \in Critical |-> 0], fresh |-> FALSE, then |-> ""]
NoAsk == [clean |-> FALSE, reason |-> FALSE, ack |-> "none", force |-> FALSE, ok |-> FALSE]
Ask == asks < MaxAsks /\ asks' = asks + 1
Do(p, r) == at' = [at EXCEPT ![p] = r]
Log(S) == events' = events \cup S

-----------------------------------------------------------------------------
(* The workspace and its operator.                                         *)

EditFile(f) ==
  /\ content[f] < MaxVersion
  /\ content' = [content EXCEPT ![f] = @ + 1]
  /\ git' = [git EXCEPT ![f] = IF content[f] = 0 THEN "untracked" ELSE "modified"]
  /\ UNCHANGED <<base, policy, token, now, made, asks, at, granted, acked, asked, events, api>>

\* A removed file is listed by git with a D, which the layer reads as "clean".
RemoveFile(f) ==
  /\ content[f] # 0 /\ now = 0
  /\ content' = [content EXCEPT ![f] = 0]
  /\ git' = [git EXCEPT ![f] = "clean"]
  /\ UNCHANGED <<base, policy, token, now, made, asks, at, granted, acked, asked, events, api>>

\* After a commit git has nothing to say of the file; a change that is only
\* staged as added or removed is listed with a code without M or ??, "clean".
GitMoves(f) ==
  /\ git[f] # "none"
  /\ git' \in {[git EXCEPT ![f] = s] : s \in {"none"} \cup (IF git[f] = "untracked" THEN {"clean"} ELSE {})}
  /\ UNCHANGED <<content, base, policy, token, now, made, asks, at, granted, acked, asked, events, api>>

MakeToken ==
  /\ made < MaxTokens
  /\ made' = made + 1
  /\ token' = now
  /\ UNCHANGED <<content, git, base, policy, now, asks, at, granted, acked, asked, events, api>>

Elapse ==
  /\ now < MaxAge
  /\ now' = now + 1
  /\ UNCHANGED <<content, git, base, policy, token, made, asks, at, granted, acked, asked, events, api>>

-----------------------------------------------------------------------------
(* The integrity check.                                                    *)

\* The files whose version differs from the recorded one.  A missing file is
\* not among them, nor is one without a recorded version.
ModifiedFiles == {f \in Critical : content[f] # 0 /\ base[f] # 0 /\ base[f] # content[f]}

\* verify_integrity: versions not recorded yet are, the others are compared;
\* each difference is an audit event.  The record is saved afterwards.
VerifyLoad(p) ==
  /\ at[p] = Rest /\ Ask
  /\ LET data == [f \in Critical |-> IF base[f] = 0 THEN content[f] ELSE base[f]]
     IN /\ Do(p, [Rest EXCEPT !.step = IF Protected THEN "token" ELSE "save", !.data = data, !.then = "save"])
        /\ acked' = acked \cup {<<f, content[f]>> : f \in {g \in Critical : base[g] = 0 /\ content[g] # 0}}
  /\ Log(IF ModifiedFiles # {} THEN {"file_modified"} ELSE {})
  /\ UNCHANGED <<content, git, base, policy, token, now, made, granted, asked, api>>

\* _save_integrity_data replaces the file; update_baseline logs after saving.
SaveIntegrity(p) ==
  /\ at[p].step = "save"
  /\ base' = at[p].data
  /\ Do(p, Rest)
  /\ Log(IF at[p].then = "audit" THEN {"baseline_update"} ELSE {})
  /\ UNCHANGED <<content, git, policy, token, now, made, asks, granted, acked, asked, api>>

\* self_check's anomalies, as far as files and git are concerned.
Anomalies == ModifiedFiles # {} \/ \E f \in Critical : git[f] \notin {"none", "clean"}

-----------------------------------------------------------------------------
(* Writing a protected file (check_protected_write), on behalf of a caller *)
(* or of _save_integrity_data, which goes through it as well.              *)

WriteBegin(p) ==
  /\ at[p] = Rest /\ Ask
  /\ Do(p, [Rest EXCEPT !.step = IF Protected THEN "token" ELSE "write", !.then = "write"])
  /\ UNCHANGED <<content, git, base, policy, token, now, made, granted, acked, asked, events, api>>

\* Without a token the write is refused, an OSError or PermissionError at the
\* caller; else its age is taken.
Refuse(p) == Do(p, Rest) /\ Log({"protected_write_blocked"})

TokenLook(p) ==
  /\ at[p].step = "token"
  /\ IF token = NoToken THEN Refuse(p)
     ELSE Do(p, [at[p] EXCEPT !.step = "unlink", !.fresh = now - token < TokenLife]) /\ UNCHANGED events
  /\ UNCHANGED <<content, git, base, policy, token, now, made, asks, granted, acked, asked, api>>

\* Fault seed: removing a token that is gone is not an error.
TokenGone_Ignored(p) == FALSE

\* Reading or removing a token that another process has removed raises OSError.
TokenGone(p) == token = NoToken

\* The token is removed, and only then, if it was fresh, the write is allowed.
TokenUse(p) ==
  /\ at[p].step = "unlink"
  /\ IF TokenGone(p) \/ ~at[p].fresh
     THEN /\ Do(p, Rest)
          /\ Log({"protected_write_blocked"} \cup IF TokenGone(p) THEN {} ELSE {"protected_write_token_expired"})
          /\ granted' = granted
     ELSE /\ Do(p, [at[p] EXCEPT !.step = at[p].then])
          /\ Log({"protected_write_override"})
          /\ granted' = granted + 1
  /\ token' = NoToken
  /\ UNCHANGED <<content, git, base, policy, now, made, asks, acked, asked, api>>

\* safe_write_protected replaces the file.
WriteEnd(p) ==
  /\ at[p].step = "write"
  /\ Do(p, Rest)
  /\ UNCHANGED <<content, git, base, policy, token, now, made, asks, granted, acked, asked, events, api>>

-----------------------------------------------------------------------------
(* The baseline gate.                                                      *)

Listed == {f \in Critical : git[f] # "none"}

\* check_baseline_gate without force: git must list critical files, all of
\* them as clean (an empty status counts as dirty), and a reason and an
\* acknowledgment must be there.
GateOpen(reason, ack) ==
  /\ Listed # {} /\ \A f \in Listed : git[f] = "clean"
  /\ reason /\ ack # "none"

\* update_baseline: without force the gate is asked, always without the
\* acknowledgment; with force the acknowledgment must be given twice.
Allowed(reason, ack, force) == IF force THEN ack = "twice" ELSE GateOpen(reason, "none")

\* update_baseline records the version of every critical file that exists.
UpdatedBaseline == [f \in Critical |-> IF content[f] = 0 THEN base[f] ELSE content[f]]

\* cmd_update_baseline: force needs a reason and an acknowledgment; a command
\* without them asks for them if the gate, tried with neither, is open, which
\* it never is.
CmdUpdateBaseline(p, reason, ack, force) ==
  /\ at[p] = Rest /\ Ask
  /\ LET complete == reason /\ ack # "none"
         ok == complete /\ Allowed(reason, ack, force)
     IN /\ asked' = [clean |-> Listed = {}, reason |-> reason, ack |-> ack, force |-> force, ok |-> ok]
        /\ IF ok
           THEN /\ Do(p, [Rest EXCEPT !.step = "save", !.data = UpdatedBaseline, !.then = "audit"])
                /\ acked' = IF ack = "twice" THEN acked \cup {<<f, UpdatedBaseline[f]>> : f \in Critical} ELSE acked
           ELSE UNCHANGED <<at, acked>>
  /\ UNCHANGED <<content, git, base, policy, token, now, made, granted, events, api>>

-----------------------------------------------------------------------------
(* Requests per cycle.                                                     *)

\* audit_action counts a request and notes when the limit is passed.
AuditAction(p) ==
  /\ at[p] = Rest /\ Ask
  /\ api[p] <= MaxApi
  /\ api' = [api EXCEPT ![p] = @ + 1]
  /\ Log(IF api[p] + 1 > MaxApi THEN {"api_request", "rate_limit_exceeded"} ELSE {"api_request"})
  /\ UNCHANGED <<content, git, base, policy, token, now, made, at, granted, acked, asked>>

\* check_rate_limit.
WithinLimit(p) == api[p] < MaxApi

\* secure_api_call: the call is logged, not counted, and made if the count
\* allows it.
SecureApiCall(p) ==
  /\ at[p] = Rest /\ Ask
  /\ Log(IF WithinLimit(p) THEN {"api_request"} ELSE {"api_request", "blocked"})
  /\ UNCHANGED <<content, git, base, policy, token, now, made, at, granted, acked, asked, api>>

ResetCycle(p) ==
  /\ api[p] > 0
  /\ api' = [api EXCEPT ![p] = 0]
  /\ UNCHANGED <<content, git, base, policy, token, now, made, asks, at, granted, acked, asked, events>>

-----------------------------------------------------------------------------
SbInit ==
  /\ content = [f \in Critical |-> 1] /\ git = [f \in Critical |-> "none"]
  /\ base = [f \in Critical |-> 0] /\ policy \in BOOLEAN
  /\ token = NoToken /\ now = 0 /\ made = 0 /\ asks = 0
  /\ at = [p \in Layers |-> Rest] /\ granted = 0
  /\ acked = {} /\ asked = NoAsk /\ events = {} /\ api = [p \in Layers |-> 0]

SbNext ==
  \/ \E f \in Critical : EditFile(f) \/ RemoveFile(f) \/ GitMoves(f)
  \/ MakeToken \/ Elapse
  \/ \E p \in Layers :
       \/ VerifyLoad(p) \/ SaveIntegrity(p)
       \/ WriteBegin(p) \/ TokenLook(p) \/ TokenUse(p) \/ WriteEnd(p)
       \/ \E reason, force \in BOOLEAN, ack \in {"none", "once", "twice"} : CmdUpdateBaseline(p, reason, ack, force)
       \/ AuditAction(p) \/ SecureApiCall(p) \/ ResetCycle(p)

SbSpec == SbInit /\ [][SbNext]_sbVars

-----------------------------------------------------------------------------
(* Types of the state.                                                     *)
SbTypeOK ==
  /\ content \in [Critical -> 0..MaxVersion] /\ base \in [Critical -> 0..MaxVersion]
  /\ git \in [Critical -> {"none", "modified", "untracked", "clean"}]
  /\ token \in {NoToken} \cup 0..MaxAge /\ Anomalies \in BOOLEAN

(* Every override of the write protection used up a token of its own, with *)
(* any number of processes looking at the same token file: removing the    *)
(* file decides which of them may write.                                   *)
TokensSingleUse == granted + (IF token = NoToken THEN 0 ELSE 1) <= made

(* The recorded version of a critical file is one that a check recorded    *)
(* because it knew none, or one the operator accepted with the double      *)
(* acknowledgment; a changed file never becomes its own baseline.          *)
BaselineAcknowledged == \A f \in Critical : base[f] # 0 => <<f, base[f]>> \in acked

(* "Git working tree must be clean", a reason and the acknowledgment are   *)
(* what the command asks for (src/dsm/core/security.py:768-771): a command *)
(* that meets all three is not refused.                                    *)
GatedUpdateWorks == (asked.clean /\ asked.reason /\ asked.ack # "none" /\ ~asked.force) => asked.ok
=============================================================================
