--------------------------- MODULE SessionTracker ---------------------------
(***************************************************************************)
(* The session tracker of the DSM command line (src/dsm/core/session.py):  *)
(* each process holds a copy of data/sessions.json and rewrites the whole  *)
(* file.  Opening it for writing empties it, before the sidecar lock is    *)
(* taken; the text is then written from the start of the file, over        *)
(* whatever another process wrote in between.  A state with more sessions  *)
(* has a longer text.                                                      *)
(***************************************************************************)
EXTENDS Integers, Sequences, FiniteSets

CONSTANTS Trackers,      \* processes with a SessionTracker on the one file
          MaxSessions,   \* bound: sessions started
          MaxBeats,      \* bound: heartbeats recorded
          MaxKills       \* bound: processes killed

VARIABLES
  sfile,     \* the file: [text, state], text being "none", "empty", "garbled" or "whole"
  held,      \* held[p]: the state in memory, or NoState before the constructor
  step,      \* step[p]: "idle", or the step of _save_state that comes next
  locker,    \* who has the sidecar lock, or Nobody
  said,      \* said[p]: what the last call of p returned or raised
  started, beats, kills,
  overlap    \* history: a save was opened while another was under way

stVars == <<sfile, held, step, locker, said, started, beats, kills, overlap>>

Nobody == "nobody"
NoState == [sessions |-> <<>>, current |-> -1]
NewState == [sessions |-> <<>>, current |-> 0]
Unreadable == sfile.text \in {"empty", "garbled"}

Saving(p) == step[p] # "idle"
Calls(p) == held[p] # NoState /\ ~Saving(p)

-----------------------------------------------------------------------------
\* _load_state, under the lock; json.load raises for a text it cannot parse.
LoadState == IF sfile.text = "none" THEN NewState ELSE sfile.state

Construct(p) ==
  /\ held[p] = NoState /\ locker = Nobody
  /\ IF Unreadable THEN said' = [said EXCEPT ![p] = "unreadable"] /\ UNCHANGED held
     ELSE said' = [said EXCEPT ![p] = "none"] /\ held' = [held EXCEPT ![p] = LoadState]
  /\ UNCHANGED <<sfile, step, locker, started, beats, kills, overlap>>

\* Two sessions never share an id (uuid4): an id is the number of its session.
StartSession(p) ==
  /\ Calls(p) /\ started < MaxSessions
  /\ started' = started + 1
  /\ held' = [held EXCEPT ![p] =
       [sessions |-> Append(@.sessions, [id |-> started', beats |-> 0]), current |-> started']]
  /\ step' = [step EXCEPT ![p] = "open"]
  /\ said' = [said EXCEPT ![p] = "session"]
  /\ UNCHANGED <<sfile, locker, beats, kills, overlap>>

Has(state, id) == \E i \in DOMAIN state.sessions : state.sessions[i].id = id

\* The session found is a dict, and assigning to its attribute raises before
\* anything has changed.
EndSession(p) ==
  /\ Calls(p)
  /\ said' = [said EXCEPT ![p] = IF Has(held[p], held[p].current) THEN "attribute_error" ELSE "none"]
  /\ UNCHANGED <<sfile, held, step, locker, started, beats, kills, overlap>>

\* record_heartbeat loads the file again and counts for whichever session is
\* current there.
Beat(state) ==
  [state EXCEPT !.sessions = [i \in DOMAIN @ |->
     IF @[i].id = state.current THEN [@[i] EXCEPT !.beats = @ + 1] ELSE @[i]]]

RecordHeartbeat(p) ==
  /\ Calls(p) /\ locker = Nobody /\ beats < MaxBeats
  /\ CASE Unreadable ->
            /\ said' = [said EXCEPT ![p] = "unreadable"]
            /\ UNCHANGED <<held, step, beats>>
       [] ~Unreadable /\ LoadState.current = 0 ->
            /\ said' = [said EXCEPT ![p] = "none"]
            /\ held' = [held EXCEPT ![p] = LoadState]
            /\ UNCHANGED <<step, beats>>
       [] OTHER ->
            /\ said' = [said EXCEPT ![p] =
                 IF Has(LoadState, LoadState.current) THEN "session" ELSE "none"]
            /\ held' = [held EXCEPT ![p] = Beat(LoadState)]
            /\ step' = [step EXCEPT ![p] = "open"]
            /\ beats' = beats + 1
  /\ UNCHANGED <<sfile, locker, started, kills, overlap>>

-----------------------------------------------------------------------------
\* _save_state: open (which empties the file), lock, write and unlock.
SaveOpen(p) ==
  /\ step[p] = "open"
  /\ sfile' = [text |-> "empty", state |-> NewState]
  /\ step' = [step EXCEPT ![p] = "lock"]
  /\ overlap' = (overlap \/ \E q \in Trackers \ {p} : step[q] \in {"lock", "write"})
  /\ UNCHANGED <<held, locker, said, started, beats, kills>>

SaveLock(p) ==
  /\ step[p] = "lock" /\ locker = Nobody
  /\ locker' = p
  /\ step' = [step EXCEPT ![p] = "write"]
  /\ UNCHANGED <<sfile, held, said, started, beats, kills, overlap>>

\* Whoever waits for the lock too long, to save, to construct or to record a
\* heartbeat, gives up; a save has emptied the file by then.
Timeout(p) ==
  /\ locker \notin {Nobody, p} /\ step[p] \in {"lock", "idle"}
  /\ step' = [step EXCEPT ![p] = "idle"]
  /\ said' = [said EXCEPT ![p] = "timeout"]
  /\ UNCHANGED <<sfile, held, locker, started, beats, kills, overlap>>

\* The text of a shorter state leaves the end of the longer one behind it.
Written(state) ==
  IF sfile.text = "garbled"
     \/ (sfile.text = "whole" /\ Len(sfile.state.sessions) > Len(state.sessions))
  THEN [text |-> "garbled", state |-> NewState]
  ELSE [text |-> "whole", state |-> state]

SaveWrite(p) ==
  /\ step[p] = "write"
  /\ sfile' = Written(held[p])
  /\ locker' = Nobody
  /\ step' = [step EXCEPT ![p] = "idle"]
  /\ UNCHANGED <<held, said, started, beats, kills, overlap>>

\* A killed process gives its lock back and may leave half of its text.
Kill(p, torn) ==
  /\ held[p] # NoState /\ kills < MaxKills
  /\ torn => step[p] = "write"
  /\ kills' = kills + 1
  /\ sfile' = IF torn THEN [text |-> "garbled", state |-> NewState] ELSE sfile
  /\ locker' = IF locker = p THEN Nobody ELSE locker
  /\ held' = [held EXCEPT ![p] = NoState]
  /\ step' = [step EXCEPT ![p] = "idle"]
  /\ said' = [said EXCEPT ![p] = "none"]
  /\ UNCHANGED <<started, beats, overlap>>

StInit ==
  /\ sfile = [text |-> "none", state |-> NewState]
  /\ held = [p \in Trackers |-> NoState]
  /\ step = [p \in Trackers |-> "idle"]
  /\ said = [p \in Trackers |-> "none"]
  /\ locker = Nobody /\ started = 0 /\ beats = 0 /\ kills = 0 /\ overlap = FALSE

StNext ==
  \E p \in Trackers :
    \/ Construct(p) \/ StartSession(p) \/ EndSession(p) \/ RecordHeartbeat(p)
    \/ SaveOpen(p) \/ SaveLock(p) \/ SaveWrite(p) \/ Timeout(p)
    \/ \E torn \in BOOLEAN : Kill(p, torn)

StSpec == StInit /\ [][StNext]_stVars

-----------------------------------------------------------------------------
(* Types of the state.                                                     *)
StTypeOK ==
  /\ sfile.text \in {"none", "empty", "garbled", "whole"}
  /\ locker \in Trackers \cup {Nobody}
  /\ \A p \in Trackers : /\ step[p] \in {"idle", "open", "lock", "write"}
                         /\ said[p] \in {"none", "session", "unreadable", "timeout", "attribute_error"}

(* When nobody is saving, the file cannot be loaded only if a process was  *)
(* killed or two saves overlapped (_save_state).                           *)
LoadsUnlessBroken ==
  Unreadable /\ (\A p \in Trackers : ~Saving(p)) => kills > 0 \/ overlap

(* The file keeps what it promises: it loads, and what it holds counts no  *)
(* heartbeat that was not recorded, whichever copies overwrote each other  *)
(* (_save_state, _load_state, record_heartbeat).                           *)
Counted(state) ==
  LET n == Len(state.sessions)
      sum[i \in 0..n] == IF i = 0 THEN 0 ELSE sum[i - 1] + state.sessions[i].beats
  IN sum[n]

StateFileKept ==
  /\ LoadsUnlessBroken
  /\ sfile.text = "whole" => Counted(sfile.state) <= beats

(* "with portable lock": two processes that save never leave a file that   *)
(* does not load.                                                          *)
SavesAreSerialised ==
  kills = 0 /\ (\A p \in Trackers : ~Saving(p)) => ~Unreadable

(* end_session ends the session that is open.                              *)
SessionsCanEnd == \A p \in Trackers : said[p] # "attribute_error"
=============================================================================
