----------------------------- MODULE CodexVoice -----------------------------
(***************************************************************************)
(* Voice sessions of one Codex thread: start_realtime, stop_realtime,      *)
(* cancel_realtime_session and the realtime notifications of               *)
(* src-tauri/src/services/codex_app_server.rs, and the commands            *)
(* start_codex_voice and stop_codex_voice.                                 *)
(*                                                                         *)
(* A client names each session by a fresh id, starts it once and stops it  *)
(* at most once, at any time after it asked for the start.  The start task *)
(* stops its own session as well when it fails or finds itself cancelled.  *)
(* Requests to the app-server name the thread, not the session.            *)
(*                                                                         *)
(* The app-server is external: it handles requests in the order in which   *)
(* they are written and keeps one session for the thread.                  *)
(***************************************************************************)
EXTENDS Naturals, Sequences, FiniteSets

CONSTANTS
    Session,    \* session ids the client makes
    NoSession,  \* no session
    Loss        \* TRUE: the process may be lost, once

ASSUME SessionAssumption == NoSession \notin Session /\ Loss \in BOOLEAN

VARIABLES
    entry,      \* realtime_sessions of the thread
    canceled,   \* canceled_realtime_sessions
    heard,      \* the oneshot of each session's negotiation
    task,       \* the start task and the stop command of each session
    inbox,      \* requests written to the app-server
    live,       \* the session the app-server keeps
    lost        \* the process was lost

voiceVars == <<entry, canceled, heard, task, inbox, live, lost>>

Roles == {"start", "stop"}
Task == Session \X Roles
VoicePoints == {"idle", "check", "insert", "write", "await", "negotiate", "review", "cancel",
                "stopCheck", "stopWrite", "stopAwait", "stopRemove", "connected", "failed", "done"}
Answers == {"none", "sdp", "error"}

VoiceInit ==
    /\ entry = NoSession
    /\ canceled = {}
    /\ heard = [s \in Session |-> "none"]
    /\ task = [t \in Task |-> "idle"]
    /\ inbox = <<>>
    /\ live = NoSession
    /\ lost = FALSE

TaskAt(t, point) == task[t] = point
TaskGoto(t, point) == task' = [task EXCEPT ![t] = point]
Start(s) == <<s, "start">>
Stop(s) == <<s, "stop">>
Tell(s, answer) == [heard EXCEPT ![s] = IF @ = "none" THEN answer ELSE @]

-----------------------------------------------------------------------------
(* start_codex_voice *)

StartAsked(s) ==
    /\ TaskAt(Start(s), "idle")
    /\ TaskGoto(Start(s), "check")
    /\ UNCHANGED <<entry, canceled, heard, inbox, live, lost>>

(* The first look at the cancellations, before the process is started ... *)
StartChecks(s) ==
    /\ TaskAt(Start(s), "check")
    /\ TaskGoto(Start(s), IF s \in canceled THEN "failed" ELSE "insert")
    /\ UNCHANGED <<entry, canceled, heard, inbox, live, lost>>

(* ... and the second, in the section that registers the session. *)
MayInsert(s) == s \notin canceled /\ entry = NoSession

StartInserts(s) ==
    /\ TaskAt(Start(s), "insert")
    /\ IF MayInsert(s)
       THEN entry' = s /\ TaskGoto(Start(s), "write")
       ELSE TaskGoto(Start(s), "failed") /\ UNCHANGED entry
    /\ UNCHANGED <<canceled, heard, inbox, live, lost>>

StartWrites(s) ==
    /\ TaskAt(Start(s), "write")
    /\ inbox' = Append(inbox, Start(s))
    /\ TaskGoto(Start(s), "await")
    /\ UNCHANGED <<entry, canceled, heard, live, lost>>

(* The oneshot has an answer, or 45 seconds are over. *)
StartNegotiates(s) ==
    /\ TaskAt(Start(s), "negotiate")
    /\ TaskGoto(Start(s), IF heard[s] = "sdp" THEN "review" ELSE "stopCheck")
    /\ UNCHANGED <<entry, canceled, heard, inbox, live, lost>>

(* The cancellations are read again before the connection is returned. *)
Reviewed(s) == IF s \in canceled THEN "stopCheck" ELSE "connected"

StartReviews(s) ==
    /\ TaskAt(Start(s), "review")
    /\ TaskGoto(Start(s), Reviewed(s))
    /\ UNCHANGED <<entry, canceled, heard, inbox, live, lost>>

-----------------------------------------------------------------------------
(* stop_codex_voice, and stop_realtime as the start task calls it *)

StopAsked(s) ==
    /\ TaskAt(Stop(s), "idle") /\ ~TaskAt(Start(s), "idle")
    /\ TaskGoto(Stop(s), "cancel")
    /\ UNCHANGED <<entry, canceled, heard, inbox, live, lost>>

StopCancels(s) ==
    /\ TaskAt(Stop(s), "cancel")
    /\ canceled' = canceled \cup {s}
    /\ TaskGoto(Stop(s), "stopCheck")
    /\ UNCHANGED <<entry, heard, inbox, live, lost>>

Ended(t) == IF t[2] = "start" THEN "failed" ELSE "done"

(* Without an entry there is nothing to stop; another session's is not ours *)
(* to stop; else the negotiation, if it still waits, is told.               *)
StopChecks(t) ==
    /\ TaskAt(t, "stopCheck")
    /\ IF entry = t[1]
       THEN heard' = Tell(t[1], "error") /\ TaskGoto(t, "stopWrite")
       ELSE TaskGoto(t, Ended(t)) /\ UNCHANGED heard
    /\ UNCHANGED <<entry, canceled, inbox, live, lost>>

StopWrites(t) ==
    /\ TaskAt(t, "stopWrite")
    /\ inbox' = Append(inbox, <<t[1], IF t[2] = "start" THEN "cleanup" ELSE "stop">>)
    /\ TaskGoto(t, "stopAwait")
    /\ UNCHANGED <<entry, canceled, heard, live, lost>>

(* Fault: a stop that comes back removes whatever is registered. *)
RemovedFaultAny(s) == NoSession

(* The entry is removed if it is still this session's. *)
Removed(s) == IF entry = s THEN NoSession ELSE entry

StopRemoves(t) ==
    /\ TaskAt(t, "stopRemove")
    /\ entry' = Removed(t[1])
    /\ TaskGoto(t, Ended(t))
    /\ UNCHANGED <<canceled, heard, inbox, live, lost>>

-----------------------------------------------------------------------------
(* The app-server *)

(* A second session is refused while one is live. *)
HandlesStart ==
    /\ inbox # <<>> /\ Head(inbox)[2] = "start"
    /\ inbox' = Tail(inbox)
    /\ LET s == Head(inbox)[1] IN
       IF live = NoSession
       THEN live' = s /\ TaskGoto(Start(s), "negotiate")
       ELSE UNCHANGED live /\ TaskGoto(Start(s), "stopCheck")
    /\ UNCHANGED <<entry, canceled, heard, lost>>

HandlesStop ==
    /\ inbox # <<>> /\ Head(inbox)[2] # "start"
    /\ inbox' = Tail(inbox)
    /\ live' = NoSession
    /\ LET request == Head(inbox) IN
       TaskGoto(<<request[1], IF request[2] = "cleanup" THEN "start" ELSE "stop">>, "stopRemove")
    /\ UNCHANGED <<entry, canceled, heard, lost>>

(* A notification of the thread is for the session registered now: its SDP *)
(* answer, or the end of the session.                                      *)
Notified(answer) ==
    /\ live # NoSession
    /\ heard' = IF entry = NoSession THEN heard ELSE Tell(entry, answer)
    /\ live' = IF answer = "error" THEN NoSession ELSE live
    /\ UNCHANGED <<entry, canceled, task, inbox, lost>>

(* invalidate_process drains the sessions with the pending calls. *)
EntryAfterLoss == NoSession

(* What was written to the process is gone, and its calls return.  *)
InboxAfterLoss == <<>>

ProcessLost ==
    /\ Loss /\ ~lost
    /\ lost' = TRUE
    /\ entry' = EntryAfterLoss
    /\ heard' = IF entry = NoSession THEN heard ELSE Tell(entry, "error")
    /\ task' = [t \in Task |-> IF task[t] = "await" THEN "stopCheck"
                               ELSE IF task[t] = "stopAwait" THEN "stopRemove" ELSE task[t]]
    /\ inbox' = InboxAfterLoss
    /\ live' = NoSession
    /\ UNCHANGED canceled

VoiceNext ==
    \/ \E s \in Session :
          \/ StartAsked(s) \/ StartChecks(s) \/ StartInserts(s) \/ StartWrites(s)
          \/ StartNegotiates(s) \/ StartReviews(s)
          \/ StopAsked(s) \/ StopCancels(s)
    \/ \E t \in Task : StopChecks(t) \/ StopWrites(t) \/ StopRemoves(t)
    \/ HandlesStart \/ HandlesStop
    \/ Notified("sdp") \/ Notified("error")
    \/ ProcessLost

VoiceSpec == VoiceInit /\ [][VoiceNext]_voiceVars

-----------------------------------------------------------------------------
(* Properties *)

(* The types; and a request that waits in the pipe is one its task awaits. *)
VoiceTypeOK ==
    /\ entry \in Session \cup {NoSession}
    /\ canceled \subseteq Session
    /\ heard \in [Session -> Answers]
    /\ task \in [Task -> VoicePoints]
    /\ inbox \in Seq(Session \X {"start", "stop", "cleanup"})
    /\ live \in Session \cup {NoSession}
    /\ lost \in BOOLEAN
    /\ \A i \in DOMAIN inbox :
          IF inbox[i][2] = "stop" THEN TaskAt(Stop(inbox[i][1]), "stopAwait")
          ELSE TaskAt(Start(inbox[i][1]), IF inbox[i][2] = "start" THEN "await" ELSE "stopAwait")

(* A session whose start returned a connection and that nobody stops stays  *)
(* registered, so that it can be stopped later: no stop of an earlier       *)
(* session that comes back late, and no failed start, takes its entry.      *)
ConnectedIsRegistered == \A s \in Session :
    TaskAt(Start(s), "connected") /\ TaskAt(Stop(s), "idle") => entry = s \/ lost

(* The entry of a session is gone once its start failed or its stop is      *)
(* done, so the thread is never barred from voice by a session nobody owns. *)
NoDeadEntry == \A s \in Session :
    entry = s => ~(TaskAt(Start(s), "failed") \/ TaskAt(Stop(s), "done"))

(* A session the app-server keeps, and that nobody asked to stop, is the    *)
(* registered one: its audio can be stopped, and no other can be started.   *)
(* (As long as the process lives: a start between its section and its       *)
(* request is drained, and its request then starts a session unregistered.) *)
LiveIsRegistered == live # NoSession /\ live \notin canceled => entry = live \/ lost

(* The entry of the thread is the session whose audio flows or may flow,    *)
(* whatever starts, stops and losses overlap.                               *)
EntriesAreOwned ==
    VoiceTypeOK /\ ConnectedIsRegistered /\ NoDeadEntry /\ LiveIsRegistered

=============================================================================
