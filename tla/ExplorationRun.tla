--------------------------- MODULE ExplorationRun ---------------------------
(***************************************************************************)
(* The exploration runs of one thread: start_exploration_run_core,         *)
(* run_cycle_admitted, run_question_only and stop_exploration_run_core of  *)
(* commands/exploration_run.rs over the admission queue (BuildQueue, one   *)
(* target) and the durable cycles (CycleReducer).                          *)
(*                                                                         *)
(* The registry's own awaits are the subject of ExplorationAdmission; here *)
(* each of its methods is one step.  A step is one section under the       *)
(* database lock or one registry call, so the cycle a task looked up may   *)
(* have changed by the time it uses it.  Provider, render and verification *)
(* results are nondeterministic.  A crash loses the queue and every task   *)
(* and runs mark_in_flight_interrupted on the cycles.                      *)
(***************************************************************************)
EXTENDS BuildQueue, FiniteSets

CONSTANTS
    Cycle,          \* cycle ids, taken from the pool when a cycle starts
    Version,        \* persisted versions of the thread
    Setups          \* the circumstances a behaviour may start in, with its bounds

SetupType == [requests : SUBSET Request,    \* the requests that are submitted
              questions : SUBSET Request,   \* those the classifier may take for questions
              stoppable : SUBSET Request,   \* those somebody stops, at most once each
              attempts : Nat \ {0},         \* config.max_generation_attempts
              crash : BOOLEAN,              \* whether the app may crash, once
              mcp : BOOLEAN,                \* whether MCP clients answer questions themselves
              seconds : Nat]                \* bound: seconds that pass

ASSUME RunAssumption == \A r, s \in Request : KeyOf[r] = KeyOf[s]
ASSUME SetupAssumption == \A s \in Setups : s \in SetupType

R == INSTANCE CycleReducer

(* None stands for no cycle: it is neither a row nor the value of one. *)
ASSUME NoneIsNoCycle == None \notin Cycle /\ None \notin R!Cycles

VARIABLES
    cycles,     \* exploration_cycles: packet of each started cycle, or None
    updated,    \* updated_at of each cycle, in whole seconds
    now,        \* the clock
    cancelled,  \* the registry's tombstones
    pc,         \* where the run of each request is
    own,        \* cycle_id of the run, or None
    victim,     \* the cycle terminate_active_cycle_on_error looked up
    attempt,
    outcome,    \* what the run returned
    stopPc,     \* where the stop of each request is
    stopCycle,  \* the active cycle the stop looked up
    crashed,
    setup       \* the circumstances of this behaviour

cycleVars == <<cycles, updated>>
runVars == <<pc, own, victim, attempt, outcome>>
stopVars == <<stopPc, stopCycle>>
vars == <<queue, sequence, nextSequence, cycles, updated, now, cancelled,
          runVars, stopVars, crashed, setup>>

QueueOf(r) == queue[KeyOf[r]]
IsRunning(r) == QueueOf(r).running = r

Ended == {"done", "lost"}
Driving == {"lookup", "answer", "open", "attempt", "generate", "plan", "failed",
            "recordFail", "startBuild", "append", "render", "verify",
            "decideGreen", "decideRed", "publish", "finalize", "finishError",
            "stopOwn", "error", "terminateFail", "terminateStop",
            "question", "ask", "finish"}
PcStates == {"idle", "queued"} \cup Driving \cup Ended
StopStates == {"idle", "sawRunning", "sawPending", "lookup", "stop", "done"}
Outcomes == {"none", "published", "withheld", "asked", "stopped", "failed"}

(* load_latest_active_cycle_for_thread: ORDER BY updated_at DESC LIMIT 1;  *)
(* cycles saved in one second tie and any of them may come first.          *)
ActiveCycles == {c \in Cycle : cycles[c] # None /\ R!Active(cycles[c])}
LatestActive ==
    IF ActiveCycles = {} THEN {None}
    ELSE {c \in ActiveCycles : \A d \in ActiveCycles : updated[d] <= updated[c]}

Init ==
    /\ QueueInit
    /\ cycles = [c \in Cycle |-> None]
    /\ updated = [c \in Cycle |-> 0]
    /\ now = 0
    /\ cancelled = {}
    /\ pc = [r \in Request |-> "idle"]
    /\ own = [r \in Request |-> None]
    /\ victim = [r \in Request |-> None]
    /\ attempt = [r \in Request |-> 0]
    /\ outcome = [r \in Request |-> "none"]
    /\ stopPc = [r \in Request |-> "idle"]
    /\ stopCycle = [r \in Request |-> None]
    /\ crashed = FALSE
    /\ setup \in Setups

Goto(r, from, to) == pc[r] = from /\ pc' = [pc EXCEPT ![r] = to]
Return(r, o) == outcome' = [outcome EXCEPT ![r] = o]

(* save_transition on cycle c. *)
Save(c, new) ==
    /\ cycles' = [cycles EXCEPT ![c] = R!Saved(@, new)]
    /\ updated' = [updated EXCEPT ![c] = now]

(* A transition whose error the code ignores. *)

(* Fault: the reducer's refusal is not honoured. *)
SaveIfFaultUnguarded(guard, c, new) == Save(c, new)

SaveIf(guard, c, new) == IF guard THEN Save(c, new) ELSE UNCHANGED cycleVars

(* What a run step may not touch. *)
RunFrame == UNCHANGED <<queueVars, now, cancelled, stopVars, crashed, setup>>

(* Fault: the run goes on when the reducer refused the transition. *)
TransitionFaultIgnored(r, guard, new, from, to) ==
    /\ Goto(r, from, to)
    /\ IF guard THEN Save(own[r], new) ELSE UNCHANGED cycleVars
    /\ RunFrame

(* A transition of the run's own cycle: on with it, or out with `?`. *)
Transition(r, guard, new, from, to) ==
    /\ pc[r] = from
    /\ IF guard
         THEN Goto(r, from, to) /\ Save(own[r], new)
         ELSE Goto(r, from, "error") /\ UNCHANGED cycleVars
    /\ RunFrame

Mine(r) == cycles[own[r]]

-----------------------------------------------------------------------------
(* Admission, as one step per registry call *)

SubmitRun(r) ==
    /\ r \in setup.requests /\ pc[r] = "idle"
    /\ Stamp(r)
    /\ queue' = [queue EXCEPT ![KeyOf[r]] = Started(Enqueued(@, r))]
    /\ LET replaced == Superseded(QueueOf(r), r)
       IN  pc' = [s \in Request |->
                    IF s = r THEN "queued" ELSE IF s = replaced THEN "done" ELSE pc[s]]
    /\ UNCHANGED <<cycleVars, now, cancelled, own, victim, attempt, outcome,
                   stopVars, crashed, setup>>

Admitted(r) ==
    /\ r \notin cancelled /\ IsRunning(r)
    /\ \/ Goto(r, "queued", "lookup")
       \/ r \in setup.questions /\ Goto(r, "queued", "question")
    /\ UNCHANGED <<cycleVars, own, victim, attempt, outcome>>
    /\ RunFrame

CancelledInAdmit(r) ==
    /\ r \in cancelled
    /\ Goto(r, "queued", "done")
    /\ queue' = [queue EXCEPT ![KeyOf[r]] = Finished(@, r)]
    /\ cancelled' = cancelled \ {r}
    /\ UNCHANGED <<sequence, nextSequence, cycleVars, now, own, victim, attempt,
                   outcome, stopVars, crashed, setup>>

(* Fault: finish frees the target without granting it to the next. *)
RunFinishFaultNoGrant(r) ==
    /\ Goto(r, "finish", "done")
    /\ queue' = [queue EXCEPT ![KeyOf[r]].running = None]
    /\ attempt' = [attempt EXCEPT ![r] = 0]
    /\ victim' = [victim EXCEPT ![r] = None]
    /\ UNCHANGED <<sequence, nextSequence, cycleVars, now, cancelled, own, outcome,
                   stopVars, crashed, setup>>

(* finish; the tombstone of a run that was cancelled while it ran stays.   *)
RunFinish(r) ==
    /\ Goto(r, "finish", "done")
    /\ queue' = [queue EXCEPT ![KeyOf[r]] = Finished(@, r)]
    /\ attempt' = [attempt EXCEPT ![r] = 0]
    /\ victim' = [victim EXCEPT ![r] = None]
    /\ UNCHANGED <<sequence, nextSequence, cycleVars, now, cancelled, own, outcome,
                   stopVars, crashed, setup>>

-----------------------------------------------------------------------------
(* run_cycle_admitted *)

(* A run submitted while ASK is pending answers it, any other starts anew. *)
Lookup(r) ==
    /\ \E c \in LatestActive :
         IF c # None /\ cycles[c].phase = "awaitingInput"
           THEN Goto(r, "lookup", "answer") /\ own' = [own EXCEPT ![r] = c]
           ELSE Goto(r, "lookup", "open") /\ UNCHANGED own
    /\ UNCHANGED <<cycleVars, victim, attempt, outcome>>
    /\ RunFrame

(* A database or file operation fails; `?` leaves the run with its error,   *)
(* wherever it is but in a provider call, whose errors the run handles, and *)
(* in the last transitions of a cycle, whose errors it ignores.             *)
Fallible == Driving \ {"generate", "plan", "stopOwn", "ask", "error",
                       "terminateFail", "terminateStop", "finish"}

StorageFails(r) ==
    /\ \E from \in Fallible : Goto(r, from, "error")
    /\ UNCHANGED <<cycleVars, own, victim, attempt, outcome>>
    /\ RunFrame

FirstAttempt(r) == attempt' = [attempt EXCEPT ![r] = 1]

Answer(r) ==
    /\ Transition(r, R!CanAnswer(Mine(r)), R!Answered(Mine(r)), "answer", "attempt")
    /\ FirstAttempt(r)
    /\ UNCHANGED <<own, victim, outcome>>

Open(r) ==
    /\ Goto(r, "open", "attempt")
    /\ \E c \in Cycle, v \in Version :
         /\ cycles[c] = None
         /\ cycles' = [cycles EXCEPT ![c] = R!StartedCycle(v, setup.attempts)]
         /\ updated' = [updated EXCEPT ![c] = now]
         /\ own' = [own EXCEPT ![r] = c]
    /\ FirstAttempt(r)
    /\ UNCHANGED <<victim, outcome>>
    /\ RunFrame

AttemptStarts(r) ==
    /\ Goto(r, "attempt", IF r \in cancelled THEN "stopOwn" ELSE "generate")
    /\ IF r \in cancelled THEN Return(r, "stopped") ELSE UNCHANGED outcome
    /\ UNCHANGED <<cycleVars, own, victim, attempt>>
    /\ RunFrame

(* A model call that succeeds is recorded on the latest active cycle.      *)
Generated(r) ==
    /\ Goto(r, "generate", "plan")
    /\ \E c \in LatestActive :
         updated' = [d \in Cycle |-> IF d = c THEN now ELSE updated[d]]
    /\ UNCHANGED <<cycles, own, victim, attempt, outcome>>
    /\ RunFrame

(* record_cycle_model_event: a provider error is a ProviderFailed of the   *)
(* latest active cycle of the thread, whoever's it is; a parse error       *)
(* records nothing.                                                        *)
ProviderErrorRecorded ==
    \/ UNCHANGED cycleVars
    \/ \E c \in LatestActive \ {None} : Save(c, R!Failed(cycles[c]))

GenerateFails(r) ==
    /\ Goto(r, "generate", "failed")
    /\ ProviderErrorRecorded
    /\ UNCHANGED <<own, victim, attempt, outcome>>
    /\ RunFrame

(* accept_provider_plan; costs above one only exhaust the budget earlier.  *)
PlanStep == [build |-> "startBuild", ask |-> "finalize", stop |-> "finalize"]
PlanOutcome == [build |-> "none", ask |-> "asked", stop |-> "stopped"]

Plan(r) ==
    /\ pc[r] = "plan"
    /\ \E action \in R!PlanActions :
         LET p == [action |-> action, source |-> Mine(r).current, wellFormed |-> TRUE,
                   cost |-> IF action = "build" THEN 1 ELSE 0]
         IN  /\ R!CanPlan(Mine(r), p)
             /\ Goto(r, "plan", PlanStep[action])
             /\ Save(own[r], R!Planned(Mine(r), p))
             /\ Return(r, PlanOutcome[action])
    /\ UNCHANGED <<own, victim, attempt>>
    /\ RunFrame

(* A malformed plan, or one the cycle no longer accepts. *)
PlanRejected(r) ==
    /\ Goto(r, "plan", "failed")
    /\ UNCHANGED <<cycleVars, own, victim, attempt, outcome>>
    /\ RunFrame

(* Without an active cycle the prompt asks for no plan, and none comes. *)
PlanMissing(r) ==
    /\ Goto(r, "plan", "error")
    /\ ~R!Active(Mine(r))
    /\ UNCHANGED <<cycleVars, own, victim, attempt, outcome>>
    /\ RunFrame

(* The next attempt, or finish_error after the last one. *)
NextAttempt(r, from) ==
    IF attempt[r] = setup.attempts
      THEN Goto(r, from, "finishError") /\ Return(r, "failed") /\ UNCHANGED attempt
      ELSE /\ Goto(r, from, "attempt")
           /\ attempt' = [attempt EXCEPT ![r] = @ + 1]
           /\ UNCHANGED outcome

(* record_cycle_failure reads the cycle first: nothing is recorded for a   *)
(* cycle that has ended, or when the provider error is its last event (and  *)
(* Failed leaves it unchanged).                                             *)
FailureRead(r) ==
    /\ \/ Goto(r, "failed", "recordFail") /\ R!Active(Mine(r)) /\ UNCHANGED <<attempt, outcome>>
       \/ NextAttempt(r, "failed") /\ (R!Active(Mine(r)) => R!Failed(Mine(r)) = Mine(r))
    /\ UNCHANGED <<cycleVars, own, victim>>
    /\ RunFrame

FailureRecorded(r) ==
    /\ pc[r] = "recordFail"
    /\ IF R!CanFail(Mine(r))
         THEN NextAttempt(r, "recordFail") /\ Save(own[r], R!Failed(Mine(r)))
         ELSE Goto(r, "recordFail", "error") /\ UNCHANGED <<cycleVars, attempt, outcome>>
    /\ UNCHANGED <<own, victim>>
    /\ RunFrame

StartBuild(r) ==
    /\ Transition(r, R!CanStartBuild(Mine(r), Mine(r).current),
                  R!BuildStarted(Mine(r)), "startBuild", "append")
    /\ UNCHANGED <<own, victim, attempt, outcome>>

(* The draft, persisted just before, may be the current version again.     *)
AppendVersion(r) ==
    /\ \E v \in Version :
         Transition(r, R!CanAppend(Mine(r)), R!Appended(Mine(r), v), "append", "render")
    /\ UNCHANGED <<own, victim, attempt, outcome>>

Render(r) ==
    /\ \E to \in {"verify", "failed"} : Goto(r, "render", to)
    /\ UNCHANGED <<cycleVars, own, victim, attempt, outcome>>
    /\ RunFrame

Verify(r) ==
    /\ pc[r] = "verify"
    /\ \E verdict \in R!Verdicts :
         LET v == [version |-> Mine(r).current, verdict |-> verdict]
         IN  IF R!CanVerify(Mine(r), v)
               THEN /\ Goto(r, "verify", IF verdict = "green" THEN "decideGreen" ELSE "decideRed")
                    /\ cycles' = [cycles EXCEPT ![own[r]] = R!Verified(@, v)]
                    /\ updated' = [updated EXCEPT ![own[r]] = now]
               ELSE Goto(r, "verify", "error") /\ UNCHANGED cycleVars
    /\ UNCHANGED <<own, victim, attempt, outcome>>
    /\ RunFrame

Complete(r) ==
    /\ Transition(r, R!CanDecide(Mine(r), "complete"),
                  R!Decided(Mine(r), "complete"), "decideGreen", "publish")
    /\ UNCHANGED <<own, victim, attempt, outcome>>

Replan(r) ==
    /\ pc[r] = "decideRed"
    /\ IF R!CanDecide(Mine(r), "replan")
         THEN Save(own[r], R!Decided(Mine(r), "replan")) /\ NextAttempt(r, "decideRed")
         ELSE Goto(r, "decideRed", "error") /\ UNCHANGED <<cycleVars, attempt, outcome>>
    /\ UNCHANGED <<own, victim>>
    /\ RunFrame

Publish(r) ==
    /\ Goto(r, "publish", "finish")
    /\ Return(r, IF PublicationAllowed(r) THEN "published" ELSE "withheld")
    /\ UNCHANGED <<cycleVars, own, victim, attempt>>
    /\ RunFrame

(* The message of an ASK or a STOP plan is finalized. *)
Finalize(r) ==
    /\ Goto(r, "finalize", "finish")
    /\ UNCHANGED <<cycleVars, own, victim, attempt, outcome>>
    /\ RunFrame

(* finish_cycle of the run's own cycle: ProviderFailed, then Stopped, each *)
(* under its own lock and each ignored when it is refused.                 *)
FinishError(r) ==
    /\ Goto(r, "finishError", "stopOwn")
    /\ SaveIf(R!CanFail(Mine(r)), own[r], R!Failed(Mine(r)))
    /\ UNCHANGED <<own, victim, attempt, outcome>>
    /\ RunFrame

(* Fault: a failed run leaves its cycle to somebody else. *)
StopOwnFaultKeepsCycle(r) ==
    /\ Goto(r, "stopOwn", "finish")
    /\ UNCHANGED <<cycleVars, own, victim, attempt, outcome>>
    /\ RunFrame

StopOwn(r) ==
    /\ Goto(r, "stopOwn", "finish")
    /\ SaveIf(R!CanStop(Mine(r)), own[r], R!Stopped(Mine(r)))
    /\ UNCHANGED <<own, victim, attempt, outcome>>
    /\ RunFrame

(* terminate_active_cycle_on_error *)
TerminateLookup(r) ==
    /\ \E c \in LatestActive :
         /\ Goto(r, "error", IF c = None THEN "finish" ELSE "terminateFail")
         /\ victim' = [victim EXCEPT ![r] = c]
    /\ Return(r, "failed")
    /\ UNCHANGED <<cycleVars, own, attempt>>
    /\ RunFrame

TerminateFail(r) ==
    /\ Goto(r, "terminateFail", "terminateStop")
    /\ LET c == victim[r] IN SaveIf(R!CanFail(cycles[c]), c, R!Failed(cycles[c]))
    /\ UNCHANGED <<own, victim, attempt, outcome>>
    /\ RunFrame

TerminateStop(r) ==
    /\ Goto(r, "terminateStop", "finish")
    /\ LET c == victim[r] IN SaveIf(R!CanStop(cycles[c]), c, R!Stopped(cycles[c]))
    /\ UNCHANGED <<own, victim, attempt, outcome>>
    /\ RunFrame

-----------------------------------------------------------------------------
(* run_question_only: it owns no cycle, but its provider error is recorded *)
(* like any other, and a failure to store its answer ends the thread's      *)
(* latest active cycle like any other error.                               *)

QuestionStarts(r) ==
    /\ Goto(r, "question", IF r \in cancelled THEN "finish" ELSE "ask")
    /\ UNCHANGED <<cycleVars, own, victim, attempt, outcome>>
    /\ RunFrame

QuestionEnds(r) ==
    /\ \E to \in {"finish", "error"} : Goto(r, "ask", to)
    /\ ProviderErrorRecorded
    /\ UNCHANGED <<own, victim, attempt, outcome>>
    /\ RunFrame

-----------------------------------------------------------------------------
(* stop_exploration_run_core *)

StopGoto(r, from, to) == stopPc[r] = from /\ stopPc' = [stopPc EXCEPT ![r] = to]
StopFrame == UNCHANGED <<sequence, nextSequence, now, runVars, crashed, setup>>

(* is_running, read before the cancel and trusted after it. *)
StopReads(r) ==
    /\ r \in setup.stoppable
    /\ StopGoto(r, "idle", IF IsRunning(r) THEN "sawRunning" ELSE "sawPending")
    /\ UNCHANGED <<queue, cycleVars, cancelled, stopCycle>>
    /\ StopFrame

StopProceeds(r) ==
    \/ StopGoto(r, "sawRunning", "lookup")
    \/ StopGoto(r, "sawPending", "done")

(* Fault: a stop takes the target away from the run at once. *)
StopCancelsFaultReleases(r) ==
    /\ StopProceeds(r)
    /\ queue' = [queue EXCEPT ![KeyOf[r]] =
                   IF IsRunning(r) THEN Finished(@, r) ELSE WithoutPending(@, r)]
    /\ cancelled' = cancelled \cup
         (IF IsRunning(r) \/ r \in Waiting(QueueOf(r)) THEN {r} ELSE {})
    /\ UNCHANGED <<cycleVars, stopCycle>>
    /\ StopFrame

(* registry.cancel, whose answer the stop does not look at. *)
StopCancels(r) ==
    /\ StopProceeds(r)
    /\ queue' = [queue EXCEPT ![KeyOf[r]] =
                   IF IsRunning(r) THEN @ ELSE WithoutPending(@, r)]
    /\ cancelled' = cancelled \cup
         (IF IsRunning(r) \/ r \in Waiting(QueueOf(r)) THEN {r} ELSE {})
    /\ UNCHANGED <<cycleVars, stopCycle>>
    /\ StopFrame

StopLooksUp(r) ==
    /\ \E c \in LatestActive :
         /\ StopGoto(r, "lookup", IF c = None THEN "done" ELSE "stop")
         /\ stopCycle' = [stopCycle EXCEPT ![r] = c]
    /\ UNCHANGED <<queue, cycleVars, cancelled>>
    /\ StopFrame

StopApplies(r) ==
    /\ StopGoto(r, "stop", "done")
    /\ LET c == stopCycle[r] IN
          IF R!CanStop(cycles[c]) THEN Save(c, R!Stopped(cycles[c])) ELSE UNCHANGED cycleVars
    /\ stopCycle' = [stopCycle EXCEPT ![r] = None]
    /\ UNCHANGED <<queue, cancelled>>
    /\ StopFrame

-----------------------------------------------------------------------------
(* handle_exploration_cycle_answer: an MCP client answers a cycle directly. *)
McpAnswer(c) ==
    /\ setup.mcp /\ cycles[c] # None /\ R!CanAnswer(cycles[c])
    /\ Save(c, R!Answered(cycles[c]))
    /\ UNCHANGED <<queueVars, now, cancelled, runVars, stopVars, crashed, setup>>

(* The app dies and starts again, in a later second: tasks, queue and       *)
(* registry are gone.                                                       *)
Crash ==
    /\ setup.crash /\ ~crashed /\ now < setup.seconds
    /\ crashed' = TRUE
    /\ now' = now + 1
    /\ queue' = [k \in Key |-> EmptyQueue]
    /\ nextSequence' = 0
    /\ cancelled' = {}
    /\ pc' = [r \in Request |-> IF pc[r] \in {"idle", "done"} THEN pc[r] ELSE "lost"]
    /\ stopPc' = [r \in Request |-> IF stopPc[r] = "idle" THEN "idle" ELSE "done"]
    /\ cycles' = [c \in Cycle |-> IF cycles[c] = None THEN None ELSE R!Recovered(cycles[c])]
    /\ updated' = [c \in Cycle |->
                     IF cycles[c] # None /\ R!InFlight(cycles[c]) THEN now' ELSE updated[c]]
    /\ attempt' = [r \in Request |-> 0]
    /\ victim' = [r \in Request |-> None]
    /\ stopCycle' = [r \in Request |-> None]
    /\ UNCHANGED <<sequence, own, outcome, setup>>

Tick ==
    /\ now < setup.seconds
    /\ now' = now + 1
    /\ UNCHANGED <<queueVars, cycleVars, cancelled, runVars, stopVars, crashed, setup>>

RunStep(r) ==
    \/ Admitted(r) \/ CancelledInAdmit(r) \/ RunFinish(r)
    \/ Lookup(r) \/ StorageFails(r) \/ Answer(r) \/ Open(r)
    \/ AttemptStarts(r) \/ Generated(r) \/ GenerateFails(r)
    \/ Plan(r) \/ PlanRejected(r) \/ PlanMissing(r) \/ FailureRead(r) \/ FailureRecorded(r)
    \/ StartBuild(r) \/ AppendVersion(r) \/ Render(r) \/ Verify(r)
    \/ Complete(r) \/ Replan(r) \/ Publish(r) \/ Finalize(r)
    \/ FinishError(r) \/ StopOwn(r)
    \/ TerminateLookup(r) \/ TerminateFail(r) \/ TerminateStop(r)
    \/ QuestionStarts(r) \/ QuestionEnds(r)

StopStep(r) == StopCancels(r) \/ StopLooksUp(r) \/ StopApplies(r)

Next ==
    \/ \E r \in Request : SubmitRun(r) \/ RunStep(r) \/ StopReads(r) \/ StopStep(r)
    \/ \E c \in Cycle : McpAnswer(c)
    \/ Crash
    \/ Tick

Spec == Init /\ [][Next]_vars

(* Provider and render calls return, and the runtime polls every task. *)
Fairness == \A r \in Request : WF_vars(RunStep(r)) /\ WF_vars(StopStep(r))

FairSpec == Spec /\ Fairness

-----------------------------------------------------------------------------
(* Properties *)

RunTypeOK ==
    /\ TypeOK
    /\ cycles \in [Cycle -> R!Cycles \cup {None}]
    /\ updated \in [Cycle -> 0 .. now] /\ now \in 0 .. setup.seconds
    /\ cancelled \subseteq Request
    /\ pc \in [Request -> PcStates]
    /\ own \in [Request -> Cycle \cup {None}]
    /\ victim \in [Request -> Cycle \cup {None}]
    /\ attempt \in [Request -> 0 .. setup.attempts]
    /\ outcome \in [Request -> Outcomes]
    /\ stopPc \in [Request -> StopStates]
    /\ stopCycle \in [Request -> Cycle \cup {None}]
    /\ crashed \in BOOLEAN /\ setup \in Setups

(* A run that touches the thread holds its target from admission to finish, *)
(* however a stop, a failure or newer input races it: so at most one run of *)
(* the thread drives cycles at any time.                                    *)
DriverHoldsTarget == \A r \in Request : pc[r] \in Driving => IsRunning(r)

(* Nothing but runs, and stops before a crash, touches the cycles: no       *)
(* question runs, no answers through MCP. A crash leaves a planning cycle   *)
(* behind; when a stop after it leaves that one beside a new cycle, a run   *)
(* that fails ends the latest of the two, and both may be of one second.    *)
RunsAlone == ~setup.mcp /\ setup.questions = {} /\ (crashed => setup.stoppable = {})

(* A cycle that is building, verifying or deciding has a live run working   *)
(* on it: every exit of a run, and recovery after a crash, leaves none that *)
(* nobody will ever move or end.                                            *)
InFlightHasDriver == RunsAlone =>
    \A c \in Cycle :
      cycles[c] # None /\ R!InFlight(cycles[c]) =>
        \E r \in Request : own[r] = c /\ pc[r] \in Driving

(* A run reports a completed exploration only for a cycle that completed,   *)
(* also when a stop or an answer reached the cycle between two of its       *)
(* transitions.                                                             *)
ReportedIsCompleted ==
    \A r \in Request :
      outcome[r] \in {"published", "withheld"} =>
        cycles[own[r]].status = "completed"

(* Each run works under its own claim of the thread, within its attempts,   *)
(* and reports what the cycle it works on came to.                          *)
RunsOwnTheirThread == RunTypeOK /\ DriverHoldsTarget /\ ReportedIsCompleted

(* An ended cycle never changes again, although stops and failures act on   *)
(* cycles they looked up under an earlier lock.                             *)
EndedCycleIsFinal ==
    [][\A c \in Cycle :
         cycles[c] # None /\ ~R!Active(cycles[c]) => cycles'[c] = cycles[c]]_vars

(* Runs that end take their cycle with them or leave it waiting for an      *)
(* answer, which the next run gives: a thread never has two active cycles   *)
(* as long as the app stays up.                                             *)
OneActiveCycle == RunsAlone /\ ~crashed => Cardinality(ActiveCycles) <= 1

(* Every submitted run returns to its caller. *)
RunsReturn == \A r \in Request : pc[r] = "queued" ~> pc[r] \in Ended

=============================================================================
