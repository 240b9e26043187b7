------------------------ MODULE ExplorationRunProofs ------------------------
(* The driver of exploration runs, for any number of requests, cycles,      *)
(* versions and attempts and for every circumstance of ExplorationRun.      *)
(*                                                                          *)
(* BaseInv is inductive under every step: it says which cycle each place of *)
(* a run or a stop works on, and keeps the shape of the admission queues.   *)
(* A restart begins the sequence numbers anew while the stamps of old       *)
(* requests remain, so IInv, the queue's invariant that compares the two,   *)
(* does not survive it: QueueShape is the part that does.                   *)
(*                                                                          *)
(* RunInv adds, where nothing but runs touches the cycles, that every       *)
(* active cycle written since the last crash awaits an answer or is the one *)
(* that the run holding the target works on, and that older ones rest.      *)
EXTENDS ExplorationRun, SequenceTheorems, FiniteSetTheorems, TLAPS

-----------------------------------------------------------------------------
(* The inductive invariant *)

(* The pending interactive request of a target is not the running one,      *)
(* controllers are queued as controllers, and every request in the queue    *)
(* was stamped.                                                             *)
QueueShape(q, stamp) ==
    /\ q.running # None => stamp[q.running] > 0
    /\ q.interactive # None =>
          /\ Interactive(q.interactive) /\ stamp[q.interactive] > 0
          /\ q.interactive # q.running
    /\ \A i \in 1 .. Len(q.controllers) :
          Controller(q.controllers[i]) /\ stamp[q.controllers[i]] > 0

(* Cycles that were opened, and the active ones among them.                 *)
Exists(c) == c \in Cycle /\ cycles[c] # None
ActiveC(c) == Exists(c) /\ R!Active(cycles[c])

(* The places of a run by what it knows of cycles: nothing yet, its own     *)
(* cycle, or the cycle it found to terminate; and the outcomes that report  *)
(* a completion.                                                            *)
Early == {"idle", "queued", "lookup", "open", "question", "ask"}
Terminating == {"terminateFail", "terminateStop"}
Late == {"answer", "attempt", "generate", "plan", "failed", "recordFail", "startBuild",
         "append", "render", "verify", "decideGreen", "decideRed", "publish",
         "finalize", "finishError", "stopOwn"}
Judged == {"published", "withheld"}

(* Run r and the stop of r have the cycle that their place works on, and a  *)
(* reported completion is that of a completed cycle.                        *)
Places(r) ==
    /\ pc[r] \in Early => own[r] = None
    /\ pc[r] \in Late => Exists(own[r])
    /\ pc[r] \in Terminating => Exists(victim[r])
    /\ pc[r] \in {"question", "ask"} => r \in setup.questions
    /\ stopPc[r] = "stop" => Exists(stopCycle[r])
    /\ r \notin setup.stoppable => stopPc[r] = "idle"
    /\ outcome[r] \in Judged => pc[r] \in {"finish", "done", "lost"}
    /\ pc[r] = "publish" \/ outcome[r] \in Judged =>
          Exists(own[r]) /\ Mine(r).status = "completed"

(* A started build is a build in progress.                                  *)
BuildShape(c) == cycles[c] # None /\ cycles[c].buildStarted => R!In(cycles[c], "building")

(* What every step keeps.                                                   *)
BaseInv ==
    /\ RunTypeOK
    /\ \A k \in Key : QueueShape(queue[k], sequence)
    /\ DriverHoldsTarget
    /\ \A r \in Request : Places(r)
    /\ \A c \in Cycle : BuildShape(c)

(* The cycle waits for an answer, which the next run gives.                 *)
Waits(c) == cycles[c].phase = "awaitingInput"

(* An active cycle that was written at b or later. Before any crash b is 0  *)
(* and every active cycle is fresh; a crash moves b past all of them.       *)
Fresh(c, b) == ActiveC(c) /\ updated[c] >= b

(* Run r works on cycle c, or ends it after a failure or a stop. A run may  *)
(* find a cycle to end that is not its own only while no transition is in   *)
(* flight in it.                                                            *)
Holds(r, c) ==
    \/ pc[r] \in Late \cup {"error"} /\ own[r] = c
    \/ pc[r] \in Terminating /\ victim[r] = c /\ (own[r] = c \/ ~R!InFlight(cycles[c]))

(* At most one cycle is fresh.                                              *)
OneFresh(b) == \A c, d \in Cycle : Fresh(c, b) /\ Fresh(d, b) => c = d

(* A fresh cycle waits for an answer or some run holds it.                  *)
FreshIsHeld(b) ==
    \A c \in Cycle : Fresh(c, b) => Waits(c) \/ \E r \in Request : Holds(r, c)

(* An older active cycle is not building, verifying or deciding: recovery   *)
(* after a crash failed those.                                              *)
StaleRests(b) ==
    \A c \in Cycle : ActiveC(c) /\ ~Fresh(c, b) => ~R!InFlight(cycles[c])

(* The places of a run inside its attempts.                                 *)
Attempting == {"attempt", "generate", "plan", "failed", "recordFail", "startBuild",
               "append", "render", "verify", "decideGreen", "decideRed"}

(* What a run may rely on: the fresh cycle is the one it works on, and the  *)
(* cycle it works on is fresh while it is active.                           *)
RunKnows(r, b) ==
    /\ \A d \in Cycle : Fresh(d, b) =>
         /\ pc[r] # "open"
         /\ pc[r] \in Late => d = own[r]
         /\ pc[r] \in Terminating => d = victim[r]
    /\ pc[r] \in Late \ {"answer"} /\ R!Active(Mine(r)) => Fresh(own[r], b)
    /\ pc[r] \in Attempting /\ crashed => R!Active(Mine(r))
    /\ pc[r] = "finalize" /\ R!Active(Mine(r)) => Waits(own[r])

(* The active cycles are told apart by b: what was written since, by the    *)
(* run that holds the target, and what rests.                               *)
Separated(b) ==
    /\ OneFresh(b) /\ FreshIsHeld(b) /\ StaleRests(b)
    /\ \A r \in Request : RunKnows(r, b)

(* The invariant with its witness, where nothing but runs and stops touches *)
(* the cycles.                                                              *)
AloneAt(b) ==
    /\ BaseInv /\ RunsAlone
    /\ b \in 0 .. now /\ (~crashed => b = 0)
    /\ Separated(b)

(* Where nothing but runs and stops touches the cycles, some b tells the    *)
(* active ones apart.                                                       *)
AloneInv == RunsAlone => \E b \in 0 .. now : (~crashed => b = 0) /\ Separated(b)

(* The inductive invariant of the driver.                                   *)
RunInv == BaseInv /\ AloneInv

-----------------------------------------------------------------------------
(* What one step does: to the cycles, and to the run that takes it *)

(* What any step may do to the cycles: none disappears and an ended one     *)
(* does not change.                                                         *)
Lasting ==
    /\ cycles' \in [Cycle -> R!Cycles \cup {None}]
    /\ updated' \in [Cycle -> 0 .. now']
    /\ \A c \in Cycle : BuildShape(c)'
    /\ \A c \in Cycle : cycles[c] # None =>
         /\ cycles'[c] # None
         /\ ~R!Active(cycles[c]) => cycles'[c] = cycles[c]

(* The active cycle c becomes n, which takes the stamp of the clock.        *)
Writes(c, n) ==
    /\ ActiveC(c)
    /\ n \in R!Cycles /\ (n.buildStarted => R!In(n, "building"))
    /\ cycles' = [cycles EXCEPT ![c] = n]
    /\ updated' = [updated EXCEPT ![c] = now]

(* Run r goes to another place; no other run and no queue changes.          *)
RunMoves(r, to) ==
    /\ RunFrame
    /\ to \in PcStates
    /\ pc' = [pc EXCEPT ![r] = to]
    /\ own' \in [Request -> Cycle \cup {None}] /\ victim' \in [Request -> Cycle \cup {None}]
    /\ attempt' \in [Request -> 0 .. setup.attempts] /\ outcome' \in [Request -> Outcomes]
    /\ \A s \in Request : s # r =>
         own'[s] = own[s] /\ victim'[s] = victim[s] /\ outcome'[s] = outcome[s]

(* Run r, at work on its own cycle, writes that cycle or none, and goes on  *)
(* or fails.                                                                *)
OwnStep(r, to) ==
    /\ RunMoves(r, to) /\ UNCHANGED <<own, victim>>
    /\ pc[r] \in Late /\ to \in Late \cup {"error"}
    /\ \/ UNCHANGED cycleVars /\ (pc[r] = "answer" => to = "error")
       \/ \E m : Writes(own[r], m)
    /\ to \in Attempting =>
         pc[r] \in Attempting \cup {"answer"} /\ (R!Active(Mine(r)) => R!Active(Mine(r)'))
    /\ to = "finalize" => (R!Active(Mine(r)') => Mine(r)'.phase = "awaitingInput")
    /\ to = "publish" => Mine(r)'.status = "completed"
    /\ outcome'[r] \notin Judged

(* The type and the shape of one queue.                                     *)
ShapeOK(q, stamp) == q \in KeyQueue /\ QueueShape(q, stamp)

-----------------------------------------------------------------------------
(* The transitions of a cycle *)

(* Every transition of the reducer yields a cycle.                          *)
LEMMA ReducerTypes ==
    ASSUME NEW c \in R!Cycles
    PROVE  /\ R!Answered(c) \in R!Cycles /\ R!Failed(c) \in R!Cycles
           /\ R!Stopped(c) \in R!Cycles /\ R!BuildStarted(c) \in R!Cycles
           /\ R!Recovered(c) \in R!Cycles
           /\ \A v \in Version : R!Appended(c, v) \in R!Cycles
           /\ \A v \in R!Verification : R!Verified(c, v) \in R!Cycles
           /\ \A d \in {"complete", "replan"} : R!Decided(c, d) \in R!Cycles
           /\ \A p \in R!Plans : R!Planned(c, p) \in R!Cycles
           /\ \A n \in R!Cycles : R!Saved(c, n) \in R!Cycles
<1> USE DEF R!Cycles, R!Phases, R!Statuses
<1>1. R!Answered(c) \in R!Cycles /\ R!Failed(c) \in R!Cycles
  BY DEF R!Answered, R!Failed
<1>2. R!Stopped(c) \in R!Cycles /\ R!BuildStarted(c) \in R!Cycles
  BY DEF R!Stopped, R!BuildStarted, R!Ended
<1>3. R!Recovered(c) \in R!Cycles
  BY DEF R!Recovered, R!Ended
<1>4. \A v \in Version : R!Appended(c, v) \in R!Cycles
  BY DEF R!Appended
<1>5. \A v \in R!Verification : R!Verified(c, v) \in R!Cycles
  BY DEF R!Verified
<1>6. \A d \in {"complete", "replan"} : R!Decided(c, d) \in R!Cycles
  BY DEF R!Decided, R!Ended, R!NoVerification
<1>7. ASSUME NEW p \in R!Plans PROVE R!Planned(c, p) \in R!Cycles
  <2>1. c.used + p.cost \in Nat /\ p.action \in R!PlanActions
    BY DEF R!Plans
  <2>2. CASE p.action = "build"
    BY <2>1, <2>2 DEF R!Planned, R!NoVerification
  <2>3. CASE p.action = "ask"
    BY <2>3 DEF R!Planned, R!Asking
  <2>4. CASE p.action = "stop"
    BY <2>4 DEF R!Planned, R!Ended
  <2> QED BY <2>1, <2>2, <2>3, <2>4 DEF R!PlanActions
<1>8. \A n \in R!Cycles : R!Saved(c, n) \in R!Cycles
  BY DEF R!Saved
<1> QED BY <1>1, <1>2, <1>3, <1>4, <1>5, <1>6, <1>7, <1>8

(* What each transition does to status, phase and the started build.        *)
LEMMA ReducerShapes ==
    ASSUME NEW c \in R!Cycles
    PROVE  /\ R!Answered(c).status = c.status /\ R!Answered(c).phase = "planning"
           /\ R!Answered(c).buildStarted = c.buildStarted
           /\ R!Failed(c).status = c.status /\ R!Failed(c).phase = "planning"
           /\ ~R!Failed(c).buildStarted
           /\ R!Stopped(c).status = "stopped" /\ ~R!Stopped(c).buildStarted
           /\ R!BuildStarted(c).status = c.status /\ R!BuildStarted(c).phase = c.phase
           /\ \A v \in Version :
                /\ R!Appended(c, v).status = c.status /\ ~R!Appended(c, v).buildStarted
           /\ \A v \in R!Verification :
                /\ R!Verified(c, v).status = c.status
                /\ R!Verified(c, v).buildStarted = c.buildStarted
           /\ R!Decided(c, "complete").status = "completed"
           /\ R!Decided(c, "complete").buildStarted = c.buildStarted
           /\ R!Decided(c, "replan").status = c.status
           /\ R!Decided(c, "replan").buildStarted = c.buildStarted
           /\ \A p \in R!Plans :
                /\ p.action = "build" => /\ R!Planned(c, p).status = c.status
                                         /\ ~R!Planned(c, p).buildStarted
                /\ p.action = "ask" => /\ R!Planned(c, p).status = c.status
                                       /\ R!Planned(c, p).phase = "awaitingInput"
                                       /\ R!Planned(c, p).buildStarted = c.buildStarted
                /\ p.action = "stop" => /\ R!Planned(c, p).status = "stopped"
                                        /\ R!Planned(c, p).buildStarted = c.buildStarted
<1> USE DEF R!Cycles
<1>1. /\ R!Answered(c).status = c.status /\ R!Answered(c).phase = "planning"
      /\ R!Answered(c).buildStarted = c.buildStarted
      /\ R!Failed(c).status = c.status /\ R!Failed(c).phase = "planning"
      /\ R!Failed(c).buildStarted = FALSE
  BY DEF R!Answered, R!Failed
<1>2. /\ R!Stopped(c).status = "stopped" /\ R!Stopped(c).buildStarted = FALSE
      /\ R!BuildStarted(c).status = c.status /\ R!BuildStarted(c).phase = c.phase
  BY DEF R!Stopped, R!BuildStarted, R!Ended
<1>3. \A v \in Version :
         R!Appended(c, v).status = c.status /\ R!Appended(c, v).buildStarted = FALSE
  BY DEF R!Appended
<1>4. \A v \in R!Verification : /\ R!Verified(c, v).status = c.status
                                /\ R!Verified(c, v).buildStarted = c.buildStarted
  BY DEF R!Verified
<1>5. /\ R!Decided(c, "complete").status = "completed"
      /\ R!Decided(c, "complete").buildStarted = c.buildStarted
      /\ R!Decided(c, "replan").status = c.status
      /\ R!Decided(c, "replan").buildStarted = c.buildStarted
  BY DEF R!Decided, R!Ended
<1>6. ASSUME NEW p \in R!Plans
      PROVE  /\ p.action = "build" => /\ R!Planned(c, p).status = c.status
                                      /\ ~R!Planned(c, p).buildStarted
             /\ p.action = "ask" => /\ R!Planned(c, p).status = c.status
                                    /\ R!Planned(c, p).phase = "awaitingInput"
                                    /\ R!Planned(c, p).buildStarted = c.buildStarted
             /\ p.action = "stop" => /\ R!Planned(c, p).status = "stopped"
                                     /\ R!Planned(c, p).buildStarted = c.buildStarted
  <2>1. CASE p.action = "build"
    BY <2>1 DEF R!Planned
  <2>2. CASE p.action = "ask"
    BY <2>2 DEF R!Planned, R!Asking
  <2>3. CASE p.action = "stop"
    BY <2>3 DEF R!Planned, R!Ended
  <2> QED BY <2>1, <2>2, <2>3
<1> QED BY <1>1, <1>2, <1>3, <1>4, <1>5, <1>6

-----------------------------------------------------------------------------
(* Steps and the base invariant *)

(* A step that leaves the cycles alone lets them last.                      *)
LEMMA QuietLasts == BaseInv /\ UNCHANGED cycleVars /\ UNCHANGED now => Lasting
BY DEF BaseInv, RunTypeOK, cycleVars, Lasting, BuildShape

(* Writing an active cycle lets every cycle last.                           *)
LEMMA WriteLasts ==
    ASSUME BaseInv, NEW c, NEW n, Writes(c, n), UNCHANGED now PROVE Lasting
<1>1. /\ c \in Cycle /\ cycles[c] # None
      /\ cycles \in [Cycle -> R!Cycles \cup {None}]
      /\ updated \in [Cycle -> 0 .. now] /\ now \in Nat
      /\ \A d \in Cycle : BuildShape(d)
      /\ n # None
  BY NoneIsNoCycle, SetupAssumption DEF BaseInv, RunTypeOK, Writes, ActiveC,
     Exists, SetupType
<1>2. /\ cycles'[c] = n /\ \A d \in Cycle : d # c => cycles'[d] = cycles[d]
      /\ cycles' \in [Cycle -> R!Cycles \cup {None}]
      /\ updated' \in [Cycle -> 0 .. now']
  BY <1>1 DEF Writes
<1> QED BY <1>1, <1>2 DEF Lasting, BuildShape, Writes, ActiveC, Exists

(* A step of one run keeps the base invariant when the run is where it may  *)
(* be.                                                                      *)
LEMMA MoveKeepsBase ==
    ASSUME BaseInv, NEW r \in Request, NEW to, RunMoves(r, to), Lasting,
           to \in Driving => IsRunning(r), Places(r)'
    PROVE  BaseInv'
<1>1. /\ UNCHANGED <<queue, sequence, nextSequence, now, cancelled, stopPc, stopCycle, crashed, setup>>
      /\ pc \in [Request -> PcStates] /\ pc'[r] = to
      /\ \A s \in Request : s # r => pc'[s] = pc[s]
  BY DEF RunMoves, RunFrame, queueVars, stopVars, BaseInv, RunTypeOK
<1>2. RunTypeOK'
  BY <1>1 DEF BaseInv, RunTypeOK, RunMoves, Lasting, TypeOK
<1>3. \A k \in Key : QueueShape(queue[k], sequence)'
  BY <1>1 DEF BaseInv
<1>4. DriverHoldsTarget'
  BY <1>1 DEF BaseInv, DriverHoldsTarget, IsRunning, QueueOf
<1>5. ASSUME NEW s \in Request, s # r PROVE Places(s)'
  <2>1. Places(s) /\ \A c : Exists(c) => Exists(c)'
    BY DEF BaseInv, Lasting, Exists
  <2>2. pc[s] = "publish" \/ outcome[s] \in Judged => Mine(s)' = Mine(s)
    BY <2>1, <1>5 DEF Places, Lasting, Exists, R!Active, Mine, RunMoves
  <2> QED BY <1>1, <1>5, <2>1, <2>2 DEF Places, RunMoves
<1> QED BY <1>2, <1>3, <1>4, <1>5 DEF BaseInv, Lasting

(* Saving a transition of an active cycle writes it; recomputation of its   *)
(* fault fields does not touch status, phase and build.                     *)
LEMMA OwnSaved ==
    ASSUME BaseInv, NEW c \in Cycle, ActiveC(c), NEW n \in R!Cycles, Save(c, n),
           n.buildStarted => R!In(n, "building")
    PROVE  \E m : /\ Writes(c, m)
                  /\ m.status = n.status /\ m.phase = n.phase /\ m.buildStarted = n.buildStarted
<1> DEFINE m == R!Saved(cycles[c], n)
<1>1. m \in R!Cycles
  BY ReducerTypes DEF BaseInv, RunTypeOK, ActiveC, Exists
<1>2. m.status = n.status /\ m.phase = n.phase /\ m.buildStarted = n.buildStarted
  BY DEF R!Saved, R!Cycles
<1>3. cycles' = [cycles EXCEPT ![c] = m] /\ updated' = [updated EXCEPT ![c] = now]
  BY DEF Save
<1> HIDE DEF m
<1>4. Writes(c, m)
  BY <1>1, <1>2, <1>3 DEF Writes, R!In, R!Active
<1> QED BY <1>2, <1>4

(* What the base invariant says of a run that works on its own cycle.       *)
LEMMA OwnFacts ==
    ASSUME BaseInv, NEW r \in Request, pc[r] \in Late
    PROVE  /\ own[r] \in Cycle /\ Mine(r) \in R!Cycles /\ Exists(own[r])
           /\ Mine(r).buildStarted => R!In(Mine(r), "building")
           /\ outcome[r] \notin Judged
           /\ R!Active(Mine(r)) => ActiveC(own[r])
BY DEF BaseInv, RunTypeOK, Places, Late, Judged, Mine, Exists, ActiveC, BuildShape

(* A step that goes from one place to another, and keeps its cycle, moves   *)
(* the run.                                                                 *)
LEMMA MovePc ==
    ASSUME BaseInv, NEW r \in Request, NEW from, NEW to \in PcStates, Goto(r, from, to),
           RunFrame,
           attempt' \in [Request -> 0 .. setup.attempts],
           outcome' \in [Request -> Outcomes],
           \A s \in Request : s # r => outcome'[s] = outcome[s],
           UNCHANGED <<own, victim>>
    PROVE  RunMoves(r, to)
BY DEF Goto, RunMoves, BaseInv, RunTypeOK

(* A step of a run on its own cycle keeps the base invariant.               *)
LEMMA OwnStepKeepsBase ==
    ASSUME BaseInv, NEW r \in Request, NEW to, OwnStep(r, to)
    PROVE  Lasting /\ BaseInv'
<1>1. UNCHANGED now
  BY DEF OwnStep, RunMoves, RunFrame
<1>2. Lasting
  BY <1>1, QuietLasts, WriteLasts DEF OwnStep
<1>3. IsRunning(r)
  BY DEF BaseInv, DriverHoldsTarget, OwnStep, Late, Driving
<1>4. Places(r)'
  BY <1>1, <1>2, OwnFacts DEF OwnStep, RunMoves, RunFrame, stopVars, Lasting,
     Places, Exists, BaseInv, RunTypeOK, Early, Late, Terminating, Mine
<1> QED BY <1>2, <1>3, <1>4, MoveKeepsBase DEF OwnStep

(* A run that saves a transition of its active cycle writes that cycle.     *)
LEMMA SavesOwn ==
    ASSUME BaseInv, NEW r \in Request, pc[r] \in Late, R!Active(Mine(r)), NEW n \in R!Cycles,
           Save(own[r], n), UNCHANGED own, n.buildStarted => R!In(n, "building")
    PROVE  /\ \E m : Writes(own[r], m)
           /\ Mine(r)' \in R!Cycles /\ Mine(r)'.status = n.status /\ Mine(r)'.phase = n.phase
<1>1. own[r] \in Cycle /\ ActiveC(own[r])
  BY OwnFacts
<1>2. PICK m : /\ Writes(own[r], m)
               /\ m.status = n.status /\ m.phase = n.phase /\ m.buildStarted = n.buildStarted
  BY <1>1, OwnSaved
<1>3. cycles'[own[r]] = m
  BY <1>1, <1>2 DEF Writes, BaseInv, RunTypeOK
<1> QED BY <1>2, <1>3 DEF Writes, Mine

(* A step of the run that leaves the cycles as they are is a step on its    *)
(* own cycle.                                                               *)
LEMMA IdleStep ==
    ASSUME BaseInv, NEW r \in Request, NEW to \in PcStates, RunMoves(r, to),
           UNCHANGED <<cycles, updated, own, victim>>,
           pc[r] \in Late, to \in Late \cup {"error"}, to # "publish", to # "finalize",
           pc[r] = "answer" => to = "error",
           to \in Attempting => pc[r] \in Attempting,
           outcome'[r] \notin Judged
    PROVE  OwnStep(r, to)
BY DEF OwnStep, cycleVars, Mine, R!Active

(* A transition of its own cycle, applied when its guard holds and failing  *)
(* the run otherwise, is a step on its own cycle.                           *)
LEMMA TransitionStep ==
    ASSUME BaseInv, NEW r \in Request, NEW guard, NEW n, NEW from, NEW to \in PcStates,
           Transition(r, guard, n, from, to),
           UNCHANGED <<own, victim, outcome>>, attempt' \in [Request -> 0 .. setup.attempts],
           from \in Late, to \in Late \ {"finalize"},
           guard \in BOOLEAN,
           guard => /\ R!Active(Mine(r)) /\ n \in R!Cycles
                    /\ n.buildStarted => R!In(n, "building")
                    /\ to \in Attempting => R!Active(n) /\ from \in Attempting \cup {"answer"}
                    /\ to = "publish" => n.status = "completed"
    PROVE  \E x : OwnStep(r, x)
<1>1. pc[r] = from /\ outcome'[r] \notin Judged /\ RunFrame
      /\ outcome' \in [Request -> Outcomes]
  BY OwnFacts DEF Transition, BaseInv, RunTypeOK
<1>2. CASE guard
  <2>1. Goto(r, from, to) /\ Save(own[r], n)
    BY <1>2 DEF Transition
  <2>2. RunMoves(r, to)
    BY <1>1, <2>1, MovePc
  <2>3. /\ \E m : Writes(own[r], m)
        /\ Mine(r)'.status = n.status
    BY <1>1, <1>2, <2>1, SavesOwn
  <2> QED BY <1>1, <1>2, <2>2, <2>3 DEF OwnStep, R!Active
<1>3. CASE ~guard
  <2>1. Goto(r, from, "error") /\ UNCHANGED cycleVars
    BY <1>3 DEF Transition
  <2>2. RunMoves(r, "error")
    BY <1>1, <2>1, MovePc DEF PcStates, Driving
  <2> QED BY <1>1, <2>1, <2>2, IdleStep DEF cycleVars, Attempting, Late, PcStates,
     Driving
<1> QED BY <1>2, <1>3

-----------------------------------------------------------------------------
(* The steps of a run on its own cycle *)

(* The first attempt is within the attempts of the setup.                   *)
LEMMA FirstAttemptType ==
    ASSUME BaseInv, NEW r \in Request, FirstAttempt(r)
    PROVE  attempt' \in [Request -> 0 .. setup.attempts]
BY SetupAssumption DEF FirstAttempt, BaseInv, RunTypeOK, SetupType

(* So are an answer to the waiting cycle,                                   *)
LEMMA AnswerStep ==
    ASSUME BaseInv, NEW r \in Request, Answer(r) PROVE \E x : OwnStep(r, x)
<1> DEFINE n == R!Answered(Mine(r))
<1>1. /\ Transition(r, R!CanAnswer(Mine(r)), n, "answer", "attempt")
      /\ FirstAttempt(r) /\ UNCHANGED <<own, victim, outcome>> /\ pc[r] = "answer"
  BY DEF Answer, Transition
<1>2. Mine(r) \in R!Cycles /\ (Mine(r).buildStarted => R!In(Mine(r), "building"))
  BY <1>1, OwnFacts DEF Late
<1>3. /\ n \in R!Cycles /\ n.status = Mine(r).status /\ n.buildStarted = Mine(r).buildStarted
  BY <1>2, ReducerTypes, ReducerShapes
<1> HIDE DEF n
<1>4. R!CanAnswer(Mine(r)) => /\ R!Active(Mine(r)) /\ R!Active(n) /\ ~n.buildStarted
                              /\ R!CanAnswer(Mine(r)) \in BOOLEAN
  BY <1>2, <1>3 DEF R!CanAnswer, R!In, R!Active
<1>5. attempt' \in [Request -> 0 .. setup.attempts]
  BY <1>1, FirstAttemptType
<1> QED BY <1>1, <1>3, <1>4, <1>5, TransitionStep
   DEF Late, Attempting, PcStates, Driving, R!CanAnswer, R!In

(* the start of a build,                                                    *)
LEMMA StartBuildStep ==
    ASSUME BaseInv, NEW r \in Request, StartBuild(r) PROVE \E x : OwnStep(r, x)
<1> DEFINE n == R!BuildStarted(Mine(r))
           g == R!CanStartBuild(Mine(r), Mine(r).current)
<1>1. /\ Transition(r, g, n, "startBuild", "append")
      /\ UNCHANGED <<own, victim, attempt, outcome>> /\ pc[r] = "startBuild"
  BY DEF StartBuild, Transition
<1>2. Mine(r) \in R!Cycles
  BY <1>1, OwnFacts DEF Late
<1>3. /\ n \in R!Cycles /\ n.status = Mine(r).status /\ n.phase = Mine(r).phase
  BY <1>2, ReducerTypes, ReducerShapes
<1>4. g => R!Active(Mine(r)) /\ R!Active(n) /\ R!In(n, "building")
  BY <1>2, <1>3 DEF R!CanStartBuild, R!In, R!Active
<1>5. attempt' \in [Request -> 0 .. setup.attempts] /\ g \in BOOLEAN
  BY <1>1 DEF BaseInv, RunTypeOK, R!CanStartBuild, R!In
<1> HIDE DEF n, g
<1> QED BY <1>1, <1>3, <1>4, <1>5, TransitionStep
   DEF Late, Attempting, PcStates, Driving

(* the record of a version,                                                 *)
LEMMA AppendStep ==
    ASSUME BaseInv, NEW r \in Request, AppendVersion(r) PROVE \E x : OwnStep(r, x)
<1>1. PICK v \in Version :
        Transition(r, R!CanAppend(Mine(r)), R!Appended(Mine(r), v), "append", "render")
  BY DEF AppendVersion
<1> DEFINE n == R!Appended(Mine(r), v)
           g == R!CanAppend(Mine(r))
<1>2. UNCHANGED <<own, victim, attempt, outcome>> /\ pc[r] = "append"
  BY <1>1 DEF AppendVersion, Transition
<1>3. Mine(r) \in R!Cycles
  BY <1>2, OwnFacts DEF Late
<1>4. /\ n \in R!Cycles /\ n.status = Mine(r).status /\ ~n.buildStarted
  BY <1>3, ReducerTypes, ReducerShapes
<1>5. g => R!Active(Mine(r)) /\ R!Active(n)
  BY <1>4 DEF R!CanAppend, R!In, R!Active
<1>6. attempt' \in [Request -> 0 .. setup.attempts] /\ g \in BOOLEAN
  BY <1>2, <1>3 DEF BaseInv, RunTypeOK, R!CanAppend, R!In, R!Cycles
<1>7. Transition(r, g, n, "append", "render")
  BY <1>1
<1> HIDE DEF n, g
<1> QED BY <1>7, <1>2, <1>4, <1>5, <1>6, TransitionStep
   DEF Late, Attempting, PcStates, Driving

(* the decision that completes the cycle.                                   *)
LEMMA CompleteStep ==
    ASSUME BaseInv, NEW r \in Request, Complete(r) PROVE \E x : OwnStep(r, x)
<1> DEFINE n == R!Decided(Mine(r), "complete")
           g == R!CanDecide(Mine(r), "complete")
<1>1. /\ Transition(r, g, n, "decideGreen", "publish")
      /\ UNCHANGED <<own, victim, attempt, outcome>> /\ pc[r] = "decideGreen"
  BY DEF Complete, Transition
<1>2. Mine(r) \in R!Cycles /\ (Mine(r).buildStarted => R!In(Mine(r), "building"))
  BY <1>1, OwnFacts DEF Late
<1>3. /\ n \in R!Cycles /\ n.status = "completed" /\ n.buildStarted = Mine(r).buildStarted
  BY <1>2, ReducerTypes, ReducerShapes
<1>4. g => R!Active(Mine(r)) /\ ~n.buildStarted
  BY <1>2, <1>3 DEF R!CanDecide, R!In, R!Active
<1>5. attempt' \in [Request -> 0 .. setup.attempts] /\ g \in BOOLEAN
  BY <1>1 DEF BaseInv, RunTypeOK, R!CanDecide, R!In
<1> HIDE DEF n, g
<1> QED BY <1>1, <1>3, <1>4, <1>5, TransitionStep
   DEF Late, Attempting, PcStates, Driving

(* A step that only goes from one place to another is one, too,             *)
LEMMA QuietStep ==
    ASSUME BaseInv, NEW r \in Request, NEW from, NEW to \in PcStates, Goto(r, from, to),
           UNCHANGED <<cycleVars, own, victim, attempt, outcome>>, RunFrame,
           from \in Late, to \in Late \cup {"error"}, to # "publish", to # "finalize",
           from = "answer" => to = "error",
           to \in Attempting => from \in Attempting
    PROVE  OwnStep(r, to)
<1>1. pc[r] = from
  BY DEF Goto
<1>2. RunMoves(r, to)
  BY MovePc DEF BaseInv, RunTypeOK
<1> QED BY <1>1, <1>2, IdleStep, OwnFacts DEF cycleVars

(* as are a plan that is refused or missing, a render and a failure of      *)
(* storage.                                                                 *)
LEMMA QuietSteps ==
    ASSUME BaseInv, NEW r \in Request,
           \/ PlanRejected(r) \/ PlanMissing(r) \/ Render(r)
           \/ StorageFails(r) /\ pc[r] \in Late
    PROVE  \E x : OwnStep(r, x)
<1> USE DEF Late, Attempting, PcStates, Driving
<1>1. CASE PlanRejected(r)
  BY <1>1, QuietStep DEF PlanRejected
<1>2. CASE PlanMissing(r)
  BY <1>2, QuietStep DEF PlanMissing
<1>3. CASE Render(r)
  BY <1>3, QuietStep DEF Render
<1>4. CASE StorageFails(r) /\ pc[r] \in Late
  <2>1. PICK from \in Fallible : Goto(r, from, "error")
    BY <1>4 DEF StorageFails
  <2>2. pc[r] = from
    BY <2>1 DEF Goto
  <2> QED BY <1>4, <2>1, <2>2, QuietStep DEF StorageFails
<1> QED BY <1>1, <1>2, <1>3, <1>4

(* An attempt that begins asks the model, or finds the run cancelled.       *)
LEMMA AttemptStartsStep ==
    ASSUME BaseInv, NEW r \in Request, AttemptStarts(r) PROVE \E x : OwnStep(r, x)
<1> USE DEF Late, Attempting, PcStates, Driving
<1> DEFINE to == IF r \in cancelled THEN "stopOwn" ELSE "generate"
<1>1. /\ Goto(r, "attempt", to) /\ UNCHANGED <<cycles, updated, own, victim, attempt>>
      /\ RunFrame /\ pc[r] = "attempt"
  BY DEF AttemptStarts, Goto, cycleVars
<1>2. /\ attempt' \in [Request -> 0 .. setup.attempts] /\ outcome' \in [Request -> Outcomes]
      /\ \A s \in Request : s # r => outcome'[s] = outcome[s]
      /\ outcome'[r] \notin Judged
  BY <1>1, OwnFacts DEF AttemptStarts, Return, BaseInv, RunTypeOK, Outcomes, Judged
<1>3. RunMoves(r, to)
  BY <1>1, <1>2, MovePc
<1> QED BY <1>1, <1>2, <1>3, IdleStep

(* Where a run goes when an attempt failed: to the next one or to its       *)
(* error.                                                                   *)
LEMMA NextAttemptTypes ==
    ASSUME BaseInv, NEW r \in Request, NEW from, pc[r] \in Late, NextAttempt(r, from)
    PROVE  /\ \E to \in {"attempt", "finishError"} : Goto(r, from, to)
           /\ attempt' \in [Request -> 0 .. setup.attempts]
           /\ outcome' \in [Request -> Outcomes]
           /\ \A s \in Request : s # r => outcome'[s] = outcome[s]
           /\ outcome'[r] \notin Judged
<1>1. /\ setup.attempts \in Nat \ {0} /\ attempt \in [Request -> 0 .. setup.attempts]
      /\ outcome \in [Request -> Outcomes] /\ outcome[r] \notin Judged
  BY SetupAssumption, OwnFacts DEF BaseInv, RunTypeOK, SetupType
<1>2. CASE attempt[r] = setup.attempts
  BY <1>1, <1>2 DEF NextAttempt, Return, Outcomes, Judged
<1>3. CASE attempt[r] # setup.attempts
  BY <1>1, <1>3 DEF NextAttempt
<1> QED BY <1>2, <1>3

(* A failed attempt reads its cycle: it records the failure, or goes on     *)
(* when there is nothing to record,                                         *)
LEMMA FailureReadStep ==
    ASSUME BaseInv, NEW r \in Request, FailureRead(r) PROVE \E x : OwnStep(r, x)
<1> USE DEF Late, Attempting, PcStates, Driving
<1>1. /\ UNCHANGED <<cycles, updated, own, victim>> /\ RunFrame /\ pc[r] = "failed"
  BY DEF FailureRead, Goto, cycleVars, NextAttempt
<1>2. CASE Goto(r, "failed", "recordFail") /\ UNCHANGED <<attempt, outcome>>
  BY <1>1, <1>2, QuietStep DEF cycleVars
<1>3. CASE NextAttempt(r, "failed")
  <2>1. PICK to \in {"attempt", "finishError"} : Goto(r, "failed", to)
    BY <1>1, <1>3, NextAttemptTypes
  <2>2. RunMoves(r, to) /\ outcome'[r] \notin Judged
    BY <1>1, <1>3, <2>1, NextAttemptTypes, MovePc
  <2> QED BY <1>1, <2>1, <2>2, IdleStep
<1> QED BY <1>2, <1>3 DEF FailureRead

(* The run records a transition of its own cycle and goes on as NextAttempt *)
(* says.                                                                    *)
LEMMA RetryStep ==
    ASSUME BaseInv, NEW r \in Request, NEW from, NEW n,
           from \in Attempting, pc[r] = from, R!Active(Mine(r)), n \in R!Cycles,
           R!Active(n), ~n.buildStarted,
           Save(own[r], n), NextAttempt(r, from), UNCHANGED <<own, victim>>, RunFrame
    PROVE  \E x : OwnStep(r, x)
<1> USE DEF Late, Attempting, PcStates, Driving
<1>1. PICK to \in {"attempt", "finishError"} : Goto(r, from, to)
  BY NextAttemptTypes
<1>2. RunMoves(r, to) /\ outcome'[r] \notin Judged
  BY <1>1, NextAttemptTypes, MovePc
<1>3. (\E m : Writes(own[r], m)) /\ Mine(r)'.status = n.status
  BY SavesOwn
<1> QED BY <1>1, <1>2, <1>3 DEF OwnStep, R!Active

(* and records it under a lock of its own, or fails when the cycle can no   *)
(* longer fail.                                                             *)
LEMMA FailureRecordedStep ==
    ASSUME BaseInv, NEW r \in Request, FailureRecorded(r) PROVE \E x : OwnStep(r, x)
<1> USE DEF Late, Attempting, PcStates, Driving
<1> DEFINE n == R!Failed(Mine(r))
<1>1. /\ UNCHANGED <<own, victim>> /\ RunFrame /\ pc[r] = "recordFail" /\ Mine(r) \in R!Cycles
  BY OwnFacts DEF FailureRecorded
<1>2. CASE R!CanFail(Mine(r))
  <2>1. NextAttempt(r, "recordFail") /\ Save(own[r], n)
    BY <1>2 DEF FailureRecorded
  <2>2. n \in R!Cycles /\ n.status = Mine(r).status /\ ~n.buildStarted
    BY <1>1, ReducerTypes, ReducerShapes
  <2>3. R!Active(Mine(r)) /\ R!Active(n)
    BY <1>2, <2>2 DEF R!CanFail, R!Active
  <2> HIDE DEF n
  <2> QED BY <1>1, <2>1, <2>2, <2>3, RetryStep
<1>3. CASE ~R!CanFail(Mine(r))
  BY <1>1, <1>3, QuietStep DEF FailureRecorded
<1> QED BY <1>2, <1>3

(* A red verification sends the cycle back to planning.                     *)
LEMMA ReplanStep ==
    ASSUME BaseInv, NEW r \in Request, Replan(r) PROVE \E x : OwnStep(r, x)
<1> USE DEF Late, Attempting, PcStates, Driving
<1> DEFINE n == R!Decided(Mine(r), "replan")
<1>1. /\ UNCHANGED <<own, victim>> /\ RunFrame /\ pc[r] = "decideRed" /\ Mine(r) \in R!Cycles
      /\ Mine(r).buildStarted => R!In(Mine(r), "building")
  BY OwnFacts DEF Replan
<1>2. CASE R!CanDecide(Mine(r), "replan")
  <2>1. NextAttempt(r, "decideRed") /\ Save(own[r], n)
    BY <1>2 DEF Replan
  <2>2. n \in R!Cycles /\ n.status = Mine(r).status /\ n.buildStarted = Mine(r).buildStarted
    BY <1>1, ReducerTypes, ReducerShapes
  <2>3. R!Active(Mine(r)) /\ R!Active(n) /\ ~n.buildStarted
    BY <1>1, <1>2, <2>2 DEF R!CanDecide, R!In, R!Active
  <2> HIDE DEF n
  <2> QED BY <1>1, <2>1, <2>2, <2>3, RetryStep
<1>3. CASE ~R!CanDecide(Mine(r), "replan")
  BY <1>1, <1>3, QuietStep DEF Replan
<1> QED BY <1>2, <1>3

(* A run out of attempts fails its cycle once more before it stops it.      *)
LEMMA FinishErrorStep ==
    ASSUME BaseInv, NEW r \in Request, FinishError(r) PROVE \E x : OwnStep(r, x)
<1> USE DEF Late, Attempting, PcStates, Driving
<1> DEFINE n == R!Failed(Mine(r))
<1>1. /\ UNCHANGED <<own, victim, attempt, outcome>> /\ RunFrame /\ pc[r] = "finishError"
      /\ Goto(r, "finishError", "stopOwn")
      /\ SaveIf(R!CanFail(Mine(r)), own[r], n)
  BY DEF FinishError, Goto
<1>2. Mine(r) \in R!Cycles
  BY <1>1, OwnFacts
<1>3. CASE R!CanFail(Mine(r))
  <2>1. Save(own[r], n)
    BY <1>1, <1>3 DEF SaveIf
  <2>2. n \in R!Cycles /\ ~n.buildStarted /\ R!Active(Mine(r))
    BY <1>2, <1>3, ReducerTypes, ReducerShapes DEF R!CanFail
  <2> HIDE DEF n
  <2>3. \E m : Writes(own[r], m)
    BY <1>1, <2>1, <2>2, SavesOwn
  <2>4. RunMoves(r, "stopOwn") /\ outcome'[r] \notin Judged
    BY <1>1, MovePc, OwnFacts DEF BaseInv, RunTypeOK
  <2> QED BY <1>1, <2>3, <2>4 DEF OwnStep
<1>4. CASE ~R!CanFail(Mine(r))
  BY <1>1, <1>4, QuietStep DEF SaveIf
<1> QED BY <1>3, <1>4

(* An accepted plan asks, stops or builds.                                  *)
LEMMA PlanOwnStep ==
    ASSUME BaseInv, NEW r \in Request, Plan(r) PROVE \E x : OwnStep(r, x)
<1> USE DEF Late, Attempting, PcStates, Driving
<1> DEFINE p(a) == [action |-> a, source |-> Mine(r).current, wellFormed |-> TRUE,
                    cost |-> IF a = "build" THEN 1 ELSE 0]
<1>1. PICK a \in R!PlanActions :
        /\ R!CanPlan(Mine(r), p(a))
        /\ Goto(r, "plan", PlanStep[a])
        /\ Save(own[r], R!Planned(Mine(r), p(a)))
        /\ Return(r, PlanOutcome[a])
  BY DEF Plan
<1> DEFINE n == R!Planned(Mine(r), p(a))
<1>2. /\ UNCHANGED <<own, victim, attempt>> /\ RunFrame /\ pc[r] = "plan" /\ Mine(r) \in R!Cycles
      /\ Mine(r).buildStarted => R!In(Mine(r), "building")
  BY OwnFacts DEF Plan
<1>3. p(a) \in R!Plans /\ p(a).action = a
  BY <1>2 DEF R!Plans, R!Cycles, R!PlanActions
<1> HIDE DEF p
<1>4. R!In(Mine(r), "planning") /\ R!Active(Mine(r)) /\ ~Mine(r).buildStarted
  BY <1>1, <1>2 DEF R!CanPlan, R!In
<1>5. /\ n \in R!Cycles /\ ~n.buildStarted
      /\ a = "build" => R!Active(n)
      /\ a = "ask" => n.phase = "awaitingInput"
      /\ a = "stop" => ~R!Active(n)
  <2>1. n \in R!Cycles
    BY <1>2, <1>3, ReducerTypes
  <2>2. /\ a = "build" => n.status = Mine(r).status /\ ~n.buildStarted
        /\ a = "ask" => /\ n.status = Mine(r).status /\ n.phase = "awaitingInput"
                        /\ n.buildStarted = Mine(r).buildStarted
        /\ a = "stop" => n.status = "stopped" /\ n.buildStarted = Mine(r).buildStarted
    BY <1>2, <1>3, ReducerShapes
  <2> HIDE DEF n
  <2> QED BY <1>1, <1>4, <2>1, <2>2 DEF R!Active, R!PlanActions
<1>6. Save(own[r], n)
  BY <1>1
<1> HIDE DEF n
<1>7. (\E m : Writes(own[r], m)) /\ Mine(r)'.status = n.status /\ Mine(r)'.phase = n.phase
  BY <1>2, <1>4, <1>5, <1>6, SavesOwn
<1>8. /\ PlanStep[a] \in {"startBuild", "finalize"} /\ (PlanStep[a] = "startBuild" <=> a = "build")
      /\ PlanOutcome[a] \in Outcomes \ Judged
  BY DEF PlanStep, PlanOutcome, R!PlanActions, Outcomes, Judged
<1>9. /\ outcome' \in [Request -> Outcomes] /\ outcome'[r] \notin Judged
      /\ \A s \in Request : s # r => outcome'[s] = outcome[s]
  BY <1>1, <1>8 DEF Return, BaseInv, RunTypeOK
<1>10. RunMoves(r, PlanStep[a])
  BY <1>1, <1>2, <1>8, <1>9, MovePc DEF BaseInv, RunTypeOK
<1>11. OwnStep(r, PlanStep[a])
  BY <1>1, <1>2, <1>4, <1>5, <1>7, <1>8, <1>9, <1>10
     DEF OwnStep, R!Active, R!PlanActions
<1> QED BY <1>11

(* The verification of a render moves the cycle to its decision.            *)
LEMMA VerifyStep ==
    ASSUME BaseInv, NEW r \in Request, Verify(r) PROVE \E x : OwnStep(r, x)
<1> USE DEF Late, Attempting, PcStates, Driving
<1> DEFINE v(w) == [version |-> Mine(r).current, verdict |-> w]
<1>1. PICK w \in R!Verdicts :
        IF R!CanVerify(Mine(r), v(w))
          THEN /\ Goto(r, "verify", IF w = "green" THEN "decideGreen" ELSE "decideRed")
               /\ cycles' = [cycles EXCEPT ![own[r]] = R!Verified(@, v(w))]
               /\ updated' = [updated EXCEPT ![own[r]] = now]
          ELSE Goto(r, "verify", "error") /\ UNCHANGED cycleVars
  BY DEF Verify
<1> DEFINE n == R!Verified(Mine(r), v(w))
           to == IF w = "green" THEN "decideGreen" ELSE "decideRed"
<1>2. /\ UNCHANGED <<own, victim, attempt, outcome>> /\ RunFrame /\ pc[r] = "verify"
      /\ Mine(r) \in R!Cycles
      /\ Mine(r).buildStarted => R!In(Mine(r), "building")
      /\ own[r] \in Cycle /\ (R!Active(Mine(r)) => ActiveC(own[r]))
  BY OwnFacts DEF Verify
<1>3. CASE R!CanVerify(Mine(r), v(w))
  <2>1. v(w) \in R!Verification
    BY <1>2 DEF R!Verification, R!Cycles
  <2> HIDE DEF v
  <2>2. R!Active(Mine(r)) /\ ~Mine(r).buildStarted
    BY <1>2, <1>3 DEF R!CanVerify, R!In
  <2>3. n \in R!Cycles /\ ~n.buildStarted /\ R!Active(n)
    <3>1. n \in R!Cycles
      BY <1>2, <2>1, ReducerTypes
    <3>2. n.status = Mine(r).status /\ n.buildStarted = Mine(r).buildStarted
      BY <1>2, <2>1, ReducerShapes
    <3> HIDE DEF n
    <3> QED BY <2>2, <3>1, <3>2 DEF R!Active
  <2>4. cycles' = [cycles EXCEPT ![own[r]] = n] /\ updated' = [updated EXCEPT ![own[r]] = now]
        /\ Goto(r, "verify", to)
    BY <1>1, <1>3 DEF Mine
  <2> HIDE DEF n, to
  <2>5. Writes(own[r], n) /\ Mine(r)' = n
    BY <1>2, <2>2, <2>3, <2>4 DEF Writes, Mine, BaseInv, RunTypeOK
  <2>6. to \in {"decideGreen", "decideRed"}
    BY DEF to
  <2>7. RunMoves(r, to) /\ outcome'[r] \notin Judged
    BY <1>2, <2>4, <2>6, MovePc, OwnFacts DEF BaseInv, RunTypeOK
  <2> QED BY <1>2, <2>3, <2>5, <2>6, <2>7 DEF OwnStep
<1>4. CASE ~R!CanVerify(Mine(r), v(w))
  BY <1>1, <1>2, <1>4, QuietStep
<1> QED BY <1>3, <1>4

-----------------------------------------------------------------------------
(* The steps of a run that looks a cycle up, opens one or ends one *)

(* An admitted run keeps the base invariant,                                *)
LEMMA AdmittedKeepsBase ==
    ASSUME BaseInv, NEW r \in Request, Admitted(r) PROVE Lasting /\ BaseInv'
<1>1. PICK to \in {"lookup", "question"} :
        Goto(r, "queued", to) /\ (to = "question" => r \in setup.questions)
  BY DEF Admitted
<1>2. /\ UNCHANGED <<cycleVars, own, victim, attempt, outcome>> /\ RunFrame
      /\ IsRunning(r) /\ pc[r] = "queued" /\ UNCHANGED now
  BY <1>1 DEF Admitted, Goto, RunFrame
<1>3. Lasting
  BY <1>2, QuietLasts
<1>4. RunMoves(r, to)
  BY <1>1, <1>2, MovePc DEF BaseInv, RunTypeOK, PcStates, Driving
<1>5. Places(r)'
  BY <1>1, <1>2, <1>3, <1>4 DEF RunMoves, RunFrame, stopVars, Lasting, Places,
     Exists, BaseInv, RunTypeOK, Early, Late, Terminating, Mine, Judged
<1> QED BY <1>2, <1>3, <1>4, <1>5, MoveKeepsBase

(* and so does a storage failure before it has a cycle,                     *)
LEMMA StorageKeepsBase ==
    ASSUME BaseInv, NEW r \in Request, StorageFails(r), pc[r] \notin Late
    PROVE  RunMoves(r, "error") /\ UNCHANGED <<cycleVars, own, victim>> /\ Lasting /\ BaseInv'
<1>1. /\ UNCHANGED <<cycleVars, own, victim, attempt, outcome>> /\ RunFrame /\ UNCHANGED now
      /\ pc[r] \in {"lookup", "open", "question"} /\ Goto(r, pc[r], "error")
  BY DEF StorageFails, Fallible, Driving, Late, RunFrame, Goto
<1>2. Lasting
  BY <1>1, QuietLasts
<1>3. RunMoves(r, "error")
  BY <1>1, MovePc DEF BaseInv, RunTypeOK, PcStates, Driving
<1>4. Places(r)' /\ IsRunning(r)
  BY <1>1, <1>2, <1>3 DEF RunMoves, RunFrame, stopVars, Lasting, Places, Exists,
     BaseInv, RunTypeOK, Early, Late, Terminating, Mine, Judged, DriverHoldsTarget,
     Driving
<1> QED BY <1>1, <1>2, <1>3, <1>4, MoveKeepsBase

(* The latest active cycle is active and no active one is younger.          *)
LEMMA LatestFacts ==
    ASSUME BaseInv, NEW c \in LatestActive, c # None
    PROVE  /\ ActiveC(c) /\ cycles[c] \in R!Cycles
           /\ \A d \in Cycle : ActiveC(d) => updated[d] <= updated[c]
BY DEF LatestActive, ActiveCycles, BaseInv, RunTypeOK, ActiveC, Exists

(* The lookup takes up the latest active cycle or goes on to open one.      *)
LEMMA LookupKeepsBase ==
    ASSUME BaseInv, NEW r \in Request, Lookup(r) PROVE Lasting /\ BaseInv'
<1>1. PICK c \in LatestActive :
         IF c # None /\ cycles[c].phase = "awaitingInput"
           THEN Goto(r, "lookup", "answer") /\ own' = [own EXCEPT ![r] = c]
           ELSE Goto(r, "lookup", "open") /\ UNCHANGED own
  BY DEF Lookup
<1>2. /\ UNCHANGED <<cycleVars, victim, attempt, outcome>> /\ RunFrame /\ UNCHANGED now
      /\ pc[r] = "lookup"
  BY <1>1 DEF Lookup, RunFrame, Goto
<1>3. Lasting
  BY <1>2, QuietLasts
<1>4. PICK to \in {"answer", "open"} :
         /\ Goto(r, "lookup", to)
         /\ to = "answer" => c # None /\ own' = [own EXCEPT ![r] = c]
         /\ to = "open" => UNCHANGED own
  BY <1>1
<1>5. RunMoves(r, to)
  BY <1>2, <1>4, LatestFacts DEF Goto, RunMoves, BaseInv, RunTypeOK, PcStates,
     Driving, ActiveC, Exists
<1>6. to = "answer" => own'[r] = c /\ Exists(c)
  BY <1>4, LatestFacts DEF BaseInv, RunTypeOK, ActiveC
<1>7. Places(r)' /\ IsRunning(r)
  BY <1>2, <1>3, <1>4, <1>5, <1>6 DEF RunMoves, RunFrame, stopVars, Lasting,
     Places, Exists, BaseInv, RunTypeOK, Early, Late, Terminating, Mine, Judged,
     DriverHoldsTarget, Driving
<1> QED BY <1>3, <1>5, <1>7, MoveKeepsBase

(* A new cycle belongs to the run that opens it.                            *)
LEMMA OpenKeepsBase ==
    ASSUME BaseInv, NEW r \in Request, Open(r) PROVE Lasting /\ BaseInv'
<1>1. PICK c \in Cycle, v \in Version :
         /\ cycles[c] = None
         /\ cycles' = [cycles EXCEPT ![c] = R!StartedCycle(v, setup.attempts)]
         /\ updated' = [updated EXCEPT ![c] = now]
         /\ own' = [own EXCEPT ![r] = c]
  BY DEF Open
<1>2. /\ UNCHANGED <<victim, outcome>> /\ RunFrame /\ UNCHANGED now
      /\ pc[r] = "open" /\ Goto(r, "open", "attempt")
  BY <1>1 DEF Open, RunFrame, Goto
<1> DEFINE n == R!StartedCycle(v, setup.attempts)
<1>3. n \in R!Cycles /\ n.buildStarted = FALSE /\ n # None
  <2>1. setup.attempts \in Nat
    BY SetupAssumption DEF BaseInv, RunTypeOK, SetupType
  <2>2. n \in R!Cycles /\ n.buildStarted = FALSE
    BY <2>1 DEF R!StartedCycle, R!Cycles, R!Phases, R!Statuses
  <2> QED BY <2>2, NoneIsNoCycle
<1>4. cycles' = [cycles EXCEPT ![c] = n]
  BY <1>1
<1> HIDE DEF n
<1>5. Lasting
  BY <1>1, <1>2, <1>3, <1>4, SetupAssumption
     DEF Lasting, BaseInv, RunTypeOK, SetupType, BuildShape
<1>6. RunMoves(r, "attempt")
  BY <1>1, <1>2, FirstAttemptType DEF Open, Goto, RunMoves, BaseInv, RunTypeOK,
     PcStates, Driving
<1>7. own'[r] = c /\ Exists(c)'
  BY <1>1, <1>3, <1>4 DEF BaseInv, RunTypeOK, Exists
<1>8. Places(r)' /\ IsRunning(r)
  BY <1>2, <1>5, <1>6, <1>7 DEF RunMoves, RunFrame, stopVars, Lasting, Places,
     Exists, BaseInv, RunTypeOK, Early, Late, Terminating, Mine, Judged,
     DriverHoldsTarget, Driving
<1> QED BY <1>5, <1>6, <1>8, MoveKeepsBase

(* A generated answer changes no cycle.                                     *)
LEMMA GeneratedKeepsBase ==
    ASSUME BaseInv, NEW r \in Request, Generated(r) PROVE Lasting /\ BaseInv'
<1>1. /\ UNCHANGED <<cycles, own, victim, attempt, outcome>> /\ RunFrame /\ UNCHANGED now
      /\ pc[r] = "generate" /\ Goto(r, "generate", "plan")
  BY DEF Generated, RunFrame, Goto
<1>2. PICK c \in LatestActive : updated' = [d \in Cycle |-> IF d = c THEN now ELSE updated[d]]
  BY DEF Generated
<1>3. Lasting
  BY <1>1, <1>2, SetupAssumption DEF Lasting, BaseInv, RunTypeOK, BuildShape,
     SetupType
<1>4. RunMoves(r, "plan")
  BY <1>1, MovePc DEF BaseInv, RunTypeOK, PcStates, Driving
<1>5. Places(r)' /\ IsRunning(r)
  BY <1>1, <1>3, <1>4 DEF RunMoves, RunFrame, stopVars, Lasting, Places, Exists,
     BaseInv, RunTypeOK, Early, Late, Terminating, Mine, Judged, DriverHoldsTarget,
     Driving
<1> QED BY <1>3, <1>4, <1>5, MoveKeepsBase

(* The provider error is recorded in the latest active cycle, whichever     *)
(* that is, if it can fail.                                                 *)
LEMMA ProviderErrorLasts ==
    ASSUME BaseInv, ProviderErrorRecorded, UNCHANGED now
    PROVE  /\ \/ UNCHANGED cycleVars
              \/ \E c \in LatestActive \ {None} : \E m : Writes(c, m) /\ m.status = cycles[c].status
                                   /\ m.phase = "planning" /\ ~m.buildStarted
           /\ Lasting
<1>1. CASE UNCHANGED cycleVars
  BY <1>1, QuietLasts
<1>2. CASE \E c \in LatestActive \ {None} : Save(c, R!Failed(cycles[c]))
  <2>1. PICK c \in LatestActive \ {None} : Save(c, R!Failed(cycles[c]))
    BY <1>2
  <2> DEFINE n == R!Failed(cycles[c])
  <2>2. ActiveC(c) /\ cycles[c] \in R!Cycles /\ c \in Cycle
    BY <2>1, LatestFacts DEF ActiveC, Exists
  <2>3. n \in R!Cycles /\ ~n.buildStarted /\ n.status = cycles[c].status /\ n.phase = "planning"
    BY <2>2, ReducerTypes, ReducerShapes
  <2>4. Save(c, n)
    BY <2>1
  <2> HIDE DEF n
  <2>5. PICK m : /\ Writes(c, m)
                 /\ m.status = n.status /\ m.phase = n.phase /\ m.buildStarted = n.buildStarted
    BY <2>2, <2>3, <2>4, OwnSaved
  <2> QED BY <2>1, <2>3, <2>5, WriteLasts
<1> QED BY <1>1, <1>2 DEF ProviderErrorRecorded

(* A failed generation keeps the base invariant,                            *)
LEMMA GenerateFailsKeepsBase ==
    ASSUME BaseInv, NEW r \in Request, GenerateFails(r) PROVE Lasting /\ BaseInv'
<1>1. /\ UNCHANGED <<own, victim, attempt, outcome>> /\ RunFrame /\ UNCHANGED now
      /\ pc[r] = "generate" /\ Goto(r, "generate", "failed")
  BY DEF GenerateFails, RunFrame, Goto
<1>2. Lasting
  BY <1>1, ProviderErrorLasts DEF GenerateFails
<1>3. RunMoves(r, "failed")
  BY <1>1, MovePc DEF BaseInv, RunTypeOK, PcStates, Driving
<1>4. Places(r)' /\ IsRunning(r)
  BY <1>1, <1>2, <1>3 DEF RunMoves, RunFrame, stopVars, Lasting, Places, Exists,
     BaseInv, RunTypeOK, Early, Late, Terminating, Mine, Judged, DriverHoldsTarget,
     Driving
<1> QED BY <1>2, <1>3, <1>4, MoveKeepsBase

(* and so do the two steps of a run that only asks.                         *)
LEMMA QuestionStepsKeepBase ==
    ASSUME BaseInv, NEW r \in Request, QuestionStarts(r) \/ QuestionEnds(r)
    PROVE  Lasting /\ BaseInv'
<1>1. PICK to \in {"ask", "finish", "error"} :
        /\ pc[r] \in {"question", "ask"} /\ Goto(r, pc[r], to)
        /\ UNCHANGED <<own, victim, attempt, outcome>> /\ RunFrame /\ UNCHANGED now
        /\ UNCHANGED cycleVars \/ ProviderErrorRecorded
  <2>1. CASE QuestionStarts(r)
    BY <2>1 DEF QuestionStarts, RunFrame, Goto
  <2>2. CASE QuestionEnds(r)
    BY <2>2 DEF QuestionEnds, RunFrame, Goto
  <2> QED BY <2>1, <2>2
<1>2. Lasting
  BY <1>1, ProviderErrorLasts, QuietLasts
<1>3. RunMoves(r, to)
  BY <1>1, MovePc DEF BaseInv, RunTypeOK, PcStates, Driving
<1>4. Places(r)' /\ IsRunning(r)
  BY <1>1, <1>2, <1>3 DEF RunMoves, RunFrame, stopVars, Lasting, Places, Exists,
     BaseInv, RunTypeOK, Early, Late, Terminating, Mine, Judged, DriverHoldsTarget,
     Driving
<1> QED BY <1>2, <1>3, <1>4, MoveKeepsBase

(* A transition of any active cycle, or none when it is refused, lets the   *)
(* cycles last.                                                             *)
LEMMA SaveIfLasts ==
    ASSUME BaseInv, NEW guard, NEW c \in Cycle, NEW n, SaveIf(guard, c, n), UNCHANGED now,
           guard => ActiveC(c) /\ n \in R!Cycles /\ ~n.buildStarted
    PROVE  Lasting
<1>1. CASE ~guard
  BY <1>1, QuietLasts DEF SaveIf
<1>2. CASE guard
  BY <1>2, OwnSaved, WriteLasts DEF SaveIf
<1> QED BY <1>1, <1>2

(* A cycle that can fail or stop is active, and is left without a started   *)
(* build.                                                                   *)
LEMMA EndsTypes ==
    ASSUME BaseInv, NEW c \in Cycle, cycles[c] # None
    PROVE  /\ R!CanFail(cycles[c]) => /\ ActiveC(c) /\ R!Failed(cycles[c]) \in R!Cycles
                                      /\ ~R!Failed(cycles[c]).buildStarted
           /\ R!CanStop(cycles[c]) => /\ ActiveC(c) /\ R!Stopped(cycles[c]) \in R!Cycles
                                      /\ ~R!Stopped(cycles[c]).buildStarted
<1>1. cycles[c] \in R!Cycles
  BY DEF BaseInv, RunTypeOK
<1> QED BY <1>1, ReducerTypes, ReducerShapes
   DEF R!CanFail, R!CanStop, ActiveC, Exists

(* The last steps of a run on its own cycle keep the base invariant.        *)
LEMMA LastStepsKeepBase ==
    ASSUME BaseInv, NEW r \in Request, Finalize(r) \/ StopOwn(r) \/ Publish(r)
    PROVE  Lasting /\ BaseInv'
<1>1. /\ UNCHANGED <<own, victim, attempt>> /\ RunFrame /\ UNCHANGED now
      /\ pc[r] \in {"finalize", "stopOwn", "publish"} /\ Goto(r, pc[r], "finish")
      /\ pc[r] # "publish" => UNCHANGED outcome
      /\ outcome' \in [Request -> Outcomes]
      /\ \A s \in Request : s # r => outcome'[s] = outcome[s]
  BY DEF Finalize, StopOwn, Publish, RunFrame, Goto, Return, BaseInv, RunTypeOK,
     Outcomes
<1>2. Lasting
  <2>1. CASE UNCHANGED cycleVars
    BY <1>1, <2>1, QuietLasts
  <2>2. CASE StopOwn(r)
    <3>1. own[r] \in Cycle /\ cycles[own[r]] # None
      BY <2>2, OwnFacts DEF StopOwn, Goto, Late, Exists
    <3> QED BY <1>1, <2>2, <3>1, EndsTypes, SaveIfLasts DEF StopOwn, Mine
  <2> QED BY <2>1, <2>2 DEF Finalize, Publish
<1>3. RunMoves(r, "finish")
  BY <1>1, MovePc DEF BaseInv, RunTypeOK, PcStates, Driving
<1>4. Exists(own[r]) /\ (pc[r] = "publish" => Mine(r)' = Mine(r) /\ Mine(r).status = "completed")
  BY <1>1, <1>2 DEF BaseInv, Places, Late, Lasting, Mine, Exists, R!Active
<1>5. Places(r)' /\ IsRunning(r)
  BY <1>1, <1>2, <1>3, <1>4 DEF RunMoves, RunFrame, stopVars, Lasting, Places,
     Exists, BaseInv, RunTypeOK, Early, Late, Terminating, Mine, Judged,
     DriverHoldsTarget, Driving
<1> QED BY <1>2, <1>3, <1>5, MoveKeepsBase

(* So do the steps that end a cycle after a failure or a stop.              *)
LEMMA TerminateKeepsBase ==
    ASSUME BaseInv, NEW r \in Request,
           TerminateLookup(r) \/ TerminateFail(r) \/ TerminateStop(r)
    PROVE  Lasting /\ BaseInv'
<1>1. CASE TerminateLookup(r)
  <2>1. PICK c \in LatestActive :
         /\ Goto(r, "error", IF c = None THEN "finish" ELSE "terminateFail")
         /\ victim' = [victim EXCEPT ![r] = c]
    BY <1>1 DEF TerminateLookup
  <2> DEFINE to == IF c = None THEN "finish" ELSE "terminateFail"
  <2>2. /\ UNCHANGED <<cycleVars, own, attempt>> /\ RunFrame /\ UNCHANGED now
        /\ pc[r] = "error" /\ Return(r, "failed")
    BY <1>1 DEF TerminateLookup, RunFrame, Goto
  <2>3. Lasting
    BY <2>2, QuietLasts
  <2>4. c # None => Exists(c)
    BY LatestFacts DEF ActiveC
  <2>5. RunMoves(r, to) /\ victim'[r] = c /\ outcome'[r] = "failed"
    BY <2>1, <2>2, <2>4 DEF RunMoves, Goto, Return, Outcomes, BaseInv, RunTypeOK,
       PcStates, Driving, Exists
  <2>6. Places(r)' /\ IsRunning(r)
    BY <2>1, <2>2, <2>3, <2>4, <2>5 DEF RunMoves, RunFrame, stopVars, Lasting,
       Places, Exists, BaseInv, RunTypeOK, Early, Late, Terminating, Mine, Judged,
       DriverHoldsTarget, Driving
  <2> QED BY <2>3, <2>5, <2>6, MoveKeepsBase
<1>2. CASE TerminateFail(r) \/ TerminateStop(r)
  <2>1. PICK to \in {"terminateStop", "finish"} :
        /\ UNCHANGED <<own, victim, attempt, outcome>> /\ RunFrame /\ UNCHANGED now
        /\ pc[r] \in Terminating /\ Goto(r, pc[r], to)
    BY <1>2 DEF TerminateFail, TerminateStop, RunFrame, Goto, Terminating
  <2>2. victim[r] \in Cycle /\ cycles[victim[r]] # None
    BY <2>1 DEF BaseInv, Places, Exists
  <2>3. Lasting
    BY <1>2, <2>1, <2>2, EndsTypes, SaveIfLasts DEF TerminateFail, TerminateStop
  <2>4. RunMoves(r, to)
    BY <2>1, MovePc DEF BaseInv, RunTypeOK, PcStates, Driving
  <2>5. Places(r)' /\ IsRunning(r)
    BY <2>1, <2>2, <2>3, <2>4 DEF RunMoves, RunFrame, stopVars, Lasting, Places,
       Exists, BaseInv, RunTypeOK, Early, Late, Terminating, Mine, Judged,
       DriverHoldsTarget, Driving
  <2> QED BY <2>3, <2>4, <2>5, MoveKeepsBase
<1> QED BY <1>1, <1>2

-----------------------------------------------------------------------------
(* Admission, stops, answers from outside and a crash *)

(* Removing position i of a sequence shifts the later elements by one. *)
LEMMA RemoveAtProperties ==
    ASSUME NEW S, NEW s \in Seq(S), NEW i \in 1 .. Len(s)
    PROVE  /\ RemoveAt(s, i) \in Seq(S)
           /\ Len(RemoveAt(s, i)) = Len(s) - 1
           /\ \A j \in 1 .. Len(s) - 1 :
                RemoveAt(s, i)[j] = IF j < i THEN s[j] ELSE s[j + 1]
<1> DEFINE left == SubSeq(s, 1, i - 1)
           right == SubSeq(s, i + 1, Len(s))
<1>1. /\ left \in Seq(S) /\ Len(left) = i - 1
      /\ \A j \in 1 .. i - 1 : left[j] = s[j]
  BY SubSeqProperties, LenProperties
<1>2. /\ right \in Seq(S) /\ Len(right) = Len(s) - i
      /\ \A j \in 1 .. Len(s) - i : right[j] = s[i + j]
  BY SubSeqProperties, LenProperties
<1>3. /\ left \o right \in Seq(S)
      /\ Len(left \o right) = Len(left) + Len(right)
      /\ \A j \in 1 .. Len(left) + Len(right) :
           (left \o right)[j] = IF j <= Len(left) THEN left[j]
                                ELSE right[j - Len(left)]
  BY <1>1, <1>2, ConcatProperties
<1>4. RemoveAt(s, i) = left \o right
  BY DEF RemoveAt
<1> HIDE DEF left, right
<1>5. Len(s) \in Nat
  BY LenProperties
<1>6. ASSUME NEW j \in 1 .. Len(s) - 1
      PROVE  RemoveAt(s, i)[j] = IF j < i THEN s[j] ELSE s[j + 1]
  <2>1. j \in 1 .. Len(left) + Len(right)
    BY <1>1, <1>2, <1>5
  <2>2. CASE j < i
    BY <2>1, <2>2, <1>1, <1>3, <1>4, <1>5
  <2>3. CASE ~(j < i)
    <3>1. j - (i - 1) \in 1 .. Len(s) - i /\ ~(j <= i - 1)
      BY <2>3, <1>5
    <3>2. RemoveAt(s, i)[j] = right[j - (i - 1)]
      BY <3>1, <2>1, <1>1, <1>3, <1>4
    <3>3. i + (j - (i - 1)) = j + 1
      OBVIOUS
    <3> QED BY <3>1, <3>2, <3>3, <1>2, <2>3
  <2> QED BY <2>2, <2>3
<1>7. RemoveAt(s, i) \in Seq(S) /\ Len(RemoveAt(s, i)) = Len(s) - 1
  BY <1>1, <1>2, <1>3, <1>4, <1>5
<1> QED BY <1>6, <1>7

(* The queue operations keep the shape: the grant of the target to the next *)
(* request,                                                                 *)
LEMMA GrantedShape ==
    ASSUME NEW stamp \in [Request -> Nat], NEW q, ShapeOK(q, stamp)
    PROVE  ShapeOK(Granted(q), stamp)
<1> DEFINE s == q.controllers
<1> USE BuildQueueAssumption
<1>1. s \in Seq(Request) /\ Len(s) \in Nat
  BY LenProperties DEF ShapeOK, KeyQueue
<1>2. CASE s # <<>>
  <2>1. /\ Head(s) = s[1] /\ Tail(s) \in Seq(Request) /\ Len(Tail(s)) = Len(s) - 1
        /\ \A i \in 1 .. Len(s) - 1 : Tail(s)[i] = s[i + 1]
        /\ 1 \in 1 .. Len(s) /\ s[1] \in Request
    BY <1>1, <1>2, HeadTailProperties, EmptySeq, ElementOfSeq
  <2>2. \A i \in 1 .. Len(s) - 1 : i + 1 \in 1 .. Len(s)
    BY <1>1
  <2>3. /\ Granted(q) \in KeyQueue
        /\ Granted(q).running = s[1] /\ Granted(q).interactive = q.interactive
        /\ Granted(q).controllers = Tail(s)
    BY <1>2, <2>1 DEF Granted, ShapeOK, KeyQueue
  <2>4. Controller(s[1]) /\ stamp[s[1]] > 0
    BY <2>1 DEF ShapeOK, QueueShape
  <2>5. \A i \in 1 .. Len(Tail(s)) : Controller(Tail(s)[i]) /\ stamp[Tail(s)[i]] > 0
    BY <2>1, <2>2 DEF ShapeOK, QueueShape
  <2> QED BY <2>3, <2>4, <2>5 DEF ShapeOK, QueueShape, Interactive, Controller
<1>3. CASE s = <<>>
  BY <1>3 DEF Granted, ShapeOK, KeyQueue, QueueShape
<1> QED BY <1>2, <1>3

(* the withdrawal of a pending request,                                     *)
LEMMA WithoutPendingShape ==
    ASSUME NEW stamp \in [Request -> Nat], NEW q, ShapeOK(q, stamp), NEW r \in Request
    PROVE  ShapeOK(WithoutPending(q, r), stamp) /\ WithoutPending(q, r).running = q.running
<1> DEFINE s == q.controllers
           p == PositionOf(q, r)
<1>1. s \in Seq(Request) /\ Len(s) \in Nat
  BY LenProperties DEF ShapeOK, KeyQueue
<1>2. CASE q.interactive # r /\ r \in Range(s)
  <2>1. p \in 1 .. Len(s)
    <3>1. \E i \in 1 .. Len(s) : s[i] = r
      BY <1>1, <1>2, LenProperties DEF Range
    <3> QED BY <3>1 DEF PositionOf
  <2> DEFINE t == RemoveAt(s, p)
  <2>2. WithoutPending(q, r) = [q EXCEPT !.controllers = t]
    BY <1>2 DEF WithoutPending
  <2> HIDE DEF p
  <2>3. /\ t \in Seq(Request) /\ Len(t) = Len(s) - 1
        /\ \A j \in 1 .. Len(s) - 1 : t[j] = IF j < p THEN s[j] ELSE s[j + 1]
    BY <1>1, <2>1, RemoveAtProperties
  <2> HIDE DEF t
  <2>4. \A j \in 1 .. Len(t) : Controller(t[j]) /\ stamp[t[j]] > 0
    <3>1. ASSUME NEW j \in 1 .. Len(t) PROVE \E i \in 1 .. Len(s) : t[j] = s[i]
      <4>1. j \in 1 .. Len(s) - 1
        BY <2>3
      <4>2. j \in 1 .. Len(s) /\ j + 1 \in 1 .. Len(s)
        BY <1>1, <4>1
      <4>3. t[j] = s[j] \/ t[j] = s[j + 1]
        BY <4>1, <2>3
      <4> QED BY <4>2, <4>3
    <3>2. \A i \in 1 .. Len(s) : Controller(s[i]) /\ stamp[s[i]] > 0
      BY DEF ShapeOK, QueueShape
    <3> QED BY <3>1, <3>2
  <2> QED BY <2>2, <2>3, <2>4 DEF ShapeOK, KeyQueue, QueueShape
<1>3. CASE ~(q.interactive # r /\ r \in Range(s))
  BY <1>3 DEF WithoutPending, ShapeOK, KeyQueue, QueueShape
<1> QED BY <1>2, <1>3

(* the arrival of one.                                                      *)
LEMMA EnqueuedShape ==
    ASSUME NEW stamp \in [Request -> Nat], NEW q, ShapeOK(q, stamp), NEW r \in Request,
           stamp[r] = 0, NEW n \in Nat
    PROVE  /\ ShapeOK(Enqueued(q, r), [stamp EXCEPT ![r] = n + 1])
           /\ Enqueued(q, r).running = q.running
<1> DEFINE s == q.controllers
           new == [stamp EXCEPT ![r] = n + 1]
<1> USE BuildQueueAssumption
<1>1. s \in Seq(Request) /\ Len(s) \in Nat
  BY LenProperties DEF ShapeOK, KeyQueue
<1>2. new \in [Request -> Nat] /\ new[r] > 0 /\ \A x \in Request : stamp[x] > 0 => new[x] > 0
  OBVIOUS
<1>3. \A i \in 1 .. Len(s) : s[i] \in Request /\ Controller(s[i]) /\ new[s[i]] > 0
  BY <1>1, <1>2, ElementOfSeq DEF ShapeOK, QueueShape
<1>4. /\ q.running \in Request \cup {None} /\ q.interactive \in Request \cup {None}
      /\ q.running # None => new[q.running] > 0 /\ q.running # r
      /\ q.interactive # None => /\ Interactive(q.interactive) /\ new[q.interactive] > 0
                                 /\ q.interactive # q.running
  BY <1>2 DEF ShapeOK, KeyQueue, QueueShape
<1> HIDE DEF new
<1>5. CASE Controller(r)
  <2> DEFINE t == Append(s, r)
  <2>1. /\ t \in Seq(Request) /\ Len(t) = Len(s) + 1
        /\ \A i \in 1 .. Len(s) : t[i] = s[i]
        /\ t[Len(s) + 1] = r
    BY <1>1, AppendProperties
  <2>2. Enqueued(q, r) = [q EXCEPT !.controllers = t]
    BY <1>5 DEF Enqueued
  <2> HIDE DEF t
  <2>3. \A i \in 1 .. Len(t) : i \in 1 .. Len(s) \/ i = Len(s) + 1
    BY <2>1, <1>1
  <2>4. \A i \in 1 .. Len(t) : Controller(t[i]) /\ new[t[i]] > 0
    BY <2>1, <2>3, <1>2, <1>3, <1>5
  <2>5. /\ Enqueued(q, r) \in KeyQueue /\ Enqueued(q, r).running = q.running
        /\ Enqueued(q, r).interactive = q.interactive /\ Enqueued(q, r).controllers = t
    BY <2>1, <2>2 DEF ShapeOK, KeyQueue
  <2>6. QueueShape(Enqueued(q, r), new)
    BY <1>4, <2>4, <2>5 DEF QueueShape
  <2> QED BY <2>5, <2>6 DEF ShapeOK, new
<1>6. CASE ~Controller(r)
  <2>1. Interactive(r) /\ r # None
    BY <1>6 DEF Interactive, Controller, Kinds
  <2>2. Enqueued(q, r) = [q EXCEPT !.interactive = r]
    BY <1>6 DEF Enqueued
  <2>3. /\ Enqueued(q, r) \in KeyQueue /\ Enqueued(q, r).running = q.running
        /\ Enqueued(q, r).interactive = r /\ Enqueued(q, r).controllers = s
    BY <2>2 DEF ShapeOK, KeyQueue
  <2>4. QueueShape(Enqueued(q, r), new)
    BY <1>2, <1>3, <1>4, <2>1, <2>3 DEF QueueShape
  <2> QED BY <2>3, <2>4 DEF ShapeOK, new
<1> QED BY <1>5, <1>6

(* The base invariant with the queues in one part.                          *)
LEMMA ShapeFacts ==
    BaseInv <=> /\ RunTypeOK /\ DriverHoldsTarget
                /\ \A k \in Key : ShapeOK(queue[k], sequence)
                /\ \A r \in Request : Places(r)
                /\ \A c \in Cycle : BuildShape(c)
BY DEF BaseInv, RunTypeOK, TypeOK, ShapeOK

(* The run of r leaves the target, which goes to the next request.          *)
LEMMA LeavesKeepBase ==
    ASSUME BaseInv, NEW r \in Request, CancelledInAdmit(r) \/ RunFinish(r)
    PROVE  Lasting /\ BaseInv'
<1> USE BuildQueueAssumption, RunAssumption
<1> DEFINE k == KeyOf[r]
           q == Finished(queue[k], r)
<1>1. /\ UNCHANGED <<sequence, nextSequence, cycles, updated, now, own, outcome, stopPc, stopCycle,
                     crashed, setup>>
      /\ queue' = [queue EXCEPT ![k] = q]
      /\ pc[r] \in {"queued", "finish"} /\ pc' = [pc EXCEPT ![r] = "done"]
      /\ attempt' \in [Request -> 0 .. setup.attempts]
      /\ victim' \in [Request -> Cycle \cup {None}]
      /\ \A s \in Request : s # r => victim'[s] = victim[s]
      /\ cancelled' \in SUBSET Request
  <2>1. /\ attempt \in [Request -> 0 .. setup.attempts] /\ 0 \in 0 .. setup.attempts
        /\ victim \in [Request -> Cycle \cup {None}] /\ cancelled \subseteq Request
        /\ pc \in [Request -> PcStates]
    BY SetupAssumption DEF BaseInv, RunTypeOK, SetupType
  <2> QED BY <2>1 DEF CancelledInAdmit, RunFinish, Goto, cycleVars, stopVars
<1>2. k \in Key /\ ShapeOK(q, sequence)
      /\ queue \in [Key -> KeyQueue] /\ sequence \in [Request -> Nat]
  BY ShapeFacts, GrantedShape DEF Finished, BaseInv, RunTypeOK, TypeOK
<1>3. \A x \in Key : ShapeOK(queue'[x], sequence')
  BY <1>1, <1>2, ShapeFacts
<1>4. Lasting
  BY <1>1, QuietLasts DEF cycleVars
<1>5. RunTypeOK'
  BY <1>1, <1>3 DEF BaseInv, RunTypeOK, TypeOK, ShapeOK, PcStates, Ended, Lasting
<1>6. DriverHoldsTarget'
  <2> SUFFICES ASSUME NEW s \in Request, pc'[s] \in Driving PROVE IsRunning(s)'
    BY DEF DriverHoldsTarget
  <2>1. s # r /\ pc[s] \in Driving
    BY <1>1 DEF BaseInv, RunTypeOK, Driving
  <2>2. KeyOf[s] = k /\ queue[k].running = s
    BY <2>1 DEF BaseInv, DriverHoldsTarget, IsRunning, QueueOf
  <2>3. q = queue[k]
    BY <2>1, <2>2 DEF Finished
  <2> QED BY <1>1, <1>2, <2>2, <2>3 DEF IsRunning, QueueOf
<1>7. ASSUME NEW s \in Request PROVE Places(s)'
  BY <1>1 DEF BaseInv, Places, RunTypeOK, Early, Late, Terminating, Exists, Mine,
     Judged
<1> QED BY <1>3, <1>4, <1>5, <1>6, <1>7, ShapeFacts DEF Lasting, BaseInv, ShapeOK

(* A submitted run may supersede a pending one; no run at work is           *)
(* disturbed.                                                               *)
LEMMA SubmitKeepsBase ==
    ASSUME BaseInv, NEW r \in Request, SubmitRun(r)
    PROVE  /\ Lasting /\ BaseInv'
           /\ \A s \in Request : pc[s] \in Driving => pc'[s] = pc[s]
           /\ \A s \in Request : pc'[s] # pc[s] => pc'[s] \in {"queued", "done"}
<1> USE BuildQueueAssumption, RunAssumption
<1> DEFINE k == KeyOf[r]
           e == Enqueued(queue[k], r)
           q == Started(e)
<1>1. /\ UNCHANGED <<cycles, updated, now, cancelled, own, victim, attempt, outcome, stopPc, stopCycle,
                     crashed, setup>>
      /\ queue' = [queue EXCEPT ![k] = q]
      /\ sequence[r] = 0 /\ pc[r] = "idle"
      /\ nextSequence' = nextSequence + 1
      /\ sequence' = [sequence EXCEPT ![r] = nextSequence + 1]
      /\ pc' = [s \in Request |-> IF s = r THEN "queued"
                                  ELSE IF s = Superseded(queue[k], r) THEN "done" ELSE pc[s]]
  BY DEF SubmitRun, Stamp, Unsubmitted, cycleVars, stopVars, QueueOf
<1>2. /\ k \in Key /\ queue \in [Key -> KeyQueue] /\ sequence \in [Request -> Nat]
      /\ nextSequence \in Nat /\ \A x \in Key : ShapeOK(queue[x], sequence)
  BY ShapeFacts DEF BaseInv, RunTypeOK, TypeOK
<1>3. sequence' \in [Request -> Nat] /\ ShapeOK(e, sequence') /\ e.running = queue[k].running
  <2>1. /\ ShapeOK(e, [sequence EXCEPT ![r] = nextSequence + 1])
        /\ e.running = queue[k].running
    <3>1. /\ sequence \in [Request -> Nat] /\ sequence[r] = 0 /\ nextSequence \in Nat
          /\ ShapeOK(queue[k], sequence)
      BY <1>1, <1>2
    <3> QED BY ONLY <3>1, EnqueuedShape, r \in Request
  <2>2. sequence' \in [Request -> Nat]
    BY <1>1, <1>2
  <2> QED BY <1>1, <2>1, <2>2
<1>4. ShapeOK(q, sequence') /\ (queue[k].running # None => q.running = queue[k].running)
  BY <1>3, GrantedShape DEF Started
<1>5. ASSUME NEW x \in Key PROVE ShapeOK(queue'[x], sequence')
  <2>1. CASE x = k
    BY <2>1, <1>1, <1>2, <1>4
  <2>2. CASE x # k
    <3>1. queue'[x] = queue[x] /\ ShapeOK(queue[x], sequence)
      BY <2>2, <1>1, <1>2
    <3>2. \A y \in Request : sequence[y] > 0 => sequence'[y] > 0
      BY <1>1, <1>2
    <3>3. \A i \in 1 .. Len(queue[x].controllers) : queue[x].controllers[i] \in Request
      BY <3>1, ElementOfSeq DEF ShapeOK, KeyQueue
    <3> QED BY <3>1, <3>2, <3>3 DEF ShapeOK, QueueShape, KeyQueue
  <2> QED BY <2>1, <2>2
<1>6. \A s \in Request : pc[s] \in Driving => pc'[s] = pc[s] /\ queue[k].running = s
  <2> SUFFICES ASSUME NEW s \in Request, pc[s] \in Driving
               PROVE  pc'[s] = pc[s] /\ queue[k].running = s
    OBVIOUS
  <2>1. KeyOf[s] = k /\ queue[k].running = s
    BY DEF BaseInv, DriverHoldsTarget, IsRunning, QueueOf
  <2>2. s # r
    BY <1>1 DEF Driving
  <2>3. s # Superseded(queue[k], r)
    BY <1>2, <2>1 DEF Superseded, ShapeOK, QueueShape
  <2> QED BY <1>1, <2>1, <2>2, <2>3
<1>7. \A s \in Request : pc'[s] # pc[s] => pc'[s] \in {"queued", "done"}
  BY <1>1
<1>8. Lasting
  BY <1>1, QuietLasts DEF cycleVars
<1> HIDE DEF q, e
<1>9. RunTypeOK'
  <2>1. pc' \in [Request -> PcStates]
    BY <1>1 DEF BaseInv, RunTypeOK, PcStates, Ended
  <2>2. TypeOK'
    BY <1>1, <1>2, <1>3, <1>5 DEF TypeOK, ShapeOK
  <2> QED BY <1>1, <2>1, <2>2 DEF BaseInv, RunTypeOK
<1>10. DriverHoldsTarget'
  <2> SUFFICES ASSUME NEW s \in Request, pc'[s] \in Driving PROVE IsRunning(s)'
    BY DEF DriverHoldsTarget
  <2>1. pc[s] \in Driving
    BY <1>7 DEF Driving
  <2>2. queue[k].running = s /\ KeyOf[s] = k /\ s # None
    BY <1>6, <2>1
  <2> QED BY <1>1, <1>2, <1>4, <2>2 DEF IsRunning, QueueOf
<1>11. ASSUME NEW s \in Request PROVE Places(s)'
  <2>1. Places(s)
    BY DEF BaseInv
  <2>2. CASE s = r
    BY <1>1, <2>1, <2>2 DEF Places, Early, Late, Terminating, Exists, Mine, Judged
  <2>3. CASE s # r
    BY <1>1, <2>1, <2>3 DEF Places, Early, Late, Terminating, Exists, Mine, Judged
  <2> QED BY <2>2, <2>3
<1> QED BY <1>5, <1>6, <1>7, <1>8, <1>9, <1>10, <1>11, ShapeFacts
   DEF Lasting, BaseInv, ShapeOK

(* The steps of a stop keep the base invariant,                             *)
LEMMA StopKeepsBase ==
    ASSUME BaseInv, NEW r \in Request,
           StopReads(r) \/ StopCancels(r) \/ StopLooksUp(r) \/ StopApplies(r)
    PROVE  Lasting /\ BaseInv' /\ r \in setup.stoppable
<1> USE BuildQueueAssumption, RunAssumption
<1> DEFINE k == KeyOf[r]
<1>1. UNCHANGED <<sequence, nextSequence, now, pc, own, victim, attempt, outcome, crashed, setup>>
  BY DEF StopReads, StopCancels, StopLooksUp, StopApplies, StopFrame, runVars
<1>2. r \in setup.stoppable
  BY DEF StopReads, StopCancels, StopProceeds, StopLooksUp, StopApplies, StopGoto,
     BaseInv, Places
<1>3. /\ queue' \in [Key -> KeyQueue] /\ k \in Key
      /\ \A x \in Key : ShapeOK(queue'[x], sequence) /\ queue'[x].running = queue[x].running
      /\ cancelled' \subseteq Request
  <2>1. /\ queue \in [Key -> KeyQueue] /\ k \in Key /\ sequence \in [Request -> Nat]
        /\ \A x \in Key : ShapeOK(queue[x], sequence)
        /\ cancelled \subseteq Request
    BY ShapeFacts DEF BaseInv, RunTypeOK, TypeOK
  <2>2. CASE StopCancels(r)
    <3>1. PICK q : /\ queue' = [queue EXCEPT ![k] = q]
                   /\ q = queue[k] \/ q = WithoutPending(queue[k], r)
      BY <2>2 DEF StopCancels
    <3>2. ShapeOK(q, sequence) /\ q.running = queue[k].running /\ q \in KeyQueue
      BY <2>1, <3>1, WithoutPendingShape DEF ShapeOK
    <3> QED BY <2>1, <2>2, <3>1, <3>2 DEF StopCancels
  <2>3. CASE ~StopCancels(r)
    BY <2>1, <2>3 DEF StopReads, StopLooksUp, StopApplies
  <2> QED BY <2>2, <2>3
<1>4. Lasting
  <2>1. CASE UNCHANGED cycleVars
    BY <1>1, <2>1, QuietLasts
  <2>2. CASE StopApplies(r)
    <3> DEFINE c == stopCycle[r]
    <3>1. c \in Cycle /\ cycles[c] # None
      BY <2>2 DEF StopApplies, StopGoto, BaseInv, Places, Exists
    <3>2. SaveIf(R!CanStop(cycles[c]), c, R!Stopped(cycles[c]))
      BY <2>2 DEF StopApplies, SaveIf
    <3> QED BY <1>1, <3>1, <3>2, EndsTypes, SaveIfLasts
  <2> QED BY <2>1, <2>2 DEF StopReads, StopCancels, StopLooksUp
<1>5. /\ stopPc' \in [Request -> StopStates] /\ stopCycle' \in [Request -> Cycle \cup {None}]
      /\ \A s \in Request : s # r => stopPc'[s] = stopPc[s] /\ stopCycle'[s] = stopCycle[s]
      /\ stopPc'[r] = "stop" => Exists(stopCycle'[r])
  <2>1. stopPc \in [Request -> StopStates] /\ stopCycle \in [Request -> Cycle \cup {None}]
    BY DEF BaseInv, RunTypeOK
  <2>2. CASE StopReads(r) \/ StopCancels(r)
    BY <2>1, <2>2 DEF StopReads, StopCancels, StopProceeds, StopGoto, StopStates
  <2>3. CASE StopLooksUp(r)
    <3>1. PICK c \in LatestActive :
         /\ StopGoto(r, "lookup", IF c = None THEN "done" ELSE "stop")
         /\ stopCycle' = [stopCycle EXCEPT ![r] = c]
      BY <2>3 DEF StopLooksUp
    <3>2. c # None => Exists(c)
      BY LatestFacts DEF ActiveC
    <3>3. c \in Cycle \cup {None}
      BY <3>2 DEF Exists
    <3> QED BY <2>1, <3>1, <3>2, <3>3 DEF StopGoto, StopStates
  <2>4. CASE StopApplies(r)
    BY <2>1, <2>4 DEF StopApplies, StopGoto, StopStates
  <2> QED BY <2>2, <2>3, <2>4
<1>6. RunTypeOK'
  BY <1>1, <1>3, <1>4, <1>5 DEF BaseInv, RunTypeOK, TypeOK, Lasting
<1>7. DriverHoldsTarget'
  BY <1>1, <1>3 DEF BaseInv, DriverHoldsTarget, IsRunning, QueueOf
<1>8. ASSUME NEW s \in Request PROVE Places(s)'
  <2>1. Places(s) /\ \A c : Exists(c) => Exists(c)'
    BY <1>4 DEF BaseInv, Lasting, Exists
  <2>2. pc[s] = "publish" \/ outcome[s] \in Judged => Mine(s)' = Mine(s)
    BY <1>1, <1>4, <2>1 DEF Places, Lasting, Exists, R!Active, Mine
  <2>3. CASE s = r
    BY <1>1, <1>2, <1>5, <2>1, <2>2, <2>3 DEF Places, Lasting, Exists
  <2>4. CASE s # r
    BY <1>1, <1>5, <2>1, <2>2, <2>4 DEF Places
  <2> QED BY <2>3, <2>4
<1>9. \A x \in Key : ShapeOK(queue'[x], sequence')
  BY <1>1, <1>3
<1> QED BY <1>2, <1>4, <1>6, <1>7, <1>8, <1>9, ShapeFacts
   DEF Lasting, BaseInv, ShapeOK

(* an answer that an agent gives through MCP does,                          *)
LEMMA McpKeepsBase ==
    ASSUME BaseInv, NEW c \in Cycle, McpAnswer(c) PROVE Lasting /\ BaseInv'
<1>1. UNCHANGED <<queue, sequence, nextSequence, now, cancelled, pc, own, victim, attempt, outcome,
                  stopPc, stopCycle, crashed, setup>>
  BY DEF McpAnswer, queueVars, runVars, stopVars
<1>2. Lasting
  <2> DEFINE n == R!Answered(cycles[c])
  <2>1. Save(c, n) /\ cycles[c] # None /\ cycles[c] \in R!Cycles /\ R!CanAnswer(cycles[c])
    BY DEF McpAnswer, BaseInv, RunTypeOK
  <2>2. ActiveC(c) /\ ~cycles[c].buildStarted
    BY <2>1 DEF R!CanAnswer, R!In, ActiveC, Exists, BaseInv, BuildShape
  <2>3. n \in R!Cycles /\ n.buildStarted = cycles[c].buildStarted
    BY <2>1, ReducerTypes, ReducerShapes
  <2> HIDE DEF n
  <2> QED BY <1>1, <2>1, <2>2, <2>3, OwnSaved, WriteLasts
<1>3. RunTypeOK'
  BY <1>1, <1>2 DEF BaseInv, RunTypeOK, TypeOK, Lasting
<1>4. DriverHoldsTarget'
  BY <1>1 DEF BaseInv, DriverHoldsTarget, IsRunning, QueueOf
<1>5. ASSUME NEW s \in Request PROVE Places(s)'
  <2>1. Places(s) /\ \A d : Exists(d) => Exists(d)'
    BY <1>2 DEF BaseInv, Lasting, Exists
  <2>2. pc[s] = "publish" \/ outcome[s] \in Judged => Mine(s)' = Mine(s)
    BY <1>1, <1>2, <2>1 DEF Places, Lasting, Exists, R!Active, Mine
  <2> QED BY <1>1, <2>1, <2>2 DEF Places
<1> QED BY <1>1, <1>2, <1>3, <1>4, <1>5 DEF Lasting, BaseInv, QueueShape

(* a crash with the recovery of the next start does,                        *)
LEMMA CrashKeepsBase == ASSUME BaseInv, Crash PROVE Lasting /\ BaseInv'
<1>1. /\ now' = now + 1 /\ now \in Nat /\ now < setup.seconds /\ setup.seconds \in Nat
      /\ UNCHANGED <<sequence, own, outcome, setup>>
      /\ setup.attempts \in Nat
  BY SetupAssumption DEF Crash, BaseInv, RunTypeOK, SetupType
<1>2. Lasting
  <2>1. /\ cycles' = [c \in Cycle |-> IF cycles[c] = None THEN None ELSE R!Recovered(cycles[c])]
        /\ updated' = [c \in Cycle |->
                     IF cycles[c] # None /\ R!InFlight(cycles[c]) THEN now' ELSE updated[c]]
        /\ cycles \in [Cycle -> R!Cycles \cup {None}] /\ updated \in [Cycle -> 0 .. now]
    BY DEF Crash, BaseInv, RunTypeOK
  <2>2. updated' \in [Cycle -> 0 .. now']
    BY <1>1, <2>1
  <2>3. ASSUME NEW c \in Cycle, cycles[c] # None
        PROVE  /\ cycles'[c] \in R!Cycles /\ cycles'[c] # None
               /\ ~R!Active(cycles[c]) => cycles'[c] = cycles[c]
               /\ ~cycles'[c].buildStarted
    <3>1. cycles[c] \in R!Cycles /\ cycles'[c] = R!Recovered(cycles[c])
      BY <2>1, <2>3
    <3>2. R!Recovered(cycles[c]) \in R!Cycles
      BY <3>1, ReducerTypes
    <3>3. ~R!InFlight(cycles[c]) => ~cycles[c].buildStarted
      BY <2>3 DEF BaseInv, BuildShape, R!In, R!InFlight
    <3>4. R!InFlight(cycles[c]) => ~R!Recovered(cycles[c]).buildStarted
      BY <3>1 DEF R!Recovered, R!Ended, R!Cycles
    <3>5. ~R!InFlight(cycles[c]) => R!Recovered(cycles[c]) = cycles[c]
      BY DEF R!Recovered
    <3> QED BY <3>1, <3>2, <3>3, <3>4, <3>5, NoneIsNoCycle DEF R!InFlight
  <2>4. cycles' \in [Cycle -> R!Cycles \cup {None}]
    BY <2>1, <2>3
  <2>5. \A c \in Cycle : cycles[c] = None => cycles'[c] = None
    BY <2>1
  <2> QED BY <2>2, <2>3, <2>4, <2>5 DEF Lasting, BuildShape
<1>3. EmptyQueue \in KeyQueue /\ QueueShape(EmptyQueue, sequence)
  <2>1. /\ EmptyQueue \in KeyQueue /\ EmptyQueue.running = None
        /\ EmptyQueue.interactive = None /\ Len(EmptyQueue.controllers) = 0
    BY EmptySeq DEF EmptyQueue, KeyQueue
  <2> QED BY <2>1 DEF QueueShape
<1>4. queue' = [k \in Key |-> EmptyQueue] /\ \A k \in Key : queue'[k] = EmptyQueue
  BY DEF Crash
<1>5. /\ pc' \in [Request -> {"idle", "done", "lost"}]
      /\ \A r \in Request : pc'[r] = "idle" => pc[r] = "idle"
      /\ stopPc' \in [Request -> {"idle", "done"}]
      /\ \A r \in Request : stopPc[r] = "idle" => stopPc'[r] = "idle"
  BY DEF Crash
<1>6. TypeOK'
  BY <1>1, <1>3, <1>4 DEF Crash, TypeOK, BaseInv, RunTypeOK
<1>7. RunTypeOK'
  BY <1>1, <1>2, <1>5, <1>6 DEF Crash, BaseInv, RunTypeOK, Lasting, PcStates,
     Ended, StopStates
<1>8. DriverHoldsTarget'
  BY <1>5 DEF DriverHoldsTarget, Driving
<1>9. ASSUME NEW s \in Request PROVE Places(s)'
  <2>1. Places(s) /\ \A c : Exists(c) => Exists(c)'
    BY <1>2 DEF BaseInv, Lasting, Exists
  <2>2. outcome[s] \in Judged => Mine(s)' = Mine(s)
    BY <1>1, <1>2, <2>1 DEF Places, Lasting, Exists, R!Active, Mine
  <2>3. /\ pc'[s] \in {"idle", "done", "lost"} /\ (pc'[s] = "idle" => pc[s] = "idle")
        /\ stopPc'[s] \in {"idle", "done"} /\ (stopPc[s] = "idle" => stopPc'[s] = "idle")
    BY <1>5
  <2> QED BY <1>1, <2>1, <2>2, <2>3 DEF Places, Early, Late, Terminating
<1>10. \A k \in Key : QueueShape(queue[k], sequence)'
  BY <1>1, <1>3, <1>4
<1> QED BY <1>2, <1>7, <1>8, <1>9, <1>10 DEF Lasting, BaseInv

(* it holds initially,                                                      *)
LEMMA InitBase == Init => BaseInv
<1> SUFFICES ASSUME Init PROVE BaseInv
  OBVIOUS
<1>1. /\ EmptyQueue \in KeyQueue /\ EmptyQueue.running = None
      /\ EmptyQueue.interactive = None /\ Len(EmptyQueue.controllers) = 0
  BY EmptySeq DEF EmptyQueue, KeyQueue
<1>2. TypeOK /\ \A k \in Key : QueueShape(queue[k], sequence)
  BY <1>1 DEF Init, QueueInit, TypeOK, QueueShape
<1>3. setup.attempts \in Nat /\ setup.seconds \in Nat
  BY SetupAssumption DEF Init, SetupType
<1>4. RunTypeOK
  <2>1. updated \in [Cycle -> 0 .. now] /\ now \in 0 .. setup.seconds
    BY <1>3 DEF Init
  <2>2. attempt \in [Request -> 0 .. setup.attempts]
    BY <1>3 DEF Init
  <2>3. /\ pc \in [Request -> PcStates] /\ outcome \in [Request -> Outcomes]
        /\ stopPc \in [Request -> StopStates]
    BY DEF Init, PcStates, Outcomes, StopStates
  <2>4. /\ cycles \in [Cycle -> R!Cycles \cup {None}] /\ own \in [Request -> Cycle \cup {None}]
        /\ victim \in [Request -> Cycle \cup {None}] /\ stopCycle \in [Request -> Cycle \cup {None}]
        /\ cancelled \subseteq Request /\ crashed \in BOOLEAN /\ setup \in Setups
    BY DEF Init
  <2> QED BY <1>2, <2>1, <2>2, <2>3, <2>4 DEF RunTypeOK
<1>5. DriverHoldsTarget /\ \A c \in Cycle : BuildShape(c)
  BY DEF Init, DriverHoldsTarget, Driving, BuildShape
<1>6. \A r \in Request : Places(r)
  BY DEF Init, Places, Early, Late, Terminating, Judged
<1> QED BY <1>2, <1>4, <1>5, <1>6 DEF BaseInv

(* every step of a run keeps it,                                            *)
LEMMA RunStepBase ==
    ASSUME BaseInv, NEW r \in Request, RunStep(r) PROVE Lasting /\ BaseInv'
<1>1. CASE \E x : OwnStep(r, x)
  BY <1>1, OwnStepKeepsBase
<1>2. CASE Answer(r) \/ StartBuild(r) \/ AppendVersion(r) \/ Complete(r)
  BY <1>1, <1>2, AnswerStep, StartBuildStep, AppendStep, CompleteStep
<1>3. CASE AttemptStarts(r) \/ FailureRead(r) \/ FailureRecorded(r) \/ Replan(r)
  BY <1>1, <1>3, AttemptStartsStep, FailureReadStep, FailureRecordedStep, ReplanStep
<1>4. CASE FinishError(r) \/ Plan(r) \/ Verify(r)
  BY <1>1, <1>4, FinishErrorStep, PlanOwnStep, VerifyStep
<1>5. CASE PlanRejected(r) \/ PlanMissing(r) \/ Render(r) \/ StorageFails(r)
  BY <1>1, <1>5, QuietSteps, StorageKeepsBase
<1>6. CASE Admitted(r) \/ Lookup(r) \/ Open(r) \/ Generated(r) \/ GenerateFails(r)
  BY <1>6, AdmittedKeepsBase, LookupKeepsBase, OpenKeepsBase, GeneratedKeepsBase,
     GenerateFailsKeepsBase
<1>7. CASE Finalize(r) \/ StopOwn(r) \/ Publish(r) \/ TerminateLookup(r) \/ TerminateFail(r) \/ TerminateStop(r)
  BY <1>7, LastStepsKeepBase, TerminateKeepsBase
<1>8. CASE CancelledInAdmit(r) \/ RunFinish(r) \/ QuestionStarts(r) \/ QuestionEnds(r)
  BY <1>8, LeavesKeepBase, QuestionStepsKeepBase
<1> QED BY <1>2, <1>3, <1>4, <1>5, <1>6, <1>7, <1>8 DEF RunStep

(* a tick of the clock does,                                                *)
LEMMA StandsStill ==
    ASSUME BaseInv,
           \/ Tick
           \/ UNCHANGED vars
    PROVE  Lasting /\ BaseInv'
<1>1. /\ UNCHANGED <<queue, sequence, nextSequence, cycles, updated, cancelled, pc, own, victim, attempt, outcome,
                     stopPc, stopCycle, crashed, setup>>
      /\ now' = now \/ (now' = now + 1 /\ now < setup.seconds)
  BY DEF Tick, vars, queueVars, cycleVars, runVars, stopVars
<1>2. now \in Nat /\ now' \in 0 .. setup.seconds /\ updated' \in [Cycle -> 0 .. now']
  BY <1>1, SetupAssumption DEF BaseInv, RunTypeOK, SetupType
<1>3. RunTypeOK'
  BY <1>1, <1>2 DEF BaseInv, RunTypeOK, TypeOK
<1>4. DriverHoldsTarget'
  BY <1>1 DEF BaseInv, DriverHoldsTarget, IsRunning, QueueOf
<1>5. \A r \in Request : Places(r)'
  BY <1>1 DEF BaseInv, Places, Exists, Mine
<1>6. (\A k \in Key : QueueShape(queue[k], sequence)') /\ \A c \in Cycle : BuildShape(c)'
  BY <1>1 DEF BaseInv, QueueShape, BuildShape
<1>7. Lasting
  BY <1>1, <1>2, <1>6 DEF BaseInv, RunTypeOK, Lasting
<1> QED BY <1>3, <1>4, <1>5, <1>6, <1>7 DEF BaseInv

(* and so every step does.                                                  *)
LEMMA NextBase == BaseInv /\ [Next]_vars => Lasting /\ BaseInv'
<1> SUFFICES ASSUME BaseInv, [Next]_vars PROVE Lasting /\ BaseInv'
  OBVIOUS
<1>1. ASSUME NEW r \in Request, SubmitRun(r) \/ RunStep(r) \/ StopReads(r) \/ StopStep(r)
      PROVE  Lasting /\ BaseInv'
  BY <1>1, SubmitKeepsBase, RunStepBase, StopKeepsBase DEF StopStep
<1> QED BY <1>1, McpKeepsBase, CrashKeepsBase, StandsStill DEF Next

-----------------------------------------------------------------------------
(* What holds in every circumstance *)

(* The base invariant holds throughout, whatever else touches the cycles.   *)
THEOREM BaseInvariant == Spec => []BaseInv
BY InitBase, NextBase, PTL DEF Spec

(* Each run works under its own claim of the thread, however stops,         *)
(* failures, crashes and newer input race it, and reports a completed       *)
(* exploration only for a cycle that completed.                             *)
THEOREM RunsOwnThreads == Spec => []RunsOwnTheirThread
<1>1. BaseInv => RunsOwnTheirThread
  BY DEF BaseInv, RunsOwnTheirThread, ReportedIsCompleted, Places, Judged, Mine
<1> QED BY <1>1, BaseInvariant, PTL

(* An ended cycle never changes again, although stops and failures act on   *)
(* cycles they looked up under an earlier lock.                             *)
THEOREM EndedCyclesAreFinal == Spec => EndedCycleIsFinal
<1>1. BaseInv /\ [Next]_vars =>
        [\A c \in Cycle :
           cycles[c] # None /\ ~R!Active(cycles[c]) => cycles'[c] = cycles[c]]_vars
  BY NextBase DEF Lasting
<1> QED BY <1>1, BaseInvariant, PTL DEF Spec, EndedCycleIsFinal

-----------------------------------------------------------------------------
(* Runs alone: which cycle is active and who works on it *)

(* Only one run drives, because it holds the target.                        *)
LEMMA OneDriver ==
    ASSUME BaseInv, NEW r \in Request, NEW s \in Request, pc[r] \in Driving, pc[s] \in Driving
    PROVE  r = s
BY RunAssumption DEF BaseInv, DriverHoldsTarget, IsRunning, QueueOf

(* A run that does not drive holds nothing and relies on nothing.           *)
LEMMA OthersKnow ==
    ASSUME NEW b, NEW s \in Request, pc[s] \notin Driving
    PROVE  RunKnows(s, b) /\ \A c : ~Holds(s, c)
BY DEF RunKnows, Holds, Driving, Late, Terminating, Attempting

(* Inside its attempts, the latest active cycle is the own cycle of the     *)
(* run: the provider error that is recorded in the latest one reaches the   *)
(* right one.                                                               *)
LEMMA LatestIsOwn ==
    ASSUME NEW b, AloneAt(b), NEW r \in Request, pc[r] \in Attempting, NEW c \in LatestActive, c # None
    PROVE  c = own[r] /\ R!Active(Mine(r))
<1>1. /\ ActiveC(c) /\ c \in Cycle
      /\ \A d \in Cycle : ActiveC(d) => updated[d] <= updated[c]
      /\ updated \in [Cycle -> 0 .. now] /\ now \in Nat
  BY LatestFacts, SetupAssumption DEF AloneAt, ActiveC, Exists, BaseInv, RunTypeOK,
     SetupType
<1>2. Fresh(c, b) => c = own[r]
  BY <1>1 DEF AloneAt, Separated, RunKnows, Attempting, Late
<1>3. CASE R!Active(Mine(r))
  <2>1. Fresh(own[r], b) /\ ActiveC(own[r]) /\ own[r] \in Cycle
    BY <1>3 DEF AloneAt, Separated, RunKnows, Attempting, Late, Fresh, ActiveC,
       Exists
  <2>2. Fresh(c, b)
    BY <1>1, <2>1 DEF Fresh, AloneAt
  <2> QED BY <1>2, <1>3, <2>2
<1>4. CASE ~R!Active(Mine(r))
  <2>1. ~crashed /\ b = 0
    BY <1>4 DEF AloneAt, Separated, RunKnows
  <2>2. Fresh(c, b)
    BY <1>1, <2>1 DEF Fresh
  <2> QED BY <1>1, <1>2, <1>4, <2>2 DEF ActiveC, Mine
<1> QED BY <1>3, <1>4

(* A written cycle is fresh if it is still active; nothing else changes.    *)
LEMMA WriteFacts ==
    ASSUME BaseInv, NEW c, NEW m, Writes(c, m), NEW b \in 0 .. now
    PROVE  /\ c \in Cycle /\ cycles'[c] = m /\ updated'[c] = now /\ m \in R!Cycles /\ m # None
           /\ ActiveC(c)' <=> R!Active(m)
           /\ Fresh(c, b)' <=> R!Active(m)
           /\ \A d \in Cycle : d # c => /\ cycles'[d] = cycles[d] /\ updated'[d] = updated[d]
                                        /\ ActiveC(d)' <=> ActiveC(d)
                                        /\ Fresh(d, b)' <=> Fresh(d, b)
<1>1. /\ c \in Cycle /\ cycles'[c] = m /\ updated'[c] = now /\ m \in R!Cycles /\ m # None
      /\ \A d \in Cycle : d # c => cycles'[d] = cycles[d] /\ updated'[d] = updated[d]
  BY NoneIsNoCycle DEF Writes, BaseInv, RunTypeOK, ActiveC, Exists
<1>2. now \in Nat /\ b \in Nat /\ now >= b
  BY SetupAssumption DEF BaseInv, RunTypeOK, SetupType
<1>3. ActiveC(c)' <=> R!Active(m)
  BY <1>1 DEF ActiveC, Exists
<1>4. \A d \in Cycle : d # c => (ActiveC(d)' <=> ActiveC(d))
  BY <1>1 DEF ActiveC, Exists
<1> QED BY <1>1, <1>2, <1>3, <1>4 DEF Fresh

(* What is active and fresh does not change while the cycles do not.        *)
LEMMA QuietFacts ==
    ASSUME UNCHANGED cycleVars, NEW b
    PROVE  \A d : /\ cycles'[d] = cycles[d] /\ (ActiveC(d)' <=> ActiveC(d))
                  /\ (Fresh(d, b)' <=> Fresh(d, b))
BY DEF cycleVars, ActiveC, Exists, Fresh

(* A step of a run on its own cycle keeps the cycles apart.                 *)
LEMMA OwnStepSeparates ==
    ASSUME NEW b, AloneAt(b), NEW r \in Request, NEW to, OwnStep(r, to)
    PROVE  Separated(b)'
<1>1. /\ BaseInv /\ BaseInv' /\ b \in 0 .. now /\ pc[r] \in Late /\ pc'[r] = to /\ UNCHANGED <<own, victim, crashed>>
      /\ to \in Late \cup {"error"} /\ own[r] \in Cycle
      /\ \A s \in Request : s # r => pc'[s] = pc[s] /\ pc[s] \notin Driving
  <2>1. BaseInv /\ BaseInv' /\ b \in 0 .. now
    BY OwnStepKeepsBase DEF AloneAt
  <2>2. pc[r] \in Late /\ to \in Late \cup {"error"} /\ UNCHANGED <<own, victim, crashed>>
    BY DEF OwnStep, RunMoves, RunFrame
  <2>3. pc' = [pc EXCEPT ![r] = to] /\ pc \in [Request -> PcStates]
    BY <2>1 DEF OwnStep, RunMoves, BaseInv, RunTypeOK
  <2>4. \A s \in Request : s # r => pc[s] \notin Driving
    BY <2>1, <2>2, OneDriver DEF Late, Driving
  <2>5. own[r] \in Cycle
    BY <2>1, <2>2, OwnFacts
  <2> QED BY <2>1, <2>2, <2>3, <2>4, <2>5
<1>2. \A d \in Cycle : Fresh(d, b) => d = own[r]
  BY <1>1 DEF AloneAt, Separated, RunKnows
<1>3. /\ \A d \in Cycle : d # own[r] => /\ cycles'[d] = cycles[d]
                                        /\ ActiveC(d)' <=> ActiveC(d)
                                        /\ Fresh(d, b)' <=> Fresh(d, b)
      /\ \/ /\ Fresh(own[r], b)' <=> Fresh(own[r], b)
            /\ cycles'[own[r]] = cycles[own[r]]
            /\ pc[r] = "answer" => to = "error"
            /\ ActiveC(own[r])' <=> ActiveC(own[r])
         \/ (Fresh(own[r], b)' <=> ActiveC(own[r])') /\ ActiveC(own[r])
  <2>1. CASE UNCHANGED cycleVars /\ (pc[r] = "answer" => to = "error")
    BY <1>1, <2>1, QuietFacts
  <2>2. CASE \E m : Writes(own[r], m)
    BY <1>1, <2>2, WriteFacts DEF Writes
  <2> QED BY <2>1, <2>2, ZenonT(40) DEF OwnStep
<1>4. OneFresh(b)'
  BY <1>2, <1>3 DEF OneFresh
<1>5. FreshIsHeld(b)'
  BY <1>1, <1>2, <1>3 DEF FreshIsHeld, Holds
<1>6. StaleRests(b)'
  BY <1>1, <1>3 DEF StaleRests, AloneAt, Separated
<1>7. RunKnows(r, b)'
  <2>1. /\ R!Active(Mine(r)') <=> ActiveC(own[r])'
        /\ R!Active(Mine(r)) <=> ActiveC(own[r])
    BY <1>1, OwnFacts, OwnStepKeepsBase DEF Mine, ActiveC, Exists, Lasting
  <2> QED BY <1>1, <1>2, <1>3, <2>1 DEF RunKnows, OwnStep, AloneAt, Separated,
     Waits, Late, Terminating, Attempting, Mine
<1>8. ASSUME NEW s \in Request, s # r PROVE RunKnows(s, b)'
  BY <1>1, <1>8, OthersKnow DEF RunKnows, Driving, Late, Terminating, Attempting
<1> QED BY <1>4, <1>5, <1>6, <1>7, <1>8 DEF Separated

(* A step of the driving run keeps them apart when it does so for that run: *)
(* nobody else holds anything.                                              *)
LEMMA DriverStep ==
    ASSUME NEW b, BaseInv, BaseInv', NEW r \in Request, pc[r] \in Driving,
           \A s \in Request : s # r => pc'[s] = pc[s],
           OneFresh(b)', FreshIsHeld(b)', StaleRests(b)', RunKnows(r, b)'
    PROVE  Separated(b)'
<1>1. ASSUME NEW s \in Request, s # r PROVE RunKnows(s, b)'
  <2>1. pc'[s] \notin Driving
    BY <1>1, OneDriver
  <2> QED BY <2>1 DEF RunKnows, Driving, Late, Terminating, Attempting
<1> QED BY <1>1 DEF Separated

(* A failed generation is a step of the run on its own cycle.               *)
LEMMA GenerateFailsIsOwn ==
    ASSUME NEW b, AloneAt(b), NEW r \in Request, GenerateFails(r) PROVE OwnStep(r, "failed")
<1>1. /\ UNCHANGED <<own, victim, attempt, outcome>> /\ RunFrame /\ UNCHANGED now
      /\ pc[r] = "generate" /\ Goto(r, "generate", "failed") /\ BaseInv
  BY DEF GenerateFails, RunFrame, Goto, AloneAt
<1>2. RunMoves(r, "failed") /\ outcome'[r] \notin Judged
  BY <1>1, MovePc, OwnFacts DEF BaseInv, RunTypeOK, PcStates, Driving, Late
<1>3. CASE UNCHANGED cycleVars
  BY <1>1, <1>2, <1>3, IdleStep DEF cycleVars, Late, PcStates, Driving, Attempting
<1>4. CASE \E c \in LatestActive \ {None} : \E m : Writes(c, m) /\ m.status = cycles[c].status
                                   /\ m.phase = "planning" /\ ~m.buildStarted
  <2>1. PICK c, m : c \in LatestActive \ {None} /\ Writes(c, m) /\ m.status = cycles[c].status
    BY <1>4
  <2>2. c = own[r] /\ R!Active(Mine(r))
    BY <1>1, <2>1, LatestIsOwn DEF Attempting
  <2>3. Mine(r)' = m /\ m.status = Mine(r).status
    BY <1>1, <2>1, <2>2 DEF Writes, Mine, BaseInv, RunTypeOK, ActiveC, Exists
  <2>4. Writes(own[r], m)
    BY <2>1, <2>2
  <2> QED BY <1>1, <1>2, <2>2, <2>3, <2>4 DEF OwnStep, R!Active, Late, Attempting
<1> QED BY <1>1, <1>3, <1>4, ProviderErrorLasts DEF GenerateFails

(* A generated answer keeps the cycles apart.                               *)
LEMMA GeneratedSeparates ==
    ASSUME NEW b, AloneAt(b), NEW r \in Request, Generated(r) PROVE Separated(b)'
<1>1. /\ UNCHANGED <<cycles, own, victim, attempt, outcome, crashed>> /\ RunFrame /\ UNCHANGED now
      /\ pc[r] = "generate" /\ Goto(r, "generate", "plan") /\ BaseInv /\ BaseInv'
  BY GeneratedKeepsBase DEF Generated, RunFrame, Goto, AloneAt
<1>2. PICK c \in LatestActive : updated' = [d \in Cycle |-> IF d = c THEN now ELSE updated[d]]
  BY DEF Generated
<1>3. /\ now \in Nat /\ b \in 0 .. now /\ updated \in [Cycle -> 0 .. now]
  BY <1>1, SetupAssumption DEF AloneAt, BaseInv, RunTypeOK, SetupType
<1>4. c # None => c = own[r] /\ R!Active(Mine(r)) /\ Fresh(own[r], b)
  <2>1. c # None => c = own[r] /\ R!Active(Mine(r))
    BY <1>1, <1>2, LatestIsOwn DEF Attempting
  <2> QED BY <1>1, <2>1 DEF AloneAt, Separated, RunKnows, Late
<1>5. \A d \in Cycle : (ActiveC(d)' <=> ActiveC(d)) /\ (Fresh(d, b)' <=> Fresh(d, b))
  BY <1>1, <1>2, <1>3, <1>4, NoneIsNoCycle DEF ActiveC, Exists, Fresh
<1>6. /\ pc'[r] = "plan" /\ \A s \in Request : s # r => pc'[s] = pc[s]
  BY <1>1 DEF Goto, BaseInv, RunTypeOK
<1>7. OneFresh(b)' /\ StaleRests(b)'
  BY <1>1, <1>5 DEF AloneAt, Separated, OneFresh, StaleRests
<1>8. FreshIsHeld(b)'
  BY <1>1, <1>5, <1>6 DEF AloneAt, Separated, FreshIsHeld, Holds, Late,
     Terminating, Waits
<1>9. RunKnows(r, b)'
  BY <1>1, <1>5, <1>6, OwnFacts DEF AloneAt, Separated, RunKnows, Late, Attempting,
     Terminating, Mine, Exists
<1> QED BY <1>1, <1>6, <1>7, <1>8, <1>9, DriverStep DEF Driving

(* So do steps, of a run that is not at work, that leave the cycles alone,  *)
LEMMA CalmStepSeparates ==
    ASSUME NEW b, AloneAt(b), BaseInv', NEW r \in Request, NEW to,
           UNCHANGED <<cycles, updated, own, crashed>>,
           pc[r] \notin Late \cup Terminating \cup {"error"},
           pc' = [pc EXCEPT ![r] = to], \A s \in Request : s # r => victim'[s] = victim[s],
           to \in {"lookup", "error", "finish", "done"}
    PROVE  Separated(b)'
<1>1. /\ pc'[r] = to /\ \A s \in Request : s # r => pc'[s] = pc[s]
      /\ BaseInv
  BY DEF AloneAt, BaseInv, RunTypeOK
<1>2. \A d : (ActiveC(d)' <=> ActiveC(d)) /\ (Fresh(d, b)' <=> Fresh(d, b)) /\ (Waits(d)' <=> Waits(d))
  BY DEF ActiveC, Exists, Fresh, Waits
<1>3. OneFresh(b)' /\ StaleRests(b)'
  BY <1>2 DEF AloneAt, Separated, OneFresh, StaleRests
<1>4. FreshIsHeld(b)'
  BY <1>1, <1>2 DEF AloneAt, Separated, FreshIsHeld, Holds
<1>5. \A s \in Request : RunKnows(s, b)'
  BY <1>1, <1>2 DEF AloneAt, Separated, RunKnows, Late, Attempting, Terminating,
     Mine
<1> QED BY <1>3, <1>4, <1>5 DEF Separated

(* namely admission, withdrawal, the end of a run and an early storage      *)
(* failure.                                                                 *)
LEMMA CalmSteps ==
    ASSUME NEW b, AloneAt(b), NEW r \in Request,
           \/ Admitted(r) \/ CancelledInAdmit(r) \/ RunFinish(r)
           \/ StorageFails(r) /\ pc[r] \notin Late
    PROVE  Separated(b)'
<1>1. BaseInv /\ setup.questions = {}
  BY DEF AloneAt, RunsAlone
<1>2. CASE Admitted(r)
  <2>1. pc[r] = "queued" /\ pc' = [pc EXCEPT ![r] = "lookup"]
        /\ UNCHANGED <<cycles, updated, own, victim, crashed>> /\ BaseInv'
    BY <1>1, <1>2, AdmittedKeepsBase DEF Admitted, Goto, RunFrame, cycleVars
  <2> QED BY <2>1, CalmStepSeparates DEF Late, Terminating
<1>3. CASE CancelledInAdmit(r) \/ RunFinish(r)
  <2>1. pc[r] \in {"queued", "finish"} /\ pc' = [pc EXCEPT ![r] = "done"]
        /\ UNCHANGED <<cycles, updated, own, crashed>> /\ BaseInv'
        /\ \A s \in Request : s # r => victim'[s] = victim[s]
    BY <1>1, <1>3, LeavesKeepBase DEF CancelledInAdmit, RunFinish, Goto, cycleVars,
       BaseInv, RunTypeOK
  <2> QED BY <2>1, CalmStepSeparates DEF Late, Terminating
<1>4. CASE StorageFails(r) /\ pc[r] \notin Late
  <2>1. pc[r] \in {"lookup", "open", "question"} /\ pc' = [pc EXCEPT ![r] = "error"]
        /\ UNCHANGED <<cycles, updated, own, victim, crashed>> /\ BaseInv'
    BY <1>1, <1>4, StorageKeepsBase DEF StorageFails, Fallible, Driving, Late,
       Goto, RunFrame, cycleVars
  <2> QED BY <2>1, CalmStepSeparates DEF Late, Terminating
<1> QED BY <1>2, <1>3, <1>4

(* The latest active cycle is the fresh one if there is one.                *)
LEMMA LatestIsFresh ==
    ASSUME NEW b, AloneAt(b), NEW c \in LatestActive, NEW d \in Cycle, Fresh(d, b)
    PROVE  c = d
<1>1. /\ updated \in [Cycle -> 0 .. now] /\ now \in Nat /\ b \in Nat
  BY SetupAssumption DEF AloneAt, BaseInv, RunTypeOK, SetupType
<1>2. c # None
  BY NoneIsNoCycle DEF LatestActive, ActiveCycles, Fresh, ActiveC, Exists
<1>3. ActiveC(c) /\ c \in Cycle /\ updated[d] <= updated[c]
  BY <1>2, LatestFacts DEF AloneAt, Fresh, ActiveC, Exists
<1>4. Fresh(c, b)
  BY <1>1, <1>3 DEF Fresh
<1> QED BY <1>3, <1>4 DEF AloneAt, Separated, OneFresh

(* A lookup takes up the fresh cycle, which then waits for its answer.      *)
LEMMA LookupSeparates ==
    ASSUME NEW b, AloneAt(b), NEW r \in Request, Lookup(r) PROVE Separated(b)'
<1>1. PICK c \in LatestActive :
         IF c # None /\ cycles[c].phase = "awaitingInput"
           THEN Goto(r, "lookup", "answer") /\ own' = [own EXCEPT ![r] = c]
           ELSE Goto(r, "lookup", "open") /\ UNCHANGED own
  BY DEF Lookup
<1>2. /\ UNCHANGED <<cycles, updated, victim, crashed>> /\ BaseInv /\ BaseInv'
      /\ pc[r] = "lookup" /\ \A s \in Request : s # r => pc'[s] = pc[s]
  BY <1>1, LookupKeepsBase DEF Lookup, RunFrame, Goto, cycleVars, AloneAt, BaseInv,
     RunTypeOK
<1>3. \A d : (ActiveC(d)' <=> ActiveC(d)) /\ (Fresh(d, b)' <=> Fresh(d, b)) /\ (Waits(d)' <=> Waits(d))
  BY <1>2 DEF ActiveC, Exists, Fresh, Waits
<1>4. ASSUME NEW d \in Cycle, Fresh(d, b) PROVE c = d /\ Waits(d)
  <2>1. \A s \in Request : ~Holds(s, d)
    <3>1. \A s \in Request : s # r => pc[s] \notin Driving
      BY <1>2, OneDriver DEF Driving
    <3> QED BY <1>2, <3>1, OthersKnow DEF Holds, Late, Terminating
  <2>2. Waits(d)
    BY <1>4, <2>1 DEF AloneAt, Separated, FreshIsHeld
  <2> QED BY <1>4, <2>2, LatestIsFresh
<1>5. \A d \in Cycle : Fresh(d, b) =>
         /\ pc'[r] = "answer" /\ own'[r] = d
  BY <1>1, <1>4, NoneIsNoCycle DEF Waits, Goto, AloneAt, BaseInv, RunTypeOK
<1>6. pc'[r] \in {"answer", "open"}
  BY <1>1 DEF Goto, AloneAt, BaseInv, RunTypeOK
<1>7. OneFresh(b)' /\ StaleRests(b)'
  BY <1>2, <1>3 DEF AloneAt, Separated, OneFresh, StaleRests
<1>8. FreshIsHeld(b)'
  BY <1>3, <1>4 DEF FreshIsHeld
<1>9. RunKnows(r, b)'
  BY <1>3, <1>5, <1>6 DEF RunKnows, Late, Terminating, Attempting
<1> QED BY <1>2, <1>7, <1>8, <1>9, DriverStep DEF Driving

(* A cycle is opened only where none is fresh.                              *)
LEMMA OpenSeparates ==
    ASSUME NEW b, AloneAt(b), NEW r \in Request, Open(r) PROVE Separated(b)'
<1>1. PICK c \in Cycle, v \in Version :
         /\ cycles[c] = None
         /\ cycles' = [cycles EXCEPT ![c] = R!StartedCycle(v, setup.attempts)]
         /\ updated' = [updated EXCEPT ![c] = now]
         /\ own' = [own EXCEPT ![r] = c]
  BY DEF Open
<1>2. /\ UNCHANGED <<victim, crashed>> /\ BaseInv /\ BaseInv'
      /\ pc[r] = "open" /\ pc'[r] = "attempt" /\ \A s \in Request : s # r => pc'[s] = pc[s]
      /\ cycles \in [Cycle -> R!Cycles \cup {None}] /\ updated \in [Cycle -> 0 .. now]
      /\ own'[r] = c
  BY <1>1, OpenKeepsBase DEF Open, RunFrame, Goto, AloneAt, BaseInv, RunTypeOK
<1>3. /\ cycles'[c] = R!StartedCycle(v, setup.attempts) /\ updated'[c] = now
      /\ \A d \in Cycle : d # c => /\ cycles'[d] = cycles[d]
                                   /\ (ActiveC(d)' <=> ActiveC(d))
                                   /\ (Fresh(d, b)' <=> Fresh(d, b))
  BY <1>1, <1>2 DEF ActiveC, Exists, Fresh
<1>4. ActiveC(c)' /\ R!Active(cycles'[c])
  <2>1. R!Active(cycles'[c])
    BY <1>3 DEF R!StartedCycle, R!Active
  <2>2. cycles'[c] # None
    BY <1>2, <1>1, OpenKeepsBase DEF Places, BaseInv, Late, Exists
  <2> QED BY <2>1, <2>2 DEF ActiveC, Exists
<1>5. Fresh(c, b)'
  <2>1. now >= b
    BY SetupAssumption DEF AloneAt, BaseInv, RunTypeOK, SetupType
  <2> QED BY <1>3, <1>4, <2>1 DEF Fresh
<1>6. \A d \in Cycle : Fresh(d, b)' => d = c
  BY <1>2, <1>3 DEF AloneAt, Separated, RunKnows
<1>7. OneFresh(b)' /\ FreshIsHeld(b)'
  BY <1>2, <1>6 DEF OneFresh, FreshIsHeld, Holds, Late
<1>8. StaleRests(b)'
  BY <1>3, <1>5 DEF AloneAt, Separated, StaleRests
<1>9. RunKnows(r, b)'
  BY <1>2, <1>4, <1>5, <1>6 DEF RunKnows, Late, Terminating, Attempting, Mine
<1> QED BY <1>2, <1>7, <1>8, <1>9, DriverStep DEF Driving

(* A step of the driving run after which no cycle is fresh keeps the cycles *)
(* apart.                                                                   *)
LEMMA NoneFresh ==
    ASSUME NEW b, BaseInv, BaseInv', NEW r \in Request, pc[r] \in Driving,
           \A s \in Request : s # r => pc'[s] = pc[s], pc'[r] = "finish",
           \A d \in Cycle : ~Fresh(d, b)', StaleRests(b)'
    PROVE  Separated(b)'
<1>1. OneFresh(b)' /\ FreshIsHeld(b)' /\ RunKnows(r, b)'
  BY DEF OneFresh, FreshIsHeld, RunKnows, Late, Terminating, Attempting
<1> QED BY <1>1, DriverStep

(* A stopped cycle is not active, or was ended already; no other changes.   *)
LEMMA StopFacts ==
    ASSUME BaseInv, NEW c \in Cycle, cycles[c] # None, UNCHANGED now, NEW b,
           SaveIf(R!CanStop(cycles[c]), c, R!Stopped(cycles[c]))
    PROVE  /\ ~ActiveC(c)'
           /\ \A d \in Cycle : d # c => /\ cycles'[d] = cycles[d]
                                        /\ (ActiveC(d)' <=> ActiveC(d))
                                        /\ (Fresh(d, b)' <=> Fresh(d, b))
<1> DEFINE n == R!Stopped(cycles[c])
<1>1. CASE R!CanStop(cycles[c])
  <2>1. /\ ActiveC(c) /\ n \in R!Cycles /\ n.status = "stopped" /\ ~n.buildStarted /\ Save(c, n)
    BY <1>1, EndsTypes, ReducerShapes DEF SaveIf, BaseInv, RunTypeOK
  <2> HIDE DEF n
  <2>2. PICK m : Writes(c, m) /\ m.status = n.status
    BY <2>1, OwnSaved
  <2>3. /\ cycles'[c] = m /\ \A d \in Cycle : d # c => cycles'[d] = cycles[d] /\ updated'[d] = updated[d]
    BY <2>2 DEF Writes, BaseInv, RunTypeOK
  <2> QED BY <2>1, <2>2, <2>3 DEF ActiveC, Exists, Fresh, R!Active
<1>2. CASE ~R!CanStop(cycles[c])
  BY <1>2, QuietFacts DEF SaveIf, ActiveC, R!CanStop
<1> QED BY <1>1, <1>2

(* A run that stops its own cycle leaves none that is fresh,                *)
LEMMA StopOwnSeparates ==
    ASSUME NEW b, AloneAt(b), NEW r \in Request, StopOwn(r) PROVE Separated(b)'
<1>1. /\ UNCHANGED <<own, victim, now>> /\ BaseInv /\ BaseInv' /\ pc[r] = "stopOwn" /\ pc'[r] = "finish"
      /\ \A s \in Request : s # r => pc'[s] = pc[s]
      /\ own[r] \in Cycle /\ cycles[own[r]] # None
      /\ SaveIf(R!CanStop(cycles[own[r]]), own[r], R!Stopped(cycles[own[r]]))
  BY LastStepsKeepBase, OwnFacts DEF StopOwn, Goto, RunFrame, AloneAt, BaseInv,
     RunTypeOK, Mine, Late, Exists
<1>2. /\ ~ActiveC(own[r])'
      /\ \A d \in Cycle : d # own[r] => /\ cycles'[d] = cycles[d]
                                        /\ (ActiveC(d)' <=> ActiveC(d))
                                        /\ (Fresh(d, b)' <=> Fresh(d, b))
  BY <1>1, StopFacts
<1>3. \A d \in Cycle : ~Fresh(d, b)'
  BY <1>1, <1>2 DEF AloneAt, Separated, RunKnows, Late, Fresh
<1>4. StaleRests(b)'
  BY <1>1, <1>2 DEF AloneAt, Separated, StaleRests
<1> QED BY <1>1, <1>3, <1>4, NoneFresh DEF Driving

(* as does one that published; one that finalizes leaves its cycle waiting  *)
(* or ended.                                                                *)
LEMMA PublishSeparates ==
    ASSUME NEW b, AloneAt(b), NEW r \in Request, Publish(r) \/ Finalize(r) PROVE Separated(b)'
<1>1. /\ UNCHANGED <<cycles, updated, own, victim>> /\ BaseInv /\ BaseInv'
      /\ pc[r] \in {"publish", "finalize"} /\ pc'[r] = "finish"
      /\ \A s \in Request : s # r => pc'[s] = pc[s]
  BY LastStepsKeepBase DEF Publish, Finalize, Goto, RunFrame, AloneAt, BaseInv,
     RunTypeOK, cycleVars
<1>2. \A d : (ActiveC(d)' <=> ActiveC(d)) /\ (Fresh(d, b)' <=> Fresh(d, b)) /\ (Waits(d)' <=> Waits(d))
  BY <1>1 DEF ActiveC, Exists, Fresh, Waits
<1>3. ASSUME NEW d \in Cycle, Fresh(d, b) PROVE Waits(d)
  <2>1. d = own[r] /\ R!Active(Mine(r))
    BY <1>1, <1>3 DEF AloneAt, Separated, RunKnows, Late, Fresh, ActiveC, Mine
  <2>2. pc[r] = "finalize"
    BY <1>1, <2>1 DEF BaseInv, Places, R!Active
  <2> QED BY <2>1, <2>2 DEF AloneAt, Separated, RunKnows
<1>4. OneFresh(b)' /\ StaleRests(b)'
  BY <1>1, <1>2 DEF AloneAt, Separated, OneFresh, StaleRests
<1>5. FreshIsHeld(b)'
  BY <1>2, <1>3 DEF FreshIsHeld
<1>6. RunKnows(r, b)'
  BY <1>1 DEF RunKnows, Late, Terminating, Attempting
<1> QED BY <1>1, <1>4, <1>5, <1>6, DriverStep DEF Driving

(* The cycle a run looks up to end after an error is the fresh one.         *)
LEMMA TerminateLookupSeparates ==
    ASSUME NEW b, AloneAt(b), NEW r \in Request, TerminateLookup(r) PROVE Separated(b)'
<1>1. PICK c \in LatestActive :
         /\ Goto(r, "error", IF c = None THEN "finish" ELSE "terminateFail")
         /\ victim' = [victim EXCEPT ![r] = c]
  BY DEF TerminateLookup
<1>2. /\ UNCHANGED <<cycles, updated, own>> /\ BaseInv /\ BaseInv'
      /\ pc[r] = "error" /\ pc'[r] = IF c = None THEN "finish" ELSE "terminateFail"
      /\ \A s \in Request : s # r => pc'[s] = pc[s]
      /\ victim'[r] = c
  BY <1>1, TerminateKeepsBase DEF TerminateLookup, Goto, RunFrame, AloneAt,
     BaseInv, RunTypeOK, cycleVars
<1>3. \A d : /\ (ActiveC(d)' <=> ActiveC(d)) /\ (Fresh(d, b)' <=> Fresh(d, b)) /\ (Waits(d)' <=> Waits(d))
             /\ cycles'[d] = cycles[d]
  BY <1>2 DEF ActiveC, Exists, Fresh, Waits
<1>4. ASSUME NEW d \in Cycle, Fresh(d, b)
      PROVE  c = d /\ pc'[r] = "terminateFail" /\ (Waits(d) \/ own[r] = d)
  <2>1. c = d
    BY <1>4, LatestIsFresh
  <2>2. \A s \in Request : s # r => ~Holds(s, d)
    BY <1>2, OneDriver, OthersKnow DEF Driving
  <2>3. Holds(r, d) => own[r] = d
    BY <1>2 DEF Holds, Terminating
  <2>4. Waits(d) \/ own[r] = d
    BY <1>4, <2>2, <2>3 DEF AloneAt, Separated, FreshIsHeld
  <2> QED BY <1>2, <2>1, <2>4, NoneIsNoCycle
<1>5. OneFresh(b)' /\ StaleRests(b)'
  BY <1>2, <1>3 DEF AloneAt, Separated, OneFresh, StaleRests
<1>6. FreshIsHeld(b)'
  <2> SUFFICES ASSUME NEW d \in Cycle, Fresh(d, b)', ~Waits(d)' PROVE Holds(r, d)'
    BY DEF FreshIsHeld
  <2>1. Fresh(d, b) /\ ~Waits(d)
    BY <1>3
  <2> QED BY <1>2, <1>4, <2>1 DEF Holds, Terminating
<1>7. RunKnows(r, b)'
  BY <1>2, <1>3, <1>4 DEF RunKnows, Late, Terminating, Attempting
<1> QED BY <1>2, <1>5, <1>6, <1>7, DriverStep DEF Driving

(* The failure of that cycle keeps the cycles apart,                        *)
LEMMA TerminateFailSeparates ==
    ASSUME NEW b, AloneAt(b), NEW r \in Request, TerminateFail(r) PROVE Separated(b)'
<1>0. BaseInv /\ BaseInv'
  BY TerminateKeepsBase DEF AloneAt
<1> PICK c \in Cycle : c = victim[r] /\ cycles[c] # None
  BY <1>0 DEF TerminateFail, Goto, BaseInv, Places, Exists, Terminating
<1> DEFINE n == R!Failed(cycles[c])
<1>1. /\ UNCHANGED <<own, victim, now>> /\ b \in 0 .. now
      /\ pc[r] = "terminateFail" /\ pc'[r] = "terminateStop"
      /\ \A s \in Request : s # r => pc'[s] = pc[s]
      /\ SaveIf(R!CanFail(cycles[c]), c, n)
  BY <1>0 DEF TerminateFail, Goto, RunFrame, AloneAt, BaseInv, RunTypeOK
<1>2. \A d \in Cycle : Fresh(d, b) => d = c
  BY <1>1 DEF AloneAt, Separated, RunKnows, Terminating
<1>3. CASE R!CanFail(cycles[c])
  <2>1. /\ ActiveC(c) /\ n \in R!Cycles /\ n.phase = "planning" /\ ~n.buildStarted /\ Save(c, n)
    BY <1>0, <1>1, <1>3, EndsTypes, ReducerShapes DEF SaveIf, BaseInv, RunTypeOK
  <2> HIDE DEF n
  <2>2. PICK m : Writes(c, m) /\ m.phase = n.phase /\ m.buildStarted = n.buildStarted
    BY <1>0, <1>1, <2>1, OwnSaved
  <2>3. /\ cycles'[c] = m /\ ~R!InFlight(m)
        /\ ActiveC(c)' <=> R!Active(m)
        /\ Fresh(c, b)' <=> R!Active(m)
        /\ \A d \in Cycle : d # c => /\ cycles'[d] = cycles[d]
                                     /\ (ActiveC(d)' <=> ActiveC(d))
                                     /\ (Fresh(d, b)' <=> Fresh(d, b))
    BY <1>0, <1>1, <2>1, <2>2, WriteFacts DEF R!InFlight, R!InFlightPhases
  <2>4. OneFresh(b)' /\ StaleRests(b)'
    BY <1>2, <2>3 DEF AloneAt, Separated, OneFresh, StaleRests
  <2>5. FreshIsHeld(b)'
    BY <1>1, <1>2, <2>3 DEF FreshIsHeld, Holds, Terminating
  <2>6. RunKnows(r, b)'
    BY <1>1, <1>2, <2>3 DEF RunKnows, Late, Terminating, Attempting
  <2> QED BY <1>0, <1>1, <2>4, <2>5, <2>6, DriverStep DEF Driving
<1>4. CASE ~R!CanFail(cycles[c])
  <2>1. \A d : /\ cycles'[d] = cycles[d] /\ (ActiveC(d)' <=> ActiveC(d)) /\ (Fresh(d, b)' <=> Fresh(d, b))
    BY <1>0, <1>1, <1>4, QuietFacts DEF SaveIf
  <2>2. \A d \in Cycle : ~Fresh(d, b)
    BY <1>2, <1>4 DEF R!CanFail, Fresh, ActiveC
  <2>3. OneFresh(b)' /\ StaleRests(b)' /\ FreshIsHeld(b)'
    BY <2>1, <2>2 DEF AloneAt, Separated, OneFresh, StaleRests, FreshIsHeld
  <2>4. RunKnows(r, b)'
    BY <1>1, <2>1, <2>2 DEF RunKnows, Late, Terminating, Attempting
  <2> QED BY <1>0, <1>1, <2>3, <2>4, DriverStep DEF Driving
<1> QED BY <1>3, <1>4

(* and so does its stop, after which none is fresh.                         *)
LEMMA TerminateStopSeparates ==
    ASSUME NEW b, AloneAt(b), NEW r \in Request, TerminateStop(r) PROVE Separated(b)'
<1>0. BaseInv /\ BaseInv'
  BY TerminateKeepsBase DEF AloneAt
<1> PICK c \in Cycle : c = victim[r] /\ cycles[c] # None
  BY <1>0 DEF TerminateStop, Goto, BaseInv, Places, Exists, Terminating
<1>1. /\ UNCHANGED <<own, victim, now>>
      /\ pc[r] = "terminateStop" /\ pc'[r] = "finish"
      /\ \A s \in Request : s # r => pc'[s] = pc[s]
      /\ SaveIf(R!CanStop(cycles[c]), c, R!Stopped(cycles[c]))
  BY <1>0 DEF TerminateStop, Goto, RunFrame, AloneAt, BaseInv, RunTypeOK
<1>2. /\ ~ActiveC(c)'
      /\ \A d \in Cycle : d # c => /\ cycles'[d] = cycles[d]
                                   /\ (ActiveC(d)' <=> ActiveC(d))
                                   /\ (Fresh(d, b)' <=> Fresh(d, b))
  BY <1>0, <1>1, StopFacts
<1>3. \A d \in Cycle : ~Fresh(d, b)'
  BY <1>1, <1>2 DEF AloneAt, Separated, RunKnows, Terminating, Fresh
<1>4. StaleRests(b)'
  BY <1>2 DEF AloneAt, Separated, StaleRests
<1> QED BY <1>0, <1>1, <1>3, <1>4, NoneFresh DEF Driving

(* A submitted run does not disturb the one at work.                        *)
LEMMA SubmitSeparates ==
    ASSUME NEW b, AloneAt(b), NEW r \in Request, SubmitRun(r) PROVE Separated(b)'
<1>1. /\ UNCHANGED <<cycles, updated, own, victim, crashed>> /\ BaseInv
      /\ \A s \in Request : pc[s] \in Driving => pc'[s] = pc[s]
      /\ \A s \in Request : pc'[s] # pc[s] => pc'[s] \in {"queued", "done"}
  BY SubmitKeepsBase DEF SubmitRun, cycleVars, AloneAt
<1>2. \A d : (ActiveC(d)' <=> ActiveC(d)) /\ (Fresh(d, b)' <=> Fresh(d, b)) /\ (Waits(d)' <=> Waits(d))
  BY <1>1 DEF ActiveC, Exists, Fresh, Waits
<1>3. OneFresh(b)' /\ StaleRests(b)'
  BY <1>1, <1>2 DEF AloneAt, Separated, OneFresh, StaleRests
<1>4. FreshIsHeld(b)'
  <2>1. \A s \in Request, d \in Cycle : Holds(s, d) => Holds(s, d)'
    BY <1>1 DEF Holds, Late, Terminating, Driving
  <2> QED BY <1>2, <2>1 DEF AloneAt, Separated, FreshIsHeld
<1>5. \A s \in Request : RunKnows(s, b)'
  <2> SUFFICES ASSUME NEW s \in Request PROVE RunKnows(s, b)'
    OBVIOUS
  <2>1. CASE pc'[s] = pc[s]
    BY <1>1, <1>2, <2>1 DEF AloneAt, Separated, RunKnows, Mine
  <2>2. CASE pc'[s] \in {"queued", "done"}
    BY <2>2 DEF RunKnows, Late, Attempting, Terminating
  <2> QED BY <1>1, <2>1, <2>2
<1> QED BY <1>3, <1>4, <1>5 DEF Separated

(* The steps of a stop keep the cycles apart; one that changes a cycle      *)
(* comes before any crash.                                                  *)
LEMMA StopSeparates ==
    ASSUME NEW b, AloneAt(b), NEW r \in Request,
           StopReads(r) \/ StopCancels(r) \/ StopLooksUp(r) \/ StopApplies(r)
    PROVE  Separated(b)'
<1>1. /\ UNCHANGED <<now, pc, own, victim, crashed>> /\ BaseInv /\ BaseInv' /\ ~crashed
  <2>1. r \in setup.stoppable /\ BaseInv'
    BY StopKeepsBase DEF AloneAt
  <2> QED BY <2>1 DEF StopReads, StopCancels, StopLooksUp, StopApplies, StopFrame,
     runVars, AloneAt, RunsAlone
<1>2. CASE UNCHANGED cycleVars
  <2>1. \A d : (ActiveC(d)' <=> ActiveC(d)) /\ (Fresh(d, b)' <=> Fresh(d, b)) /\ (Waits(d)' <=> Waits(d))
    BY <1>2, QuietFacts DEF Waits
  <2>2. UNCHANGED cycles
    BY <1>2 DEF cycleVars
  <2>3. OneFresh(b)' /\ StaleRests(b)'
    BY <2>1, <2>2 DEF AloneAt, Separated, OneFresh, StaleRests
  <2>4. FreshIsHeld(b)'
    BY <1>1, <2>1, <2>2 DEF AloneAt, Separated, FreshIsHeld, Holds
  <2>5. \A s \in Request : RunKnows(s, b)'
    BY <1>1, <2>1, <2>2 DEF AloneAt, Separated, RunKnows, Mine
  <2> QED BY <2>3, <2>4, <2>5 DEF Separated
<1>3. CASE StopApplies(r)
  <2>1. PICK c \in Cycle : /\ cycles[c] # None
                            /\ SaveIf(R!CanStop(cycles[c]), c, R!Stopped(cycles[c]))
    BY <1>1, <1>3 DEF StopApplies, StopGoto, BaseInv, Places, Exists, SaveIf
  <2>2. /\ ~ActiveC(c)'
        /\ \A d \in Cycle : d # c => /\ cycles'[d] = cycles[d]
                                     /\ (ActiveC(d)' <=> ActiveC(d))
                                     /\ (Fresh(d, b)' <=> Fresh(d, b))
    BY <1>1, <2>1, StopFacts
  <2>3. \A d \in Cycle : Fresh(d, b)' => d # c /\ Fresh(d, b)
    BY <2>2 DEF Fresh
  <2>4. OneFresh(b)' /\ StaleRests(b)'
    BY <2>2, <2>3 DEF AloneAt, Separated, OneFresh, StaleRests
  <2>5. FreshIsHeld(b)'
    BY <1>1, <2>2, <2>3 DEF AloneAt, Separated, FreshIsHeld, Holds, Waits
  <2>6. ASSUME NEW s \in Request PROVE RunKnows(s, b)'
    <3>1. pc[s] \in Late => /\ own[s] \in Cycle
                            /\ Exists(own[s]) /\ Exists(own[s])'
                            /\ R!Active(Mine(s)') => own[s] # c /\ Mine(s)' = Mine(s)
      BY <1>1, <2>2, OwnFacts DEF Mine, ActiveC, Exists, BaseInv, Places
    <3> QED BY <1>1, <2>2, <2>3, <3>1 DEF AloneAt, Separated, RunKnows, Late,
       Attempting, Mine, Waits
  <2> QED BY <2>4, <2>5, <2>6 DEF Separated
<1> QED BY <1>2, <1>3 DEF StopReads, StopCancels, StopLooksUp

(* Every step of a run keeps the cycles apart,                              *)
LEMMA RunStepSeparates ==
    ASSUME NEW b, AloneAt(b), NEW r \in Request, RunStep(r) PROVE Separated(b)'
<1>1. BaseInv /\ (QuestionStarts(r) \/ QuestionEnds(r) => FALSE)
  BY DEF AloneAt, RunsAlone, QuestionStarts, QuestionEnds, Goto, BaseInv, Places
<1>2. CASE Answer(r) \/ StartBuild(r) \/ AppendVersion(r) \/ Complete(r) \/ AttemptStarts(r)
  BY <1>1, <1>2, AnswerStep, StartBuildStep, AppendStep, CompleteStep,
     AttemptStartsStep, OwnStepSeparates
<1>3. CASE FailureRead(r) \/ FailureRecorded(r) \/ Replan(r) \/ FinishError(r) \/ Plan(r) \/ Verify(r)
  BY <1>1, <1>3, FailureReadStep, FailureRecordedStep, ReplanStep, FinishErrorStep,
     PlanOwnStep, VerifyStep, OwnStepSeparates
<1>4. CASE PlanRejected(r) \/ PlanMissing(r) \/ Render(r) \/ StorageFails(r)
  BY <1>1, <1>4, QuietSteps, OwnStepSeparates, CalmSteps
<1>5. CASE Admitted(r) \/ CancelledInAdmit(r) \/ RunFinish(r) \/ Lookup(r) \/ Open(r)
  BY <1>5, CalmSteps, LookupSeparates, OpenSeparates
<1>6. CASE Generated(r) \/ GenerateFails(r) \/ Finalize(r) \/ StopOwn(r) \/ Publish(r)
  BY <1>6, GeneratedSeparates, GenerateFailsIsOwn, OwnStepSeparates,
     StopOwnSeparates, PublishSeparates
<1>7. CASE TerminateLookup(r) \/ TerminateFail(r) \/ TerminateStop(r)
  BY <1>7, TerminateLookupSeparates, TerminateFailSeparates, TerminateStopSeparates
<1> QED BY <1>1, <1>2, <1>3, <1>4, <1>5, <1>6, <1>7 DEF RunStep

(* and so does the clock.                                                   *)
LEMMA StillSeparates ==
    ASSUME NEW b, AloneAt(b), Tick \/ UNCHANGED vars
    PROVE  Separated(b)'
<1>1. UNCHANGED <<cycles, updated, pc, own, victim, crashed>>
  BY DEF Tick, vars, cycleVars, runVars
<1>2. \A d : (ActiveC(d)' <=> ActiveC(d)) /\ (Fresh(d, b)' <=> Fresh(d, b)) /\ (Waits(d)' <=> Waits(d))
  BY <1>1 DEF ActiveC, Exists, Fresh, Waits
<1>3. OneFresh(b)' /\ StaleRests(b)'
  BY <1>1, <1>2 DEF AloneAt, Separated, OneFresh, StaleRests
<1>4. FreshIsHeld(b)'
  BY <1>1, <1>2 DEF AloneAt, Separated, FreshIsHeld, Holds
<1>5. \A s \in Request : RunKnows(s, b)'
  BY <1>1, <1>2 DEF AloneAt, Separated, RunKnows, Mine
<1> QED BY <1>3, <1>4, <1>5 DEF Separated

(* Every cycle that is still active after a crash is older than the crash   *)
(* and rests.                                                               *)
LEMMA CrashSeparates ==
    ASSUME BaseInv, Crash, NEW b, b = now + 1
    PROVE  Separated(b)' /\ b \in 0 .. now'
<1>1. /\ now' = now + 1 /\ now \in Nat
      /\ cycles' = [c \in Cycle |-> IF cycles[c] = None THEN None ELSE R!Recovered(cycles[c])]
      /\ updated' = [c \in Cycle |->
                   IF cycles[c] # None /\ R!InFlight(cycles[c]) THEN now' ELSE updated[c]]
      /\ updated \in [Cycle -> 0 .. now]
  BY SetupAssumption DEF Crash, BaseInv, RunTypeOK, SetupType
<1>2. ASSUME NEW c \in Cycle, ActiveC(c)'
      PROVE  ~R!InFlight(cycles'[c]) /\ ~Fresh(c, b)'
  <2>1. cycles[c] # None /\ cycles'[c] = R!Recovered(cycles[c]) /\ cycles[c] \in R!Cycles
    BY <1>1, <1>2 DEF ActiveC, Exists, BaseInv, RunTypeOK
  <2>2. ~R!InFlight(cycles[c])
    <3>1. R!InFlight(cycles[c]) => R!Recovered(cycles[c]).status = "interrupted"
      BY <2>1 DEF R!Recovered, R!Ended, R!Cycles
    <3> QED BY <1>2, <2>1, <3>1 DEF ActiveC, R!Active
  <2>3. cycles'[c] = cycles[c] /\ updated'[c] = updated[c]
    BY <1>1, <2>1, <2>2 DEF R!Recovered
  <2>4. updated'[c] < b
    BY <1>1, <2>3
  <2> QED BY <1>1, <2>2, <2>3, <2>4 DEF Fresh
<1>3. \A c \in Cycle : ~Fresh(c, b)'
  BY <1>2 DEF Fresh
<1>4. \A r \in Request : pc'[r] \in {"idle", "done", "lost"}
  BY DEF Crash
<1>5. \A r \in Request : RunKnows(r, b)'
  BY <1>3, <1>4 DEF RunKnows, Late, Terminating, Attempting
<1>6. OneFresh(b)' /\ FreshIsHeld(b)' /\ StaleRests(b)'
  BY <1>2, <1>3 DEF OneFresh, FreshIsHeld, StaleRests
<1> QED BY <1>1, <1>5, <1>6 DEF Separated

(* The invariant holds initially,                                           *)
LEMMA InitAlone == Init => RunInv
<1> SUFFICES ASSUME Init PROVE RunInv
  OBVIOUS
<1>1. BaseInv
  BY InitBase
<1>2. Separated(0)
  BY DEF Init, Separated, OneFresh, FreshIsHeld, StaleRests, RunKnows, Fresh,
     ActiveC, Exists, Late, Terminating, Attempting
<1>3. 0 \in 0 .. now
  BY DEF Init
<1> QED BY <1>1, <1>2, <1>3 DEF RunInv, AloneInv

(* and every step keeps it.                                                 *)
LEMMA NextAlone == RunInv /\ [Next]_vars => RunInv'
<1> SUFFICES ASSUME RunInv, [Next]_vars, RunsAlone'
             PROVE  BaseInv' /\ \E b \in 0 .. now' : (~crashed' => b = 0) /\ Separated(b)'
  BY NextBase DEF RunInv, AloneInv
<1>1. BaseInv /\ BaseInv'
  BY NextBase DEF RunInv
<1>2. CASE Crash
  <2>1. PICK b : b = now + 1
    OBVIOUS
  <2>2. Separated(b)' /\ b \in 0 .. now'
    BY <1>1, <1>2, <2>1, CrashSeparates
  <2> QED BY <1>1, <1>2, <2>2 DEF Crash
<1>3. CASE ~Crash
  <2>1. UNCHANGED <<crashed, setup>> /\ (now' = now \/ now' = now + 1)
    <3> USE DEF runVars, stopVars
    <3>1. CASE UNCHANGED vars
      BY <3>1 DEF vars
    <3>2. CASE Tick \/ \E c \in Cycle : McpAnswer(c)
      BY <3>2 DEF Tick, McpAnswer
    <3>3. ASSUME NEW r \in Request, SubmitRun(r) \/ StopReads(r) \/ StopStep(r)
          PROVE  UNCHANGED <<crashed, setup, now>>
      BY <3>3 DEF SubmitRun, StopReads, StopStep, StopCancels, StopLooksUp,
         StopApplies, StopFrame
    <3>4. ASSUME NEW r \in Request, RunStep(r) PROVE UNCHANGED <<crashed, setup, now>>
      BY <3>4 DEF RunStep, Admitted, CancelledInAdmit, RunFinish, Lookup,
         StorageFails, Answer, Open, AttemptStarts, Generated, GenerateFails, Plan,
         PlanRejected, PlanMissing, FailureRead, FailureRecorded, StartBuild,
         AppendVersion, Render, Verify, Complete, Replan, Publish, Finalize,
         FinishError, StopOwn, TerminateLookup, TerminateFail, TerminateStop,
         QuestionStarts, QuestionEnds, Transition, RunFrame
    <3> QED BY <1>3, <3>1, <3>2, <3>3, <3>4 DEF Next
  <2>2. PICK b \in 0 .. now : AloneAt(b)
    BY <2>1 DEF RunInv, AloneInv, AloneAt, RunsAlone
  <2>3. b \in 0 .. now' /\ (~crashed' => b = 0)
    BY <1>1, <2>1, <2>2, SetupAssumption DEF AloneAt, BaseInv, RunTypeOK, SetupType
  <2>4. ASSUME NEW c \in Cycle, McpAnswer(c) PROVE FALSE
    BY <2>2, <2>4 DEF AloneAt, RunsAlone, McpAnswer
  <2>5. Separated(b)'
    BY <1>3, <2>2, <2>4, RunStepSeparates, SubmitSeparates, StopSeparates,
       StillSeparates
       DEF Next, StopStep
  <2> QED BY <1>1, <2>3, <2>5
<1> QED BY <1>2, <1>3

-----------------------------------------------------------------------------
(* What holds where runs are alone *)

(* The inductive invariant of the driver holds throughout.                  *)
THEOREM RunInvariant == Spec => []RunInv
BY InitAlone, NextAlone, PTL DEF Spec

(* Where nothing but runs touches the cycles, a cycle that is building,     *)
(* verifying or deciding has a live run working on it, across failures,     *)
(* stops and a crash: none is left that nobody will ever move or end.       *)
THEOREM CyclesHaveDrivers == Spec => []InFlightHasDriver
<1>1. RunInv => InFlightHasDriver
  <2> SUFFICES ASSUME RunInv, RunsAlone, NEW c \in Cycle, cycles[c] # None, R!InFlight(cycles[c])
               PROVE  \E r \in Request : own[r] = c /\ pc[r] \in Driving
    BY DEF InFlightHasDriver
  <2>1. PICK b \in 0 .. now : Separated(b)
    BY DEF RunInv, AloneInv
  <2>2. ActiveC(c) /\ Fresh(c, b)
    BY <2>1 DEF Separated, StaleRests, ActiveC, Exists, R!InFlight
  <2>3. ~Waits(c)
    BY <2>2 DEF RunInv, BaseInv, BuildShape, R!In, R!InFlight, R!InFlightPhases,
       Waits
  <2>4. PICK r \in Request : Holds(r, c)
    BY <2>1, <2>2, <2>3 DEF Separated, FreshIsHeld
  <2> QED BY <2>4 DEF Holds, Driving, Late, Terminating
<1> QED BY <1>1, RunInvariant, PTL

(* Runs that end take their cycle with them or leave it waiting for the     *)
(* answer that the next run gives: a thread never has two active cycles.    *)
THEOREM AtMostOneActive == Spec => []OneActiveCycle
<1>1. RunInv => OneActiveCycle
  <2> SUFFICES ASSUME RunInv, RunsAlone, ~crashed PROVE Cardinality(ActiveCycles) <= 1
    BY DEF OneActiveCycle
  <2>1. Separated(0)
    BY DEF RunInv, AloneInv
  <2>2. \A c \in ActiveCycles : Fresh(c, 0)
    BY SetupAssumption DEF ActiveCycles, Fresh, ActiveC, Exists, RunInv, BaseInv,
       RunTypeOK, SetupType
  <2>3. \A c, d \in ActiveCycles : c = d
    BY <2>1, <2>2 DEF Separated, OneFresh, ActiveCycles
  <2>4. ActiveCycles = {} \/ \E c : ActiveCycles = {c}
    BY <2>3
  <2>5. Cardinality({}) = 0 /\ \A c : Cardinality({c}) = 1
    BY FS_EmptySet, FS_Singleton
  <2>6. Cardinality(ActiveCycles) = 0 \/ Cardinality(ActiveCycles) = 1
    BY <2>4, <2>5, Zenon
  <2> QED BY <2>6
<1> QED BY <1>1, RunInvariant, PTL

=============================================================================
