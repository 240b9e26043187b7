---------------------------- MODULE CycleReducer ----------------------------
(***************************************************************************)
(* The four-stage exploration controller (PLAN, BUILD, VERIFY, DECIDE):    *)
(* src-tauri/src/exploration_cycle.rs, and the part of commands/           *)
(* exploration_cycle.rs that turns a transition into the durable packet.   *)
(*                                                                         *)
(* A cycle is one record.  Each transition is a guard (the early returns)  *)
(* and a result.  Text fields are kept only where a guard or a property    *)
(* reads them: a plan says whether its required fields are present, a      *)
(* question whether it is pending.  Counters are u32 with saturating_sub.  *)
(***************************************************************************)
EXTENDS Integers

CONSTANTS Version, None

ASSUME NoneAssumption == None \notin Version

Phases == {"idle", "planning", "building", "verifying", "deciding", "awaitingInput"}
InFlightPhases == {"building", "verifying", "deciding"}
Statuses == {"active", "interrupted", "completed", "stopped"}
Verdicts == {"green", "red"}
PlanActions == {"build", "ask", "stop"}
Decisions == {"complete", "replan", "compare", "ask", "stop"}

Verification == [version : Version, verdict : Verdicts]
NoVerification == [version |-> None, verdict |-> "none"]

Plans == [action : PlanActions, source : Version, wellFormed : BOOLEAN, cost : Nat]

Cycles == [phase : Phases, status : Statuses,
           current : Version, chosen : Version \cup {None},
           question : BOOLEAN, budget : Nat, used : Nat,
           verification : Verification \cup {NoVerification},
           buildStarted : BOOLEAN]

(* start_exploration_cycle_core refuses a zero budget. *)
StartedCycle(base, budget) ==
    [phase |-> "planning", status |-> "active",
     current |-> base, chosen |-> None,
     question |-> FALSE, budget |-> budget, used |-> 0,
     verification |-> NoVerification, buildStarted |-> FALSE]

Active(c) == c.status = "active"
In(c, phase) == Active(c) /\ c.phase = phase
Ended(c, status) == [c EXCEPT !.phase = "idle", !.status = status]
Asking(c) == [c EXCEPT !.phase = "awaitingInput", !.question = TRUE]

-----------------------------------------------------------------------------
(* accept_plan *)

Remaining(c) == IF c.used > c.budget THEN 0 ELSE c.budget - c.used

(* Fault: the budget check forgets what earlier builds have used. *)
CanPlanFaultBudget(c, p) ==
    /\ In(c, "planning")
    /\ p.source = c.current
    /\ p.wellFormed
    /\ IF p.action = "build" THEN p.cost <= c.budget ELSE p.cost = 0

CanPlan(c, p) ==
    /\ In(c, "planning")
    /\ p.source = c.current
    /\ p.wellFormed
    /\ IF p.action = "build" THEN p.cost <= Remaining(c) ELSE p.cost = 0

Planned(c, p) ==
    CASE p.action = "build" ->
           [c EXCEPT !.used = @ + p.cost, !.phase = "building",
                     !.verification = NoVerification, !.buildStarted = FALSE]
      [] p.action = "ask" -> Asking(c)
      [] p.action = "stop" -> Ended(c, "stopped")

(* BuildStarted and BuildAppended *)

CanStartBuild(c, source) == In(c, "building") /\ source = c.current
BuildStarted(c) == [c EXCEPT !.buildStarted = TRUE]

CanAppend(c) == In(c, "building") /\ c.buildStarted

Appended(c, result) ==
    [c EXCEPT !.current = result, !.phase = "verifying", !.buildStarted = FALSE]

(* record_verification; the stored digest is compared by the command. *)

(* Fault: evidence about any version of the thread is accepted. *)
CanVerifyFaultAnyVersion(c, v) == In(c, "verifying")

CanVerify(c, v) == In(c, "verifying") /\ v.version = c.current
Verified(c, v) == [c EXCEPT !.verification = v, !.phase = "deciding"]

(* decide *)

(* Fault: a red verdict does not stop a completion. *)
CanDecideFaultRed(c, d) == In(c, "deciding") /\ c.verification # NoVerification

CanDecide(c, d) ==
    /\ In(c, "deciding")
    /\ c.verification # NoVerification
    /\ d = "complete" => c.verification.verdict = "green"

Decided(c, d) ==
    CASE d = "complete" -> [Ended(c, "completed") EXCEPT !.chosen = c.current]
      [] d \in {"replan", "compare"} ->
           [c EXCEPT !.phase = "planning", !.verification = NoVerification]
      [] d = "ask" -> Asking(c)
      [] d = "stop" -> Ended(c, "stopped")

(* answer *)
CanAnswer(c) == In(c, "awaitingInput")
Answered(c) == [c EXCEPT !.phase = "planning", !.question = FALSE]

(* ProviderFailed and Stopped are accepted in every phase of an active     *)
(* cycle, AwaitingInput included; neither clears the pending question.     *)
CanFail(c) == Active(c)
Failed(c) == [c EXCEPT !.phase = "planning", !.buildStarted = FALSE]

(* Fault: the status check in front of every transition is dropped. *)
CanStopFaultInactive(c) == TRUE

CanStop(c) == Active(c)
Stopped(c) == [Ended(c, "stopped") EXCEPT !.buildStarted = FALSE]

-----------------------------------------------------------------------------
(* The durable packet *)

(* save_transition: the packet takes the reducer's state and its           *)
(* build_started, but last_verification is only written by VERIFY: the     *)
(* reducer forgets evidence that the next command restores from the packet. *)
Saved(old, new) == [new EXCEPT !.verification = old.verification]

(* mark_in_flight_interrupted, for one cycle, when the app starts. *)
InFlight(c) == Active(c) /\ (c.buildStarted \/ c.phase \in InFlightPhases)

(* Fault: only a build that was started counts as in flight. *)
RecoveredFaultOpenBuildsOnly(c) ==
    IF Active(c) /\ c.buildStarted
      THEN [Ended(c, "interrupted") EXCEPT !.buildStarted = FALSE]
      ELSE c

Recovered(c) ==
    IF InFlight(c)
      THEN [Ended(c, "interrupted") EXCEPT !.buildStarted = FALSE]
      ELSE c

=============================================================================
