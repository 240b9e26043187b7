-------------------------- MODULE ExplorationCycle --------------------------
(***************************************************************************)
(* One durable exploration cycle driven by its commands                    *)
(* (next_exploration_cycle, answer_exploration_cycle,                      *)
(* stop_exploration_cycle in commands/exploration_cycle.rs) in any order,  *)
(* with restarts of the app between them.  A command loads, reduces and    *)
(* saves under the database lock inside a savepoint, so it is one step;    *)
(* a rejected command changes nothing and is not a step.                   *)
(***************************************************************************)
EXTENDS CycleReducer

CONSTANTS
    Budget,     \* the budget the cycle is started with
    Cost,       \* the costs that plans ask for
    MaxPlans    \* bound: BUILD plans accepted in a behaviour

ASSUME CycleAssumption ==
    Budget \in Nat \ {0} /\ Cost \subseteq Nat /\ MaxPlans \in Nat

VARIABLES
    cycle,          \* the packet and its build_started column
    plannedBuilds,  \* history: BUILD plans accepted
    builds,         \* history: versions appended
    verifiedBuild   \* history: the build the recorded evidence is about

historyVars == <<plannedBuilds, builds, verifiedBuild>>
vars == <<cycle, plannedBuilds, builds, verifiedBuild>>

Init ==
    /\ \E base \in Version : cycle = StartedCycle(base, Budget)
    /\ plannedBuilds = 0 /\ builds = 0 /\ verifiedBuild = 0

Plan(p) ==
    /\ CanPlan(cycle, p)
    /\ plannedBuilds < MaxPlans
    /\ cycle' = Saved(cycle, Planned(cycle, p))
    /\ plannedBuilds' = plannedBuilds + IF p.action = "build" THEN 1 ELSE 0
    /\ UNCHANGED <<builds, verifiedBuild>>

StartBuild(source) ==
    /\ CanStartBuild(cycle, source)
    /\ cycle' = Saved(cycle, BuildStarted(cycle))
    /\ UNCHANGED historyVars

(* The result may be the current version again (BuildUnchanged). *)
Append(result) ==
    /\ CanAppend(cycle)
    /\ cycle' = Saved(cycle, Appended(cycle, result))
    /\ builds' = builds + 1
    /\ UNCHANGED <<plannedBuilds, verifiedBuild>>

Verify(v) ==
    /\ CanVerify(cycle, v)
    /\ cycle' = Verified(cycle, v)
    /\ verifiedBuild' = builds
    /\ UNCHANGED <<plannedBuilds, builds>>

Decide(d) ==
    /\ CanDecide(cycle, d)
    /\ cycle' = Saved(cycle, Decided(cycle, d))
    /\ UNCHANGED historyVars

Answer ==
    /\ CanAnswer(cycle)
    /\ cycle' = Saved(cycle, Answered(cycle))
    /\ UNCHANGED historyVars

ProviderFailed ==
    /\ CanFail(cycle)
    /\ cycle' = Saved(cycle, Failed(cycle))
    /\ UNCHANGED historyVars

Stop ==
    /\ CanStop(cycle)
    /\ cycle' = Saved(cycle, Stopped(cycle))
    /\ UNCHANGED historyVars

Restart ==
    /\ cycle' = Recovered(cycle)
    /\ UNCHANGED historyVars

Next ==
    \/ \E p \in [action : PlanActions, source : Version,
                 wellFormed : BOOLEAN, cost : Cost] : Plan(p)
    \/ \E s \in Version : StartBuild(s) \/ Append(s)
    \/ \E v \in Verification : Verify(v)
    \/ \E d \in Decisions : Decide(d)
    \/ Answer \/ ProviderFailed \/ Stop \/ Restart

Spec == Init /\ [][Next]_vars

-----------------------------------------------------------------------------
(* Properties *)

CycleTypeOK ==
    /\ cycle \in Cycles
    /\ plannedBuilds \in Nat /\ builds \in Nat /\ verifiedBuild \in Nat

(* A decision is taken on evidence about the version the last build        *)
(* appended, although the packet keeps the evidence of earlier rounds      *)
(* through every replan, failure and restart.                              *)
DecidesOnCurrentEvidence ==
    cycle.phase = "deciding" =>
      /\ cycle.verification.version = cycle.current
      /\ verifiedBuild = builds

(* A completed cycle has chosen its current version on a green verdict     *)
(* about that version, recorded after its last build.                      *)
CompletedIsGreen ==
    cycle.status = "completed" =>
      /\ cycle.chosen = cycle.current
      /\ cycle.verification = [version |-> cycle.current, verdict |-> "green"]
      /\ verifiedBuild = builds

(* Retries, replans and answers never spend more than the budget. *)
WithinBudget == cycle.used <= cycle.budget

(* Every appended version was planned: no sequence of failures and retries *)
(* appends twice for one accepted BUILD plan.                              *)
BuildsArePlanned ==
    builds + (IF In(cycle, "building") THEN 1 ELSE 0) <= plannedBuilds

(* The phase and the status agree: an ended cycle is idle with no build    *)
(* open, an active one is somewhere, and a build is open only while        *)
(* building.                                                               *)
EndedIsIdle ==
    /\ Active(cycle) <=> cycle.phase # "idle"
    /\ cycle.buildStarted => cycle.phase = "building"

(* An ended cycle is history: no late command and no restart revives or    *)
(* rewrites it.                                                            *)
EndedIsFinal == [][Active(cycle)]_cycle

=============================================================================
