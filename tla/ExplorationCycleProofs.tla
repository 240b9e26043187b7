------------------------ MODULE ExplorationCycleProofs ------------------------
(***************************************************************************)
(* Proofs about ExplorationCycle, for every set of versions, every budget  *)
(* and every set of plan costs: the inductive invariant IInv, the safety   *)
(* invariants that follow from it, and that an ended cycle is final.       *)
(***************************************************************************)
EXTENDS ExplorationCycle, TLAPS

(* CompletedIsGreen is inductive only together with the evidence a decision *)
(* is taken on; the phase and status must agree for the steps that end.     *)
IInv ==
    /\ CycleTypeOK
    /\ EndedIsIdle
    /\ DecidesOnCurrentEvidence
    /\ CompletedIsGreen
    /\ WithinBudget
    /\ BuildsArePlanned

(* A cycle that was just started satisfies the invariant. *)
LEMMA ExplorationInit == Init => IInv
BY NoneAssumption, CycleAssumption
   DEF Init, StartedCycle, IInv, CycleTypeOK, Cycles, Phases, Statuses,
       NoVerification, EndedIsIdle, Active, In, DecidesOnCurrentEvidence,
       CompletedIsGreen, WithinBudget, BuildsArePlanned

(* Every command that is accepted, and every restart, keeps it. *)
LEMMA ExplorationStep == IInv /\ [Next]_vars => IInv'
<1> SUFFICES ASSUME IInv, [Next]_vars PROVE IInv'
  OBVIOUS
<1>1. ASSUME NEW p \in Plans, Plan(p) PROVE IInv'
  <2>0. /\ Active(cycle) /\ cycle.phase = "planning"
        /\ cycle \in Cycles /\ p.cost \in Nat /\ p.action \in PlanActions
        /\ p.action = "build" => cycle.used + p.cost <= cycle.budget
    BY <1>1 DEF Plan, CanPlan, In, Remaining, Plans, IInv, CycleTypeOK, WithinBudget, Cycles
  <2>1. CASE p.action = "build"
    <3>1. cycle' = [cycle EXCEPT !.used = cycle.used + p.cost, !.phase = "building",
                                 !.verification = cycle.verification, !.buildStarted = FALSE]
      BY <1>1, <2>0, <2>1 DEF Plan, Planned, Saved, Cycles
    <3>2. /\ cycle' \in Cycles /\ Active(cycle') /\ cycle'.phase = "building"
          /\ cycle'.buildStarted = FALSE /\ cycle'.budget = cycle.budget
          /\ cycle'.used = cycle.used + p.cost
      <4>1. cycle.used + p.cost \in Nat
        BY <2>0 DEF Cycles
      <4>2. "building" \in Phases
        BY DEF Phases
      <4>3. QED
        BY <2>0, <3>1, <4>1, <4>2 DEF Cycles, Active
    <3>3. plannedBuilds' = plannedBuilds + 1 /\ UNCHANGED <<builds, verifiedBuild>>
      BY <1>1, <2>1 DEF Plan
    <3>4. CycleTypeOK' /\ EndedIsIdle' /\ DecidesOnCurrentEvidence' /\ CompletedIsGreen'
      BY <3>2, <3>3 DEF IInv, CycleTypeOK, EndedIsIdle, DecidesOnCurrentEvidence,
         CompletedIsGreen, Active
    <3>5. WithinBudget' /\ BuildsArePlanned'
      BY <2>0, <2>1, <3>2, <3>3 DEF IInv, CycleTypeOK, WithinBudget, BuildsArePlanned, In
    <3>6. QED
      BY <3>4, <3>5 DEF IInv
  <2>2. CASE p.action # "build"
    <3>1. /\ cycle' \in Cycles /\ ~In(cycle', "building")
          /\ cycle'.budget = cycle.budget /\ cycle'.used = cycle.used
          /\ cycle'.buildStarted = cycle.buildStarted
          /\ \/ Active(cycle') /\ cycle'.phase = "awaitingInput"
             \/ cycle'.status = "stopped" /\ cycle'.phase = "idle"
      BY <1>1, <2>0, <2>2 DEF Plan, Planned, PlanActions, Saved, Asking, Ended, Cycles,
         Phases, Statuses, Active, In
    <3>2. UNCHANGED historyVars
      BY <1>1, <2>2 DEF Plan, historyVars, IInv, CycleTypeOK
    <3>3. CycleTypeOK' /\ EndedIsIdle' /\ DecidesOnCurrentEvidence' /\ CompletedIsGreen'
      BY <2>0, <3>1, <3>2 DEF IInv, CycleTypeOK, EndedIsIdle, DecidesOnCurrentEvidence,
         CompletedIsGreen, Active, historyVars
    <3>4. WithinBudget' /\ BuildsArePlanned'
      BY <2>0, <3>1, <3>2 DEF IInv, CycleTypeOK, WithinBudget, BuildsArePlanned, In, historyVars
    <3>5. QED
      BY <3>3, <3>4 DEF IInv
  <2>3. QED
    BY <2>1, <2>2
<1>2. ASSUME NEW s \in Version, StartBuild(s) PROVE IInv'
  <2>1. /\ cycle' \in Cycles
        /\ In(cycle, "building")
        /\ cycle'.phase = cycle.phase
        /\ cycle'.status = cycle.status
        /\ cycle'.current = cycle.current
        /\ cycle'.budget = cycle.budget
        /\ cycle'.used = cycle.used
    BY <1>2, NoneAssumption DEF StartBuild, CanStartBuild, BuildStarted, IInv, CycleTypeOK,
       Saved, Cycles, Phases, Statuses, NoVerification, Active, In, Ended
  <2>2. CycleTypeOK'
    BY <1>2, <2>1 DEF StartBuild, IInv, CycleTypeOK, historyVars
  <2>3. EndedIsIdle'
    BY <1>2, <2>1 DEF StartBuild, IInv, EndedIsIdle, Active, In
  <2>4. DecidesOnCurrentEvidence' /\ CompletedIsGreen'
    BY <1>2, <2>1, NoneAssumption DEF StartBuild, IInv, EndedIsIdle, DecidesOnCurrentEvidence,
       CompletedIsGreen, CycleTypeOK, Cycles, historyVars, Active, In
  <2>5. WithinBudget' /\ BuildsArePlanned'
    BY <1>2, <2>1 DEF StartBuild, IInv, WithinBudget, BuildsArePlanned,
       CycleTypeOK, Cycles, historyVars, Active, In
  <2>6. QED
    BY <2>2, <2>3, <2>4, <2>5 DEF IInv
<1>3. ASSUME NEW s \in Version, Append(s) PROVE IInv'
  <2>1. /\ cycle' \in Cycles
        /\ In(cycle, "building")
        /\ cycle'.status = cycle.status
        /\ cycle'.budget = cycle.budget
        /\ cycle'.used = cycle.used
        /\ cycle'.phase = "verifying"
        /\ cycle'.buildStarted = FALSE
    BY <1>3, NoneAssumption DEF Append, CanAppend, Appended, IInv, CycleTypeOK,
       Saved, Cycles, Phases, Statuses, NoVerification, Active, In, Ended
  <2>2. CycleTypeOK'
    BY <1>3, <2>1 DEF Append, IInv, CycleTypeOK, historyVars
  <2>3. EndedIsIdle'
    BY <1>3, <2>1 DEF Append, IInv, EndedIsIdle, Active, In
  <2>4. DecidesOnCurrentEvidence' /\ CompletedIsGreen'
    BY <1>3, <2>1, NoneAssumption DEF Append, IInv, EndedIsIdle, DecidesOnCurrentEvidence,
       CompletedIsGreen, CycleTypeOK, Cycles, historyVars, Active, In
  <2>5. WithinBudget' /\ BuildsArePlanned'
    BY <1>3, <2>1 DEF Append, IInv, WithinBudget, BuildsArePlanned,
       CycleTypeOK, Cycles, historyVars, Active, In
  <2>6. QED
    BY <2>2, <2>3, <2>4, <2>5 DEF IInv
<1>4. ASSUME NEW v \in Verification, Verify(v) PROVE IInv'
  <2>1. /\ cycle' \in Cycles
        /\ In(cycle, "verifying")
        /\ v.version = cycle.current
        /\ cycle'.status = cycle.status
        /\ cycle'.budget = cycle.budget
        /\ cycle'.used = cycle.used
        /\ cycle'.current = cycle.current
        /\ cycle'.buildStarted = cycle.buildStarted
        /\ cycle'.phase = "deciding"
        /\ cycle'.verification = v
    BY <1>4, NoneAssumption DEF Verify, CanVerify, Verified, Verification, IInv, CycleTypeOK,
       Saved, Cycles, Phases, Statuses, NoVerification, Active, In, Ended
  <2>2. CycleTypeOK'
    BY <1>4, <2>1 DEF Verify, IInv, CycleTypeOK, historyVars
  <2>3. EndedIsIdle'
    BY <1>4, <2>1 DEF Verify, IInv, EndedIsIdle, Active, In
  <2>4. DecidesOnCurrentEvidence' /\ CompletedIsGreen'
    BY <1>4, <2>1, NoneAssumption DEF Verify, IInv, EndedIsIdle, DecidesOnCurrentEvidence,
       CompletedIsGreen, CycleTypeOK, Cycles, historyVars, Active, In
  <2>5. WithinBudget' /\ BuildsArePlanned'
    BY <1>4, <2>1 DEF Verify, IInv, WithinBudget, BuildsArePlanned,
       CycleTypeOK, Cycles, historyVars, Active, In
  <2>6. QED
    BY <2>2, <2>3, <2>4, <2>5 DEF IInv
<1>5. ASSUME NEW d \in Decisions, Decide(d) PROVE IInv'
  <2>1. /\ Active(cycle) /\ cycle.phase = "deciding" /\ cycle \in Cycles
        /\ cycle.verification \in Verification
        /\ d = "complete" => cycle.verification.verdict = "green"
    BY <1>5 DEF Decide, CanDecide, In, IInv, CycleTypeOK, Cycles
  <2>2. /\ cycle' \in Cycles
        /\ cycle'.budget = cycle.budget /\ cycle'.used = cycle.used
        /\ cycle'.buildStarted = cycle.buildStarted
        /\ cycle'.current = cycle.current /\ cycle'.verification = cycle.verification
        /\ \/ /\ Active(cycle') /\ cycle'.phase \in {"planning", "awaitingInput"}
           \/ cycle'.status = "stopped" /\ cycle'.phase = "idle"
           \/ /\ d = "complete" /\ cycle'.status = "completed"
              /\ cycle'.phase = "idle" /\ cycle'.chosen = cycle.current
    <3>1. CASE d = "complete"
      BY <1>5, <2>1, <3>1 DEF Decide, Decided, Saved, Ended, Cycles, Phases, Statuses
    <3>2. CASE d \in {"replan", "compare"}
      BY <1>5, <2>1, <3>2 DEF Decide, Decided, Saved, Cycles, Phases, Active
    <3>3. CASE d = "ask"
      BY <1>5, <2>1, <3>3 DEF Decide, Decided, Saved, Asking, Cycles, Phases, Active
    <3>4. CASE d = "stop"
      BY <1>5, <2>1, <3>4 DEF Decide, Decided, Saved, Ended, Cycles, Phases, Statuses
    <3>5. QED
      BY <3>1, <3>2, <3>3, <3>4 DEF Decisions
  <2>3. UNCHANGED historyVars
    BY <1>5 DEF Decide
  <2>4. cycle.verification = [version |-> cycle.verification.version,
                              verdict |-> cycle.verification.verdict]
    BY <2>1 DEF Verification
  <2>5. CycleTypeOK' /\ EndedIsIdle' /\ DecidesOnCurrentEvidence'
    BY <2>1, <2>2, <2>3 DEF IInv, CycleTypeOK, EndedIsIdle, DecidesOnCurrentEvidence,
       Active, historyVars
  <2>6. CompletedIsGreen'
    BY <2>1, <2>2, <2>3, <2>4 DEF IInv, DecidesOnCurrentEvidence, CompletedIsGreen,
       Active, historyVars
  <2>7. WithinBudget' /\ BuildsArePlanned'
    BY <2>1, <2>2, <2>3 DEF IInv, CycleTypeOK, WithinBudget, BuildsArePlanned, In,
       Active, historyVars
  <2>8. QED
    BY <2>5, <2>6, <2>7 DEF IInv
<1>6. CASE Answer
  <2>1. /\ cycle' \in Cycles
        /\ In(cycle, "awaitingInput")
        /\ cycle'.status = cycle.status
        /\ cycle'.budget = cycle.budget
        /\ cycle'.used = cycle.used
        /\ cycle'.buildStarted = cycle.buildStarted
        /\ cycle'.phase = "planning"
    BY <1>6, NoneAssumption DEF Answer, CanAnswer, Answered, IInv, CycleTypeOK,
       Saved, Cycles, Phases, Statuses, NoVerification, Active, In, Ended
  <2>2. CycleTypeOK'
    BY <1>6, <2>1 DEF Answer, IInv, CycleTypeOK, historyVars
  <2>3. EndedIsIdle'
    BY <1>6, <2>1 DEF Answer, IInv, EndedIsIdle, Active, In
  <2>4. DecidesOnCurrentEvidence' /\ CompletedIsGreen'
    BY <1>6, <2>1, NoneAssumption DEF Answer, IInv, EndedIsIdle, DecidesOnCurrentEvidence,
       CompletedIsGreen, CycleTypeOK, Cycles, historyVars, Active, In
  <2>5. WithinBudget' /\ BuildsArePlanned'
    BY <1>6, <2>1 DEF Answer, IInv, WithinBudget, BuildsArePlanned,
       CycleTypeOK, Cycles, historyVars, Active, In
  <2>6. QED
    BY <2>2, <2>3, <2>4, <2>5 DEF IInv
<1>7. CASE ProviderFailed
  <2>1. /\ cycle' \in Cycles
        /\ Active(cycle)
        /\ cycle'.status = cycle.status
        /\ cycle'.budget = cycle.budget
        /\ cycle'.used = cycle.used
        /\ cycle'.phase = "planning"
        /\ cycle'.buildStarted = FALSE
    BY <1>7, NoneAssumption DEF ProviderFailed, CanFail, Failed, IInv, CycleTypeOK,
       Saved, Cycles, Phases, Statuses, NoVerification, Active, In, Ended
  <2>2. CycleTypeOK'
    BY <1>7, <2>1 DEF ProviderFailed, IInv, CycleTypeOK, historyVars
  <2>3. EndedIsIdle'
    BY <1>7, <2>1 DEF ProviderFailed, IInv, EndedIsIdle, Active, In
  <2>4. DecidesOnCurrentEvidence' /\ CompletedIsGreen'
    BY <1>7, <2>1, NoneAssumption DEF ProviderFailed, IInv, EndedIsIdle, DecidesOnCurrentEvidence,
       CompletedIsGreen, CycleTypeOK, Cycles, historyVars, Active, In
  <2>5. WithinBudget' /\ BuildsArePlanned'
    BY <1>7, <2>1 DEF ProviderFailed, IInv, WithinBudget, BuildsArePlanned,
       CycleTypeOK, Cycles, historyVars, Active, In
  <2>6. QED
    BY <2>2, <2>3, <2>4, <2>5 DEF IInv
<1>8. CASE Stop
  <2>1. /\ cycle' \in Cycles
        /\ Active(cycle)
        /\ cycle'.budget = cycle.budget
        /\ cycle'.used = cycle.used
        /\ cycle'.phase = "idle"
        /\ cycle'.status = "stopped"
        /\ cycle'.buildStarted = FALSE
    BY <1>8, NoneAssumption DEF Stop, CanStop, Stopped, IInv, CycleTypeOK,
       Saved, Cycles, Phases, Statuses, NoVerification, Active, In, Ended
  <2>2. CycleTypeOK'
    BY <1>8, <2>1 DEF Stop, IInv, CycleTypeOK, historyVars
  <2>3. EndedIsIdle'
    BY <1>8, <2>1 DEF Stop, IInv, EndedIsIdle, Active, In
  <2>4. DecidesOnCurrentEvidence' /\ CompletedIsGreen'
    BY <1>8, <2>1, NoneAssumption DEF Stop, IInv, EndedIsIdle, DecidesOnCurrentEvidence,
       CompletedIsGreen, CycleTypeOK, Cycles, historyVars, Active, In
  <2>5. WithinBudget' /\ BuildsArePlanned'
    BY <1>8, <2>1 DEF Stop, IInv, WithinBudget, BuildsArePlanned,
       CycleTypeOK, Cycles, historyVars, Active, In
  <2>6. QED
    BY <2>2, <2>3, <2>4, <2>5 DEF IInv
<1>9. CASE Restart
  <2>1. CASE ~InFlight(cycle)
    BY <1>9, <2>1 DEF Restart, Recovered, IInv, CycleTypeOK, EndedIsIdle,
       DecidesOnCurrentEvidence, CompletedIsGreen, WithinBudget, BuildsArePlanned,
       historyVars, Active, In
  <2>2. CASE InFlight(cycle)
    <3>1. /\ cycle' \in Cycles
          /\ cycle'.status = "interrupted" /\ cycle'.phase = "idle"
          /\ cycle'.buildStarted = FALSE
          /\ cycle'.budget = cycle.budget /\ cycle'.used = cycle.used
      BY <1>9, <2>2 DEF Restart, Recovered, Ended, IInv, CycleTypeOK, Cycles, Phases, Statuses
    <3>2. UNCHANGED historyVars
      BY <1>9 DEF Restart
    <3>3. CycleTypeOK' /\ EndedIsIdle' /\ DecidesOnCurrentEvidence' /\ CompletedIsGreen'
      BY <3>1, <3>2 DEF IInv, CycleTypeOK, EndedIsIdle, DecidesOnCurrentEvidence,
         CompletedIsGreen, Active, historyVars
    <3>4. WithinBudget' /\ BuildsArePlanned'
      BY <3>1, <3>2 DEF IInv, CycleTypeOK, WithinBudget, BuildsArePlanned, In, Active,
         historyVars
    <3>5. QED
      BY <3>3, <3>4 DEF IInv
  <2>3. QED
    BY <2>1, <2>2
<1>10. CASE UNCHANGED vars
  BY <1>10 DEF vars, IInv, CycleTypeOK, EndedIsIdle, DecidesOnCurrentEvidence,
     CompletedIsGreen, WithinBudget, BuildsArePlanned, Active, In
<1>11. QED
  BY <1>1, <1>2, <1>3, <1>4, <1>5, <1>6, <1>7, <1>8, <1>9, <1>10, CycleAssumption
     DEF Next, Plans

(* In every reachable state of an exploration cycle the inductive invariant  *)
(* holds: the record is well typed, phase and status agree, and evidence,    *)
(* budget and history are coherent (exploration_cycle.rs).                   *)
THEOREM ExplorationInvariant == Spec => []IInv
BY ExplorationInit, ExplorationStep, PTL DEF Spec

(* Decisions are only taken on evidence about the version the last build     *)
(* appended, whatever was replanned, retried or restarted before.            *)
THEOREM DecisionsAreCurrent == Spec => []DecidesOnCurrentEvidence
<1>1. IInv => DecidesOnCurrentEvidence
  BY DEF IInv
<1>2. QED
  BY <1>1, ExplorationInvariant, PTL

(* A completed cycle chose its current version on a green verdict about it.  *)
THEOREM CompletionIsGreen == Spec => []CompletedIsGreen
<1>1. IInv => CompletedIsGreen
  BY DEF IInv
<1>2. QED
  BY <1>1, ExplorationInvariant, PTL

(* The builds a cycle pays for stay within its budget, and every appended    *)
(* version was planned.                                                      *)
THEOREM BuildsAreBounded == Spec => [](WithinBudget /\ BuildsArePlanned)
<1>1. IInv => WithinBudget /\ BuildsArePlanned
  BY DEF IInv
<1>2. QED
  BY <1>1, ExplorationInvariant, PTL

(* No command and no restart changes a cycle that has ended.                 *)
THEOREM EndedCyclesAreFinal == Spec => EndedIsFinal
<1>1. [Next]_vars => [Active(cycle)]_cycle
  <2> SUFFICES ASSUME [Next]_vars PROVE [Active(cycle)]_cycle
    OBVIOUS
  <2>1. ASSUME NEW p, Plan(p) PROVE Active(cycle)
    BY <2>1 DEF Plan, CanPlan, In
  <2>2. ASSUME NEW s, StartBuild(s) \/ Append(s) PROVE Active(cycle)
    BY <2>2 DEF StartBuild, CanStartBuild, Append, CanAppend, In
  <2>3. ASSUME NEW v, Verify(v) PROVE Active(cycle)
    BY <2>3 DEF Verify, CanVerify, In
  <2>4. ASSUME NEW d, Decide(d) PROVE Active(cycle)
    BY <2>4 DEF Decide, CanDecide, In
  <2>5. CASE Answer \/ ProviderFailed \/ Stop
    BY <2>5 DEF Answer, CanAnswer, ProviderFailed, CanFail, Stop, CanStop, In
  <2>6. CASE Restart
    BY <2>6 DEF Restart, Recovered, InFlight
  <2>7. CASE UNCHANGED vars
    BY <2>7 DEF vars
  <2>8. QED
    BY <2>1, <2>2, <2>3, <2>4, <2>5, <2>6, <2>7 DEF Next
<1>2. QED
  BY <1>1, PTL DEF Spec, EndedIsFinal

=============================================================================
