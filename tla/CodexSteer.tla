----------------------------- MODULE CodexSteer -----------------------------
(***************************************************************************)
(* Steering a running Codex turn beside the prompt queue:                  *)
(* steer_bound_codex_turn_with_classifier in                               *)
(* src-tauri/src/commands/codex_takeover.rs and the policy leases of       *)
(* AppState in src-tauri/src/models.rs.                                    *)
(*                                                                         *)
(* A routed steer looks at the turn it is meant for, reads the policy of   *)
(* the Ecky thread, asks the classifier, installs its own policy if the    *)
(* one it read still stands, delivers, and rolls its policy back when the  *)
(* delivery failed or the turn is over.  Policies are told apart by a      *)
(* fresh uuid, here by whether a dispatch loop has set one since.  A lock  *)
(* for each thread lets one steer run at a time, so one record holds the   *)
(* steer in progress.                                                      *)
(***************************************************************************)
EXTENDS CodexQueue

VARIABLES
    steer,      \* the steer that holds the thread's steer lock
    steers,     \* steers sent so far
    known,      \* app server: whose turn Ecky's runtime named last
    steered     \* history: prompts whose turn took a steer

steerVars == <<steer, steers, steered>>
allVars == <<vars, steerVars, known>>

SteerPoints == {"idle", "look", "read", "check", "install", "deliver", "post", "rollback"}
SteerType == [pc : SteerPoints, ext : External, of : Prompt \cup {None},
              captured : PolicyType, stands : BOOLEAN]

IdleSteer == [pc |-> "idle", ext |-> 0, of |-> None, captured |-> NoPolicy, stands |-> FALSE]

SteerInit ==
    /\ Init
    /\ steer = IdleSteer /\ steers = 0 /\ steered = {}
    /\ known = [e \in External |-> None]

SteerAt(point) == steer.pc = point
SteerGoto(point) == steer' = [steer EXCEPT !.pc = point]
SteerReturns == steer' = IdleSteer
RowsUnchanged == UNCHANGED <<durableVars, loop, runtime, turn, boundVars, historyVars, steers>>

(* The turn the user was shown is still the active one, as Ecky knows it,   *)
(* even when it is over.                                                    *)
StillActive == runtime[steer.ext] = "active" /\ known[steer.ext] = steer.of

(* The user steers the turn that the snapshot shows. *)
SteerSent ==
    /\ SteerAt("idle") /\ steers < setup.steers
    /\ runtime[binding] = "active" /\ known[binding] \in Prompt
    /\ steer' = [IdleSteer EXCEPT !.pc = "look", !.ext = binding, !.of = known[binding]]
    /\ steers' = steers + 1
    /\ UNCHANGED <<vars, steered>>

(* The first look at the turn, under the thread's steer lock.  (Resuming    *)
(* the binding before it tells Ecky no more than a notification would.)     *)
SteerLooks ==
    /\ SteerAt("look")
    /\ IF StillActive THEN SteerGoto("read") ELSE SteerReturns
    /\ UNCHANGED <<policy, steered>> /\ RowsUnchanged

(* provider_turn_policy_snapshot, after other locks: the turn may be over. *)
SteerReads ==
    /\ SteerAt("read")
    /\ steer' = [steer EXCEPT !.pc = "check", !.captured = policy, !.stands = TRUE]
    /\ UNCHANGED <<policy, steered>> /\ RowsUnchanged

(* The classifier has answered: the binding and the turn must not have moved. *)
SteerChecks ==
    /\ SteerAt("check")
    /\ IF StillActive /\ binding = steer.ext THEN SteerGoto("install") ELSE SteerReturns
    /\ UNCHANGED <<policy, steered>> /\ RowsUnchanged

(* install_provider_turn_policy_with_answer_baseline *)
MayInstall == steer.stands

SteerInstalls ==
    /\ SteerAt("install")
    /\ \/ /\ MayInstall
          /\ policy' = [owner |-> steer.of, kind |-> "steer"]
          /\ steer' = [steer EXCEPT !.pc = "deliver", !.stands = TRUE]
       \/ /\ ~MayInstall
          /\ SteerReturns
          /\ UNCHANGED policy
    /\ UNCHANGED steered /\ RowsUnchanged

AfterRefusal == "rollback"

(* turn/steer names the turn it expects; the provider refuses any other.    *)
SteerDelivers ==
    /\ SteerAt("deliver")
    /\ \/ /\ turn[steer.ext] = steer.of
          /\ SteerGoto("post")
          /\ steered' = steered \cup {steer.of}
          /\ NoFault
       \/ /\ turn[steer.ext] # steer.of \/ "refused" \in setup.kinds
          /\ IF turn[steer.ext] # steer.of THEN NoFault ELSE Fault("refused")
          /\ SteerGoto(AfterRefusal)
          /\ UNCHANGED steered
    /\ UNCHANGED <<durableVars, loop, providerVars, clock, restarts, historyVars, steers>>

(* A turn that ended or is being stopped needs no policy of its own. *)
SteerSettles ==
    /\ SteerAt("post")
    /\ IF StillActive THEN SteerReturns ELSE SteerGoto("rollback")
    /\ UNCHANGED <<policy, steered>> /\ RowsUnchanged

(* Fault: the previous policy is put back over a successor's. *)
RolledBackFaultBlind == steer.captured

(* rollback_provider_turn_policy: never a successor's policy. *)
RolledBack == IF steer.stands THEN steer.captured ELSE policy

SteerRollsBack ==
    /\ SteerAt("rollback")
    /\ policy' = RolledBack
    /\ SteerReturns
    /\ UNCHANGED steered /\ RowsUnchanged

SteerStep ==
    \/ SteerSent \/ SteerLooks \/ SteerReads \/ SteerChecks \/ SteerInstalls
    \/ SteerDelivers \/ SteerSettles \/ SteerRollsBack

(* A dispatch loop that sets the policy outdates what the steer read or set. *)
Outdated == steer' = [steer EXCEPT !.stands = FALSE]

QueueStep ==
    \/ /\ \E d \in Dispatcher : TakePolicy(d)
       /\ Outdated /\ UNCHANGED <<steers, steered>>
    \/ /\ \E d \in Dispatcher : DispatchSpawned(d) \/ CallStep(d)
       /\ UNCHANGED steerVars
    \/ /\ UserStep \/ RecoverFailures \/ ProviderStep \/ OutsideStep
       /\ UNCHANGED steerVars
    \/ /\ Restart /\ SteerReturns /\ UNCHANGED <<steers, steered>>

(* A report that a turn runs names it.  While the runtime stays active, it  *)
(* may not be reported yet that one turn is over and the next one runs.  An *)
(* idle runtime names none, but a page that waits to be stored still does.  *)
Names(e) == runtime'[e] # "idle" /\ turn'[e] # None
Lags(e) == Names(e) /\ runtime[e] # "idle" /\ known[e] # turn'[e]
Forgets(e) == /\ runtime'[e] = "idle"
              /\ \A d \in Dispatcher : loop'[d].pc = "store" => loop'[d].ext # e

TurnsNamed == \E unreported \in SUBSET {e \in External : Lags(e)} :
    known' = [e \in External |-> IF Forgets(e) THEN None
                                 ELSE IF Names(e) /\ e \notin unreported THEN turn'[e]
                                 ELSE known[e]]

SteerNext == (QueueStep \/ SteerStep) /\ TurnsNamed

SteerSpec == SteerInit /\ [][SteerNext]_allVars

-----------------------------------------------------------------------------
(* Properties *)

SteerTypeOK ==
    /\ QueueTypeOK /\ steer \in SteerType /\ steers \in Nat /\ steered \subseteq Prompt
    /\ known \in [External -> Prompt \cup {None, Foreign}]

(* While a turn runs, the thread's policy was set for that turn, by its own *)
(* delivery or by a steer of it: a steer that was classified, delivered or  *)
(* rolled back late never replaces the policy of a turn that came after.    *)
(* (One dispatch loop: two of them overwrite each other's policy.  A        *)
(* restart forgets the policy, and a turn may outlive it.)                  *)
PolicyIsOfRunningTurn == setup.loops = 1 /\ restarts = 0 => \A e \in External :
    turn[e] \in Prompt /\ runtime[e] = "active" => policy.owner = turn[e]

(* The policy of a steer stands only while it is being delivered or after   *)
(* the turn took it: a refused steer leaves no trace.                       *)
RefusedSteerLeavesNoPolicy ==
    policy.kind = "steer" => policy.owner \in steered \/ steer.pc \in {"deliver", "rollback"}

(* The tool calls of a turn are judged by a policy that was set for it.     *)
PolicyIsRight == SteerTypeOK /\ PolicyIsOfRunningTurn /\ RefusedSteerLeavesNoPolicy

=============================================================================
