----------------------------- MODULE CodexQueue -----------------------------
(***************************************************************************)
(* The Codex prompt queue of one Ecky thread:                              *)
(* src-tauri/src/services/codex_takeover.rs (the durable rows of           *)
(* agent_prompt_queue) and commands/codex_takeover.rs (the dispatch loop,  *)
(* the user's commands and the queue supervisor).                          *)
(*                                                                         *)
(* A row is inserted as queued, claimed as sending, marked dispatched just *)
(* before the provider is called, and deleted when the turn has started.   *)
(* Every prompt sent, every retry and every poll of the supervisor starts  *)
(* a dispatch loop of its own, so several loops run over the same rows;    *)
(* each action below is one section under the database lock, one read of   *)
(* the app server's state, or one provider call.                           *)
(*                                                                         *)
(* The provider is external: turn[e] says whose turn it runs in the        *)
(* external thread e, runtime[e] is what Ecky was last told.  A writer     *)
(* conflict makes the loop rotate the Ecky thread to a fresh external      *)
(* thread, once for each prompt.  The policy that the running turn's tool  *)
(* calls are judged by belongs to the Ecky thread.                         *)
(***************************************************************************)
EXTENDS Naturals, FiniteSets

CONSTANTS
    Prompt,         \* the prompts' row ids: random, so not in arrival order
    Dispatcher,     \* dispatch loops
    None,           \* no prompt
    Foreign,        \* a turn of another client of the external thread
    Setups          \* the circumstances a behaviour may start in, with its bounds

Faults == {"refused", "lost", "storage", "foreign", "classifier", "stop"}

SetupType == [kinds : SUBSET Faults,    \* the faults that may happen
              faults : Nat,             \* bound: faults of all kinds together
              restarts : Nat,           \* bound: restarts of the application
              steers : Nat,             \* bound: steers the user sends
              loops : Nat,              \* bound: dispatch loops running at once
              routing : SUBSET BOOLEAN, \* TRUE: the classifier is enabled
              legacy : SUBSET Prompt]   \* prompts an earlier version left failed

ASSUME PromptAssumption == Prompt \subseteq Nat /\ IsFiniteSet(Prompt) /\ {None, Foreign} \cap Prompt = {}
ASSUME DispatcherAssumption == IsFiniteSet(Dispatcher)
ASSUME SetupAssumption == \A s \in Setups : s \in SetupType

(* One fresh external thread for each prompt at most, after the first. *)
External == 0 .. Cardinality(Prompt)

VARIABLES
    row,            \* durable: the rows of agent_prompt_queue
    createdAt,      \* durable: the second a row was inserted
    binding,        \* durable: the external thread the Ecky thread is bound to
    rotatedFor,     \* durable: prompts whose writer conflict rotated the binding
    loop,           \* the dispatch loops with their local variables
    runtime,        \* app server: what Ecky believes of an external thread
    turn,           \* provider: whose turn an external thread runs
    policy,         \* AppState::provider_turn_policies for the Ecky thread
    clock,          \* the second of the latest insertion
    setup,          \* the circumstances of this behaviour
    faults,         \* faults so far
    restarts,       \* restarts so far
    delivered,      \* history: turns the provider started for a prompt
    replayable      \* history: prompts sent again on purpose or after a crash

durableVars == <<row, createdAt, binding, rotatedFor>>
providerVars == <<runtime, turn, policy>>
boundVars == <<clock, setup, faults, restarts>>
historyVars == <<delivered, replayable>>
vars == <<durableVars, loop, providerVars, boundVars, historyVars>>

Statuses == {"absent", "queued", "sending", "failed", "gone"}
Phases == {"none", "provider-delivery", "jev-classifier"}
Errors == {"none", "retryable", "final"}
Runtimes == {"idle", "active", "stopping"}
Points == {"idle", "bind", "runtime", "reconcile", "store", "list", "claim",
           "preflight", "resume", "recheck", "classify", "failClassify", "staleHead", "staleRuntime",
           "begin", "accept", "install", "start", "answer", "complete", "after",
           "rotateCheck", "rotate", "defer", "record"}

RowType == [status : Statuses, dispatched : BOOLEAN, phase : Phases, error : Errors]
LoopType == [pc : Points, head : Prompt \cup {None}, ext : External,
             active : BOOLEAN, rotated : BOOLEAN, routed : BOOLEAN, error : Errors]

AbsentRow == [status |-> "absent", dispatched |-> FALSE, phase |-> "none", error |-> "none"]
(* The entry of the policy map: who set it, and at which point. *)
PolicyType == [owner : Prompt \cup {None}, kind : {"none", "preflight", "turn", "steer"}]
NoPolicy == [owner |-> None, kind |-> "none"]

IdleLoop == [pc |-> "idle", head |-> None, ext |-> 0,
             active |-> FALSE, rotated |-> FALSE, routed |-> FALSE, error |-> "none"]

(* An earlier version failed a conflicted delivery and recorded no phase. *)
LegacyRow == [status |-> "failed", dispatched |-> FALSE, phase |-> "none", error |-> "retryable"]

Init ==
    /\ setup \in Setups
    /\ row = [p \in Prompt |-> IF p \in setup.legacy THEN LegacyRow ELSE AbsentRow]
    /\ createdAt = [p \in Prompt |-> IF p \in setup.legacy THEN 1 ELSE 0]
    /\ binding = 0
    /\ rotatedFor = {}
    /\ loop = [d \in Dispatcher |-> IdleLoop]
    /\ runtime = [e \in External |-> "idle"]
    /\ turn = [e \in External |-> None]
    /\ policy = NoPolicy
    /\ clock = 1 /\ faults = 0 /\ restarts = 0
    /\ delivered = [p \in Prompt |-> 0]
    /\ replayable = {}

-----------------------------------------------------------------------------
(* The rows *)

InQueue(p) == row[p].status \in {"queued", "sending", "failed"}

(* ORDER BY created_at ASC, id ASC *)
Before(p, q) == createdAt[p] < createdAt[q] \/ (createdAt[p] = createdAt[q] /\ p < q)

IsHead(p) == InQueue(p) /\ \A q \in Prompt \ {p} : InQueue(q) => Before(p, q)

QueueIsEmpty == \A p \in Prompt : ~InQueue(p)

(* Fault: any row can be claimed, whatever another loop did with it. *)
CanClaimFaultAny(p) == InQueue(p)

(* claim_queue_item: the row must still be queued. *)
CanClaim(p) == row[p].status = "queued"

ClaimedRow == [status |-> "sending", dispatched |-> FALSE, phase |-> "none", error |-> "none"]

(* begin_queue_delivery: still claimed, and nobody began before. *)
CanBegin(p) == row[p].status = "sending" /\ ~row[p].dispatched

(* defer_queue_item accepts claimed rows and rows that wait again. *)
CanDefer(p) == row[p].status \in {"queued", "sending"}

DeferredRow(p) == [row[p] EXCEPT !.status = "queued", !.error = "retryable"]

(* fail_queue_item and fail_classifier_queue_item update whatever row is there. *)
FailedRow(p, phase, error) ==
    IF InQueue(p) THEN [row[p] EXCEPT !.status = "failed", !.phase = phase, !.error = error]
    ELSE row[p]

(* remove_queue_item: a claimed row only before its delivery began. *)
CanRemove(p) == InQueue(p) /\ (row[p].status = "sending" => ~row[p].dispatched)

(* Fault: every failure with a retryable text is retried. *)
RecoverableFaultAnyPhase(p) == row[p].status = "failed" /\ row[p].error = "retryable"

(* recover_retryable_failures: a failed delivery, never a failed classification. *)
Recoverable(p) ==
    /\ row[p].status = "failed"
    /\ row[p].phase # "jev-classifier"
    /\ row[p].error = "retryable"

Fault(kind) ==
    /\ kind \in setup.kinds /\ faults < setup.faults
    /\ faults' = faults + 1 /\ UNCHANGED setup

NoFault == UNCHANGED <<setup, faults>>

-----------------------------------------------------------------------------
(* dispatch_queue_for_impl, one step per section or call *)

At(d, point) == loop[d].pc = point
Goto(d, point) == loop' = [loop EXCEPT ![d].pc = point]
Leave(d) == loop' = [loop EXCEPT ![d] = IdleLoop]
Report(d, error) == loop' = [loop EXCEPT ![d].pc = "record", ![d].error = error]
SetRow(p, r) == row' = [row EXCEPT ![p] = r]
Head(d) == loop[d].head
Ext(d) == loop[d].ext
TurnActive(e) == runtime[e] # "idle"
TurnRuns(e) == turn[e] # None
RuntimeFromProvider(e) == IF TurnRuns(e) THEN "active" ELSE "idle"

(* A loop is spawned by a prompt sent, a retry, a poll or the user. *)
DispatchSpawned(d) ==
    /\ At(d, "idle")
    /\ Cardinality({x \in Dispatcher : ~At(x, "idle")}) < setup.loops
    /\ ~QueueIsEmpty
    /\ Goto(d, "bind")
    /\ UNCHANGED <<durableVars, providerVars, boundVars, historyVars>>

ReadBinding(d) ==
    /\ At(d, "bind")
    /\ loop' = [loop EXCEPT ![d].pc = "runtime", ![d].ext = binding]
    /\ UNCHANGED <<durableVars, providerVars, boundVars, historyVars>>

(* An active runtime is only believed after the provider confirmed it. *)
ReadRuntime(d) ==
    /\ At(d, "runtime")
    /\ loop' = [loop EXCEPT ![d].pc = IF TurnActive(Ext(d)) THEN "reconcile" ELSE "list",
                            ![d].active = FALSE]
    /\ UNCHANGED <<durableVars, providerVars, boundVars, historyVars>>

(* reconcile_runtime: the page is asked for, and stored once it is back. *)
ReconcileAsks(d) ==
    /\ At(d, "reconcile")
    /\ \/ NoFault /\ loop' = [loop EXCEPT ![d].pc = "store", ![d].active = TurnRuns(Ext(d))]
       \/ Fault("refused") /\ Leave(d)
    /\ UNCHANGED <<durableVars, providerVars, clock, restarts, historyVars>>

ReconcileStores(d) ==
    /\ At(d, "store")
    /\ Goto(d, "list")
    /\ runtime' = [runtime EXCEPT ![Ext(d)] = IF loop[d].active THEN "active" ELSE "idle"]
    /\ UNCHANGED <<durableVars, turn, policy, boundVars, historyVars>>

(* Only a head that is queued is worth claiming: a failed one waits for the *)
(* user, a claimed one belongs to another loop.                             *)
NextUp(p) == IsHead(p) /\ row[p].status = "queued"

ListQueue(d) ==
    /\ At(d, "list")
    /\ \/ /\ ~loop[d].active
          /\ \E p \in Prompt :
                /\ NextUp(p)
                /\ loop' = [loop EXCEPT ![d].pc = "claim", ![d].head = p]
       \/ /\ loop[d].active \/ \A p \in Prompt : ~NextUp(p)
          /\ Leave(d)
    /\ UNCHANGED <<durableVars, providerVars, boundVars, historyVars>>

(* The head may be gone or claimed by now.  The configuration read here     *)
(* decides whether the turn is routed by the classifier; an invalid one is  *)
(* a final error.                                                           *)
Claim(d) ==
    LET p == Head(d) IN
    /\ At(d, "claim")
    /\ \/ /\ ~CanClaim(p)
          /\ Leave(d)
          /\ UNCHANGED row
       \/ /\ CanClaim(p)
          /\ SetRow(p, ClaimedRow)
          /\ \E routed \in setup.routing :
                loop' = [loop EXCEPT ![d].pc = "preflight", ![d].routed = routed]
    /\ UNCHANGED <<createdAt, binding, rotatedFor, providerVars, boundVars, historyVars>>

(* The policy for the time until the route is known. *)
SetPreflightPolicy(d) ==
    /\ At(d, "preflight")
    /\ Goto(d, "resume")
    /\ policy' = [owner |-> Head(d), kind |-> "preflight"]
    /\ UNCHANGED <<durableVars, runtime, turn, boundVars, historyVars>>

(* A writer conflict of resume or start rotates the binding once per loop. *)
OnWriterConflict(d) ==
    IF loop[d].rotated THEN Report(d, "retryable") ELSE Goto(d, "rotateCheck")

(* resume_binding_with_policy: nothing to do while a turn runs, else the    *)
(* provider tells what it runs.                                             *)
Resume(d) ==
    /\ At(d, "resume")
    /\ \/ /\ NoFault /\ Goto(d, "recheck")
          /\ runtime' = [runtime EXCEPT ![Ext(d)] =
                            IF TurnActive(Ext(d)) THEN @ ELSE RuntimeFromProvider(Ext(d))]
       \/ /\ Fault("refused")
          /\ OnWriterConflict(d) \/ Report(d, "final")
          /\ UNCHANGED runtime
    /\ UNCHANGED <<durableVars, turn, policy, clock, restarts, historyVars>>

(* "Codex became active while the queued route was being prepared." *)
Recheck(d) ==
    /\ At(d, "recheck")
    /\ IF TurnActive(Ext(d)) THEN Report(d, "final")
       ELSE Goto(d, IF loop[d].routed THEN "classify" ELSE "begin")
    /\ UNCHANGED <<durableVars, providerVars, boundVars, historyVars>>

Classify(d) ==
    /\ At(d, "classify")
    /\ \/ NoFault /\ Goto(d, "staleHead")
       \/ Fault("classifier") /\ (Goto(d, "failClassify") \/ Report(d, "final"))
    /\ UNCHANGED <<durableVars, providerVars, clock, restarts, historyVars>>

(* The classifier's error text may look like a retryable one.  If the row   *)
(* cannot be written, the loop returns that error and leaves it claimed.    *)
FailClassify(d) ==
    /\ At(d, "failClassify")
    /\ \/ /\ NoFault
          /\ \E error \in {"retryable", "final"} :
                SetRow(Head(d), FailedRow(Head(d), "jev-classifier", error))
       \/ Fault("storage") /\ UNCHANGED row
    /\ Leave(d)
    /\ UNCHANGED <<createdAt, binding, rotatedFor, providerVars, clock, restarts, historyVars>>

(* The route is stale if the binding, the head or its claim changed ...     *)
StaleHeadCheck(d) ==
    /\ At(d, "staleHead")
    /\ IF QueueIsEmpty THEN Leave(d)
       ELSE IF binding = Ext(d) /\ IsHead(Head(d)) /\ row[Head(d)].status = "sending"
            THEN Goto(d, "staleRuntime")
            ELSE Report(d, "final")
    /\ UNCHANGED <<durableVars, providerVars, boundVars, historyVars>>

(* ... or a turn started meanwhile, here or in another client. *)
StaleRuntimeCheck(d) ==
    /\ At(d, "staleRuntime")
    /\ IF TurnActive(Ext(d)) THEN Report(d, "final") ELSE Goto(d, "begin")
    /\ UNCHANGED <<durableVars, providerVars, boundVars, historyVars>>

(* The dispatch boundary; an error of the write fails the delivery. *)
Begin(d) ==
    LET p == Head(d) IN
    /\ At(d, "begin")
    /\ \/ /\ CanBegin(p) /\ NoFault
          /\ SetRow(p, [row[p] EXCEPT !.dispatched = TRUE])
          /\ Goto(d, IF loop[d].routed THEN "accept" ELSE "install")
       \/ /\ ~CanBegin(p) /\ NoFault
          /\ Leave(d)
          /\ UNCHANGED row
       \/ /\ Fault("storage")
          /\ Report(d, "final")
          /\ UNCHANGED row
    /\ UNCHANGED <<createdAt, binding, rotatedFor, providerVars, clock, restarts, historyVars>>

(* save_accepted: an error leaves the loop with the row claimed for ever.  *)
Accept(d) ==
    /\ At(d, "accept")
    /\ \/ NoFault /\ Goto(d, "install")
       \/ Fault("storage") /\ Leave(d)
    /\ UNCHANGED <<durableVars, providerVars, clock, restarts, historyVars>>

(* set_provider_turn_policy with the policy of the accepted route. *)
SetTurnPolicy(d) ==
    /\ At(d, "install")
    /\ Goto(d, "start")
    /\ policy' = [owner |-> Head(d), kind |-> "turn"]
    /\ UNCHANGED <<durableVars, runtime, turn, boundVars, historyVars>>

(* turn/start reaches the provider: it starts the turn, or refuses because  *)
(* one is running, because another client writes, or for another reason.    *)
StartTurn(d) ==
    LET p == Head(d) e == Ext(d) IN
    /\ At(d, "start")
    /\ \/ /\ ~TurnRuns(e)
          /\ turn' = [turn EXCEPT ![e] = p]
          /\ delivered' = [delivered EXCEPT ![p] = @ + 1]
          /\ Goto(d, "answer")
          /\ NoFault
       \/ /\ TurnRuns(e)
          /\ Report(d, "retryable")
          /\ NoFault /\ UNCHANGED <<turn, delivered>>
       \/ /\ Fault("refused")
          /\ OnWriterConflict(d) \/ Report(d, "retryable") \/ Report(d, "final")
          /\ UNCHANGED <<turn, delivered>>
    /\ UNCHANGED <<durableVars, runtime, policy, clock, restarts, replayable>>

(* The answer may come after the turn is over; a lost answer (a timeout, a  *)
(* process that died) discards the app server and every turn it ran.        *)
StartAnswered(d) ==
    LET e == Ext(d) IN
    /\ At(d, "answer")
    /\ \/ /\ NoFault /\ Goto(d, "complete")
          /\ runtime' = [runtime EXCEPT ![e] = RuntimeFromProvider(e)]
          /\ UNCHANGED turn
       \/ /\ Fault("lost") /\ Report(d, "final")
          /\ runtime' = [x \in External |-> "idle"]
          /\ turn' = [x \in External |-> None]
    /\ UNCHANGED <<durableVars, policy, clock, restarts, historyVars>>

(* Fault: the row stays after the provider took the prompt. *)
CompletedRowFaultKept(p) == [row[p] EXCEPT !.status = "queued"]

(* complete_queue_item deletes the row if it is still claimed. *)
CompletedRow(p) == IF row[p].status = "sending" THEN [row[p] EXCEPT !.status = "gone"] ELSE row[p]

(* One section saves the prompt as a message and deletes its row; an error  *)
(* leaves the row claimed.                                                  *)
Complete(d) ==
    /\ At(d, "complete")
    /\ \/ NoFault /\ SetRow(Head(d), CompletedRow(Head(d))) /\ Goto(d, "after")
       \/ Fault("storage") /\ Leave(d) /\ UNCHANGED row
    /\ UNCHANGED <<createdAt, binding, rotatedFor, providerVars, clock, restarts, historyVars>>

NextTurnOfLoop(d) ==
    loop' = [loop EXCEPT ![d] = [IdleLoop EXCEPT !.pc = "bind", !.rotated = loop[d].rotated]]

After(d) ==
    /\ At(d, "after")
    /\ IF TurnActive(Ext(d)) THEN Leave(d) ELSE NextTurnOfLoop(d)
    /\ UNCHANGED <<durableVars, providerVars, boundVars, historyVars>>

(* writer_conflict_rotated_for_queue *)
MayRotate(p) == p \notin rotatedFor

(* rotate_conflicted_codex_cursor *)
RotateCheck(d) ==
    /\ At(d, "rotateCheck")
    /\ IF MayRotate(Head(d)) THEN Goto(d, "rotate") ELSE Report(d, "retryable")
    /\ UNCHANGED <<durableVars, providerVars, boundVars, historyVars>>

(* A fresh external thread becomes the binding, or is deleted again. *)
Rotate(d) ==
    /\ At(d, "rotate")
    /\ \/ /\ NoFault /\ Goto(d, "defer")
          /\ binding' = Cardinality(rotatedFor) + 1
          /\ rotatedFor' = rotatedFor \cup {Head(d)}
       \/ /\ Fault("refused") /\ Report(d, "final")
          /\ UNCHANGED <<binding, rotatedFor>>
    /\ UNCHANGED <<row, createdAt, providerVars, clock, restarts, historyVars>>

(* After a rotation the prompt waits again and the loop goes on; a row that *)
(* is gone, or cannot be written, ends it.                                  *)
Defer(d) ==
    LET p == Head(d) IN
    /\ At(d, "defer")
    /\ \/ /\ CanDefer(p) /\ NoFault
          /\ SetRow(p, DeferredRow(p))
          /\ loop' = [loop EXCEPT ![d] = [IdleLoop EXCEPT !.pc = "bind", !.rotated = TRUE]]
       \/ /\ IF CanDefer(p) THEN Fault("storage") ELSE NoFault
          /\ Leave(d)
          /\ UNCHANGED row
    /\ UNCHANGED <<createdAt, binding, rotatedFor, providerVars, clock, restarts, historyVars>>

(* Fault: the error is returned to the caller and not written to the row. *)
RecordedRowFaultKeepsClaim(p, error) == row[p]

(* record_queue_delivery_error: wait again, or fail. *)
RecordedRow(p, error) ==
    IF error = "final" THEN FailedRow(p, "provider-delivery", "final")
    ELSE IF CanDefer(p) THEN DeferredRow(p) ELSE row[p]

(* The error of this write is returned in place of the one it records.      *)
RecordError(d) ==
    /\ At(d, "record")
    /\ \/ NoFault /\ SetRow(Head(d), RecordedRow(Head(d), loop[d].error))
       \/ Fault("storage") /\ UNCHANGED row
    /\ Leave(d)
    /\ UNCHANGED <<createdAt, binding, rotatedFor, providerVars, clock, restarts, historyVars>>

CallStep(d) ==
    \/ ReadBinding(d) \/ ReadRuntime(d) \/ ReconcileAsks(d) \/ ReconcileStores(d)
    \/ ListQueue(d) \/ Claim(d) \/ Resume(d) \/ Recheck(d)
    \/ Classify(d) \/ FailClassify(d) \/ StaleHeadCheck(d) \/ StaleRuntimeCheck(d)
    \/ Begin(d) \/ Accept(d) \/ StartTurn(d) \/ StartAnswered(d) \/ Complete(d) \/ After(d)
    \/ RotateCheck(d) \/ Rotate(d) \/ Defer(d) \/ RecordError(d)

-----------------------------------------------------------------------------
(* The user, the supervisor, the provider and the application *)

(* enqueue_prompt_with_attachments, in this second or a later one. *)
Enqueue(p) ==
    /\ row[p].status = "absent"
    /\ clock' \in {clock, clock + 1}
    /\ SetRow(p, [AbsentRow EXCEPT !.status = "queued"])
    /\ createdAt' = [createdAt EXCEPT ![p] = clock']
    /\ UNCHANGED <<binding, rotatedFor, loop, providerVars, setup, faults, restarts, historyVars>>

(* retry_queue_item: only the head, only once it failed. *)
Retry(p) ==
    /\ IsHead(p) /\ row[p].status = "failed"
    /\ SetRow(p, [AbsentRow EXCEPT !.status = "queued"])
    /\ replayable' = replayable \cup {p}
    /\ UNCHANGED <<createdAt, binding, rotatedFor, loop, providerVars, boundVars, delivered>>

(* remove_queue_item *)
Remove(p) ==
    /\ CanRemove(p)
    /\ SetRow(p, [row[p] EXCEPT !.status = "gone"])
    /\ UNCHANGED <<createdAt, binding, rotatedFor, loop, providerVars, boundVars, historyVars>>

(* The supervisor's recover_retryable_failures. *)
RecoverFailures ==
    /\ \E p \in Prompt : Recoverable(p)
    /\ row' = [p \in Prompt |-> IF Recoverable(p) THEN [row[p] EXCEPT !.status = "queued"]
                                ELSE row[p]]
    /\ UNCHANGED <<createdAt, binding, rotatedFor, loop, providerVars, boundVars, historyVars>>

(* The provider's notifications: turns end, and Ecky is told of it. *)
TurnEnds(e) ==
    /\ TurnRuns(e)
    /\ turn' = [turn EXCEPT ![e] = None]
    /\ UNCHANGED <<durableVars, loop, runtime, policy, boundVars, historyVars>>

(* Another client of the same external thread starts a turn. *)
ForeignTurn(e) ==
    /\ ~TurnRuns(e) /\ e = binding
    /\ Fault("foreign")
    /\ turn' = [turn EXCEPT ![e] = Foreign]
    /\ UNCHANGED <<durableVars, loop, runtime, policy, clock, restarts, historyVars>>

(* turn/started, turn/completed or thread/status/changed arrives. *)
Notified(e) ==
    /\ TurnActive(e) # TurnRuns(e)
    /\ runtime' = [runtime EXCEPT ![e] = RuntimeFromProvider(e)]
    /\ UNCHANGED <<durableVars, loop, turn, policy, boundVars, historyVars>>

(* stop_codex_takeover interrupts the turn it was shown (no fault, but     *)
(* counted as one to keep runs without it small).                          *)
Stop(e) ==
    /\ runtime[e] = "active"
    /\ Fault("stop")
    /\ runtime' = [runtime EXCEPT ![e] = "stopping"]
    /\ UNCHANGED <<durableVars, loop, turn, policy, clock, restarts, historyVars>>

(* recover_stale_sending: what was claimed is queued again. *)
RecoveredRow(p) ==
    IF row[p].status = "sending" THEN [row[p] EXCEPT !.status = "queued", !.error = "none"]
    ELSE row[p]

(* The application stops at any point and starts again; the turns of the    *)
(* provider's process die with it, or survive it.                           *)
Restart ==
    /\ restarts < setup.restarts
    /\ restarts' = restarts + 1
    /\ row' = [p \in Prompt |-> RecoveredRow(p)]
    /\ loop' = [d \in Dispatcher |-> IdleLoop]
    /\ runtime' = [e \in External |-> "idle"]
    /\ turn' \in {turn, [e \in External |-> None]}
    /\ policy' = NoPolicy
    /\ replayable' = replayable \cup
          {p \in Prompt : row[p].status = "sending" /\ row[p].dispatched}
    /\ UNCHANGED <<createdAt, binding, rotatedFor, clock, setup, faults, delivered>>

ProviderStep == \E e \in External : TurnEnds(e) \/ Notified(e)

(* The two steps that take the policy over from whoever set it. *)
TakePolicy(d) == SetPreflightPolicy(d) \/ SetTurnPolicy(d)

LoopStep(d) == CallStep(d) \/ TakePolicy(d)

UserStep == \E p \in Prompt : Enqueue(p) \/ Retry(p) \/ Remove(p)

OutsideStep == \E e \in External : ForeignTurn(e) \/ Stop(e)

Next ==
    \/ \E d \in Dispatcher : DispatchSpawned(d) \/ LoopStep(d)
    \/ UserStep
    \/ RecoverFailures
    \/ ProviderStep
    \/ OutsideStep
    \/ Restart

Spec == Init /\ [][Next]_vars

(* The runtime polls every task, turns end and are notified, and the        *)
(* supervisor's poll recovers failures and dispatches while a head waits    *)
(* (it stays in provider:codex mode).  Nobody has to send, retry, remove or *)
(* stop anything.                                                           *)
PollDispatches == \E d \in Dispatcher :
    DispatchSpawned(d) /\ \E p \in Prompt : NextUp(p)

Fairness ==
    /\ \A d \in Dispatcher : WF_vars(LoopStep(d))
    /\ \A e \in External : WF_vars(TurnEnds(e)) /\ WF_vars(Notified(e))
    /\ WF_vars(PollDispatches)
    /\ WF_vars(RecoverFailures)

FairSpec == Spec /\ Fairness

-----------------------------------------------------------------------------
(* Properties *)

QueueTypeOK ==
    /\ row \in [Prompt -> RowType]
    /\ createdAt \in [Prompt -> Nat]
    /\ binding \in External
    /\ rotatedFor \subseteq Prompt
    /\ loop \in [Dispatcher -> LoopType]
    /\ runtime \in [External -> Runtimes]
    /\ turn \in [External -> Prompt \cup {None, Foreign}]
    /\ policy \in PolicyType
    /\ clock \in Nat /\ setup \in Setups /\ faults \in Nat /\ restarts \in Nat
    /\ delivered \in [Prompt -> Nat]
    /\ replayable \subseteq Prompt

(* The loops that hold a claim, and those that passed the point of no       *)
(* return.                                                                  *)
Claiming == {"preflight", "resume", "recheck", "classify", "failClassify", "staleHead",
             "staleRuntime", "begin", "accept", "install", "start", "answer", "complete",
             "rotateCheck", "rotate", "defer", "record"}
Dispatching == {"accept", "install", "start", "answer", "complete"}

Claims(d, p) == Head(d) = p /\ loop[d].pc \in Claiming

(* Every loop writes the outcome of its call back by row id alone, without  *)
(* looking whether the claim is still its own.  That is sound because no    *)
(* two loops ever work on the same prompt, restarts included.               *)
SoleClaimant == \A p \in Prompt : \A d1, d2 \in Dispatcher :
    Claims(d1, p) /\ Claims(d2, p) => d1 = d2

(* A loop that holds a claim finds its row claimed, or cancelled: it never  *)
(* overwrites a row that waits, failed or belongs to another loop.          *)
ClaimIsStanding == \A d \in Dispatcher : loop[d].pc \in Claiming =>
    \/ row[Head(d)].status = "sending"
    \/ row[Head(d)].status = "gone" /\ loop[d].pc \notin Dispatching

(* The provider only ever starts a turn for a prompt that is still in the   *)
(* queue, claimed and past its dispatch boundary: not for one the user      *)
(* removed, not for one that was completed.                                 *)
NoTurnForCancelled == [][\A p \in Prompt : delivered'[p] > delivered[p] =>
    row[p].status = "sending" /\ row[p].dispatched]_vars

(* The provider gets a prompt twice only if the user asked to retry it or   *)
(* the application stopped after its dispatch began.                        *)
NoSilentReplay == \A p \in Prompt : delivered[p] > 1 => p \in replayable

(* A prompt is handed over after every prompt created before its second has *)
(* left the queue, though loops read the head and act on it later.          *)
NoOvertaking == [][\A p, q \in Prompt :
    delivered'[p] > delivered[p] /\ createdAt[q] < createdAt[p] /\ createdAt[q] > 0
        => ~InQueue(q)]_vars

(* Two prompts are claimed at once only if they were created in the same    *)
(* second: then a later prompt may sort before a head already read.         *)
ClaimedTogether == \A p, q \in Prompt :
    row[p].status = "sending" /\ row[q].status = "sending" /\ p # q
        => createdAt[p] = createdAt[q]

(* A failed classification waits for the user, even if its text looks like  *)
(* a delivery error that is retried.                                        *)
ClassifierFailureWaits == [][\A p \in Prompt :
    row[p].status = "failed" /\ row[p].phase = "jev-classifier" /\ row'[p].status = "queued"
        => p \in replayable']_vars

(* One prompt moves the Ecky thread to a fresh external thread once, so     *)
(* conflicts cannot mint threads without end.                               *)
BindingIsFresh == binding = Cardinality(rotatedFor)

(* A claimed row without a loop is stuck until the next start.              *)
Orphan(p) == row[p].status = "sending" /\ \A d \in Dispatcher : ~Claims(d, p)

(* A database error may refuse the write that gives a claim back, before or *)
(* after the dispatch boundary: the loop returns it and nobody tries again. *)
WriteRefused == "storage" \in setup.kinds /\ faults > 0

(* Only such an error orphans a claim.  However else a loop ends (a turn    *)
(* that is running, a refusal, a lost answer, a stale route, a rotation, a  *)
(* lost race), it has written the row back.                                 *)
OrphansComeFromStorage == \A p \in Prompt : Orphan(p) => WriteRefused

(* The rows, their claims and the binding, in every state: what a loop does *)
(* with a row it holds is never undone or doubled by another loop, by the   *)
(* user or by a restart.                                                    *)
ClaimsAreSound ==
    /\ QueueTypeOK
    /\ SoleClaimant /\ ClaimIsStanding /\ ClaimedTogether
    /\ OrphansComeFromStorage
    /\ BindingIsFresh

(* What reaches the provider, and when: nothing that was removed, nothing   *)
(* before its elders, and no failed classification without the user.        *)
HandsOverRightly == NoTurnForCancelled /\ NoOvertaking /\ ClassifierFailureWaits

(* A queued prompt is handed over, fails or is removed, unless a prompt     *)
(* before it failed (the queue waits for the user then) or a refused write  *)
(* left its claim, or the claim of one before it, standing until the next   *)
(* start.  No deferral, rotation or lost race between loops leaves it       *)
(* waiting for ever.                                                        *)
Stuck(p) == Orphan(p) /\ WriteRefused

Blocked(p) == \E q \in Prompt \ {p} :
    Before(q, p) /\ (row[q].status = "failed" \/ Stuck(q))

QueuedIsSettled == \A p \in Prompt :
    row[p].status = "queued" ~> row[p].status \in {"failed", "gone"} \/ Stuck(p) \/ Blocked(p)

=============================================================================
