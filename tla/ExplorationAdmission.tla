------------------------ MODULE ExplorationAdmission ------------------------
(***************************************************************************)
(* Admission and cancellation of exploration runs:                         *)
(* src-tauri/src/exploration_run_registry.rs and the calls                 *)
(* start_exploration_run_core makes to it in commands/exploration_run.rs.  *)
(*                                                                         *)
(* Every request r is one async task.  It calls admit, runs its build if   *)
(* admit returns Ok, and calls finish.  A second task may call             *)
(* cancel(r) at any time.  The registry holds three tokio mutexes (queue,  *)
(* superseded, cancelled) and one Notify; a step below is what a task does *)
(* while it holds one of them, so every interleaving of the awaits is      *)
(* explored.  Two sections that hold queue and superseded together are one *)
(* step: the superseded set is only read without the queue lock, and the   *)
(* reader's own request is what the section inserts.                       *)
(*                                                                         *)
(* Notify::notify_waiters wakes every Notified future that exists, polled  *)
(* or not, and stores no permit for later ones: woken[r] says whether the  *)
(* future of r's current turn of the loop has fired.                       *)
(***************************************************************************)
EXTENDS BuildQueue

CONSTANT Cancellable    \* the requests somebody cancels, at most once each

ASSUME CancellableAssumption == Cancellable \subseteq Request

VARIABLES
    pc,             \* where the task of each request is
    superseded,     \* registry: requests replaced while pending
    cancelled,      \* registry: cancellation tombstones
    woken,          \* the current Notified future of a task has fired
    sawCancelled,   \* the local `cancelled` of admit's loop
    verdict,        \* what admit returned
    stopPc,         \* where the task that cancels a request is
    stopFound       \* what cancel found under the queue lock

registryVars == <<superseded, cancelled, woken>>
taskVars == <<pc, sawCancelled, verdict>>
stopVars == <<stopPc, stopFound>>
vars == <<queue, sequence, nextSequence, registryVars, taskVars, stopVars>>

InAdmit == {"announce", "arm", "checkSuperseded", "checkCancelled",
            "checkRunning", "await"}
Giving == {"giveBack", "giveBackNotify", "forget"}    \* admit's cancelled exit
PcStates == {"idle", "run", "finishNotify", "done"} \cup InAdmit \cup Giving
Verdicts == {"none", "ok", "superseded", "cancelled"}
Findings == {"none", "running", "removed", "nothing"}

QueueOf(r) == queue[KeyOf[r]]
IsRunning(r) == QueueOf(r).running = r

Init ==
    /\ QueueInit
    /\ pc = [r \in Request |-> "idle"]
    /\ superseded = {}
    /\ cancelled = {}
    /\ woken = [r \in Request |-> FALSE]
    /\ sawCancelled = [r \in Request |-> FALSE]
    /\ verdict = [r \in Request |-> "none"]
    /\ stopPc = [r \in Request |-> "idle"]
    /\ stopFound = [r \in Request |-> "none"]

Goto(r, from, to) == pc[r] = from /\ pc' = [pc EXCEPT ![r] = to]

(* The turns of the loop in which its Notified future exists. *)
Armed == {"checkSuperseded", "checkCancelled", "checkRunning", "await"}

(* notify_waiters: every existing future fires, later ones do not. *)
NotifyWaiters == woken' = [r \in Request |-> woken[r] \/ pc[r] \in Armed]

(* The future of r's turn goes out of scope. *)
DropFuture(r) == woken' = [woken EXCEPT ![r] = FALSE]

Return(r, v) == verdict' = [verdict EXCEPT ![r] = v]

-----------------------------------------------------------------------------
(* admit.  A definition with "Fault" in its name is a seeded bug that       *)
(* stands in for the definition after it to show that a property notices.  *)

(* Fault: an idle target waits for the next finish to start. *)
AfterSubmitFaultNoStart(q, r) == Enqueued(q, r)

(* submit, then start_next when nothing runs. *)
AfterSubmit(q, r) == Started(Enqueued(q, r))

(* ReplacedPendingInteractive { superseded }, if submit returned one. *)
Replaced(q, r) == {Superseded(q, r)} \ {None}

(* One section under the queue lock. *)
AdmitSubmit(r) ==
    /\ Goto(r, "idle", "announce")
    /\ Stamp(r)
    /\ queue' = [queue EXCEPT ![KeyOf[r]] = AfterSubmit(@, r)]
    /\ superseded' = superseded \cup Replaced(QueueOf(r), r)
    /\ UNCHANGED <<cancelled, woken, sawCancelled, verdict, stopVars>>

AdmitAnnounce(r) ==
    /\ Goto(r, "announce", "arm")
    /\ NotifyWaiters
    /\ UNCHANGED <<queueVars, superseded, cancelled, sawCancelled, verdict, stopVars>>

(* The loop creates its Notified future before it looks at any state. *)
AdmitArm(r) ==
    /\ Goto(r, "arm", "checkSuperseded")
    /\ UNCHANGED <<queueVars, registryVars, sawCancelled, verdict, stopVars>>

(* Fault: `contains` where the code has `remove`. *)
TakeSupersededFaultKeeps(r) == UNCHANGED superseded

TakeSuperseded(r) == superseded' = superseded \ {r}

AdmitCheckSuperseded(r) ==
    /\ TakeSuperseded(r)
    /\ \/ /\ r \in superseded
          /\ Goto(r, "checkSuperseded", "done")
          /\ Return(r, "superseded")
          /\ DropFuture(r)
       \/ /\ r \notin superseded
          /\ Goto(r, "checkSuperseded", "checkCancelled")
          /\ UNCHANGED <<verdict, woken>>
    /\ UNCHANGED <<queueVars, cancelled, sawCancelled, stopVars>>

AdmitCheckCancelled(r) ==
    /\ Goto(r, "checkCancelled", "checkRunning")
    /\ sawCancelled' = [sawCancelled EXCEPT ![r] = r \in cancelled]
    /\ UNCHANGED <<queueVars, registryVars, verdict, stopVars>>

(* The queue is read last; the three ways on use both reads. *)
ForgetSawCancelled(r) == sawCancelled' = [sawCancelled EXCEPT ![r] = FALSE]

(* Fault: a cancelled owner returns without giving the target back. *)
CancelledExitFaultKeepsTarget(r) == "forget"

CancelledExit(r) == IF IsRunning(r) THEN "giveBack" ELSE "forget"

AdmitCancelled(r) ==
    /\ sawCancelled[r]
    /\ Goto(r, "checkRunning", CancelledExit(r))
    /\ DropFuture(r)
    /\ ForgetSawCancelled(r)
    /\ UNCHANGED <<queueVars, superseded, cancelled, verdict, stopVars>>

AdmitGranted(r) ==
    /\ ~sawCancelled[r] /\ IsRunning(r)
    /\ Goto(r, "checkRunning", "run")
    /\ DropFuture(r)
    /\ Return(r, "ok")
    /\ UNCHANGED <<queueVars, superseded, cancelled, sawCancelled, stopVars>>

(* Fault: the Notified future is created only now, after the checks. *)
AdmitSleepFaultLateFuture(r) ==
    /\ ~sawCancelled[r] /\ ~IsRunning(r)
    /\ Goto(r, "checkRunning", "await")
    /\ DropFuture(r)
    /\ UNCHANGED <<queueVars, superseded, cancelled, sawCancelled, verdict, stopVars>>

AdmitSleep(r) ==
    /\ ~sawCancelled[r] /\ ~IsRunning(r)
    /\ Goto(r, "checkRunning", "await")
    /\ UNCHANGED <<queueVars, registryVars, sawCancelled, verdict, stopVars>>

AdmitWake(r) ==
    /\ woken[r]
    /\ Goto(r, "await", "arm")
    /\ DropFuture(r)
    /\ UNCHANGED <<queueVars, superseded, cancelled, sawCancelled, verdict, stopVars>>

(* Cancelled while it already owns the target: finish on its own behalf.   *)
AdmitGiveBack(r) ==
    /\ Goto(r, "giveBack", "giveBackNotify")
    /\ Finish(r)
    /\ UNCHANGED <<registryVars, sawCancelled, verdict, stopVars>>

AdmitGiveBackNotify(r) ==
    /\ Goto(r, "giveBackNotify", "forget")
    /\ NotifyWaiters
    /\ UNCHANGED <<queueVars, superseded, cancelled, sawCancelled, verdict, stopVars>>

AdmitForget(r) ==
    /\ Goto(r, "forget", "done")
    /\ cancelled' = cancelled \ {r}
    /\ Return(r, "cancelled")
    /\ UNCHANGED <<queueVars, superseded, woken, sawCancelled, stopVars>>

-----------------------------------------------------------------------------
(* finish, called when the admitted run returned, with or without an error *)

(* Fault: the next run is granted but nobody is told. *)
RunFinishFaultSilent(r) ==
    /\ Goto(r, "run", "done")
    /\ Finish(r)
    /\ UNCHANGED <<registryVars, sawCancelled, verdict, stopVars>>

RunFinish(r) ==
    /\ Goto(r, "run", "finishNotify")
    /\ Finish(r)
    /\ UNCHANGED <<registryVars, sawCancelled, verdict, stopVars>>

RunFinishNotify(r) ==
    /\ Goto(r, "finishNotify", "done")
    /\ NotifyWaiters
    /\ UNCHANGED <<queueVars, superseded, cancelled, sawCancelled, verdict, stopVars>>

-----------------------------------------------------------------------------
(* cancel: looks under the queue lock, marks under the cancelled lock *)

StopGoto(r, from, to) == stopPc[r] = from /\ stopPc' = [stopPc EXCEPT ![r] = to]

(* Fault: cancelling a running build hands its target over at once. *)
AfterCancelFaultRelease(q, r) ==
    IF q.running = r THEN Finished(q, r) ELSE WithoutPending(q, r)

(* Fault: pending work is reported as removed but stays queued. *)
AfterCancelFaultKeepsPending(q, r) == q

AfterCancel(q, r) == IF q.running = r THEN q ELSE WithoutPending(q, r)

CancelFinding(r) ==
    IF IsRunning(r) THEN "running"
    ELSE IF r \in Waiting(QueueOf(r)) THEN "removed"
    ELSE "nothing"

CancelLookup(r) ==
    /\ r \in Cancellable
    /\ StopGoto(r, "idle", IF CancelFinding(r) = "nothing" THEN "notify" ELSE "mark")
    /\ stopFound' = [stopFound EXCEPT ![r] = CancelFinding(r)]
    /\ queue' = [queue EXCEPT ![KeyOf[r]] = AfterCancel(@, r)]
    /\ UNCHANGED <<sequence, nextSequence, registryVars, taskVars>>

(* Fault: only running work is marked, as if removal were enough. *)
MarkedFaultRunningOnly(r) ==
    IF stopFound[r] = "running" THEN cancelled \cup {r} ELSE cancelled

Marked(r) == cancelled \cup {r}

CancelMark(r) ==
    /\ StopGoto(r, "mark", "notify")
    /\ cancelled' = Marked(r)
    /\ UNCHANGED <<queueVars, superseded, woken, taskVars, stopFound>>

CancelNotify(r) ==
    /\ StopGoto(r, "notify", "done")
    /\ NotifyWaiters
    /\ UNCHANGED <<queueVars, superseded, cancelled, taskVars, stopFound>>

-----------------------------------------------------------------------------
AdmitStep(r) ==
    \/ AdmitAnnounce(r) \/ AdmitArm(r) \/ AdmitCheckSuperseded(r)
    \/ AdmitCheckCancelled(r) \/ AdmitCancelled(r) \/ AdmitGranted(r)
    \/ AdmitSleep(r) \/ AdmitWake(r)
    \/ AdmitGiveBack(r) \/ AdmitGiveBackNotify(r) \/ AdmitForget(r)

FinishStep(r) == RunFinish(r) \/ RunFinishNotify(r)

CancelStep(r) == CancelMark(r) \/ CancelNotify(r)

Next == \E r \in Request :
    AdmitSubmit(r) \/ AdmitStep(r) \/ FinishStep(r) \/ CancelLookup(r) \/ CancelStep(r)

Spec == Init /\ [][Next]_vars

(* The async runtime polls every woken task, and an admitted run returns:  *)
(* its provider and render calls have timeouts and its attempts a bound.   *)
(* Nobody is obliged to start a run or to stop one.                        *)
Fairness == \A r \in Request :
    WF_vars(AdmitStep(r)) /\ WF_vars(FinishStep(r)) /\ WF_vars(CancelStep(r))

FairSpec == Spec /\ Fairness

-----------------------------------------------------------------------------
(* Properties *)

AdmissionTypeOK ==
    /\ TypeOK
    /\ pc \in [Request -> PcStates]
    /\ superseded \subseteq Request
    /\ cancelled \subseteq Request
    /\ woken \in [Request -> BOOLEAN]
    /\ sawCancelled \in [Request -> BOOLEAN]
    /\ verdict \in [Request -> Verdicts]
    /\ stopPc \in [Request -> {"idle", "mark", "notify", "done"}]
    /\ stopFound \in [Request -> Findings]

(* A build that admit let through owns its target until its own finish, so *)
(* two runs of one thread never build at the same time, whatever is        *)
(* cancelled or superseded around them (admit's Ok was decided on a queue  *)
(* it no longer holds).                                                    *)
RunnerOwnsTarget == \A r \in Request : pc[r] \in {"run", "giveBack"} => IsRunning(r)

(* The target is never held by a task that has already returned or given   *)
(* up: a target whose owner is gone would never build again.               *)
OwnerIsAlive == \A r \in Request :
    IsRunning(r) => pc[r] \in (InAdmit \cup {"run", "giveBack"})

(* A target is not left idle while work waits for it. *)
NoIdleTargetWithWork == \A k \in Key :
    queue[k].running = None => Waiting(queue[k]) = {}

(* No lost wakeup: a task that sleeps with nothing to wake it is one whose *)
(* turn has not come; if it was granted, replaced or cancelled, a          *)
(* notification is still on its way.                                       *)
NotifyPending ==
    \/ \E s \in Request : pc[s] \in {"announce", "finishNotify", "giveBackNotify"}
    \/ \E s \in Request : stopPc[s] \in {"mark", "notify"}

NoLostWakeup == \A r \in Request :
    pc[r] = "await" /\ ~woken[r] => r \in Waiting(QueueOf(r)) \/ NotifyPending

(* The three ways out of admit exclude each other: a replaced request is   *)
(* neither queued nor cancelled, so its task cannot consume the wrong      *)
(* tombstone.                                                              *)
SupersededIsFinal == \A r \in superseded :
    /\ pc[r] \in InAdmit
    /\ r \notin cancelled
    /\ ~IsRunning(r) /\ r \notin Waiting(QueueOf(r))

(* A cancellation that removed pending work wins: that request never       *)
(* builds.                                                                 *)
RemovedNeverRuns == \A r \in Request :
    stopFound[r] = "removed" => verdict[r] \in {"none", "cancelled"}

(* Every call of admit returns, where finitely many are made. *)
AdmitReturns == \A r \in Request :
    pc[r] = "announce" ~> pc[r] \in {"run", "done"}

(* Of the finitely many requests there are, the newest interactive one of a *)
(* thread is built unless it is cancelled or itself replaced: a controller  *)
(* may go first, also one submitted later, but no replacement, cancellation *)
(* or hand-over loses it.  It is no promise against a stream of controllers *)
(* that never ends: the queue prefers them without a bound, and would keep  *)
(* the interactive request waiting for ever.                                *)
NewestInteractiveRuns == \A r \in Request :
    Interactive(r) /\ pc[r] = "announce" ~>
      \/ verdict[r] = "ok"
      \/ stopPc[r] # "idle"
      \/ \E s \in Request \ {r} :
           KeyOf[s] = KeyOf[r] /\ Interactive(s) /\ sequence[s] > sequence[r]

(* A cancellation that removed pending work reaches the waiting task. *)
CancelIsDelivered == \A r \in Request :
    stopFound[r] = "removed" ~> verdict[r] = "cancelled"

=============================================================================
