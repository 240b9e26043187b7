-------------------------- MODULE CodexSteerProofs --------------------------
(***************************************************************************)
(* Proofs about CodexQueue and CodexSteer, for any set of prompts, any     *)
(* number of dispatch loops and any circumstances: what a loop does with   *)
(* the row it has claimed, what reaches the provider and when, and which   *)
(* policy the running turn is judged by.                                   *)
(*                                                                         *)
(* The first half is about the queue alone.  Whatever a loop does is one   *)
(* of five things: it looks for a prompt, takes it, goes on with it,       *)
(* begins its delivery, or leaves it with an outcome; the invariant is     *)
(* shown for each of the five, and each action to be one of them.  The     *)
(* second half adds the steers and their policy leases.  That the running  *)
(* turn has its own policy is shown for one dispatch loop and no restart,  *)
(* the circumstances that PolicyIsOfRunningTurn names.                     *)
(***************************************************************************)
EXTENDS CodexSteer, FiniteSetTheorems, TLAPS

-----------------------------------------------------------------------------
(* The inductive invariant of the queue *)

(* The points of a loop that has claimed a row and not begun its delivery.  *)
BeforeBegin == {"preflight", "resume", "recheck", "classify", "failClassify", "staleHead",
                "staleRuntime", "begin"}

(* The provider may have taken the prompt: its answer is waited for, or is  *)
(* written back.                                                            *)
Sent(l) == l.pc \in {"answer", "complete"} \/ (l.pc = "record" /\ l.error = "final")

(* Prompt p will not be sent again by itself: its row is gone, has failed   *)
(* for good, or is past its dispatch boundary and every loop that holds it  *)
(* has called the provider.                                                 *)
Spent(p) ==
    \/ row[p].status = "gone"
    \/ row[p].status = "failed" /\ row[p].error = "final"
    \/ /\ row[p].status = "sending" /\ row[p].dispatched
       /\ \A d \in Dispatcher : Claims(d, p) => Sent(loop[d])

(* No prompt of the queue was inserted in an earlier second than p.         *)
Eldest(p) == \A q \in Prompt : InQueue(q) => createdAt[p] <= createdAt[q]

(* What its place says of a loop: the row it has claimed is past the        *)
(* dispatch boundary or not, as its point says, and the head it has read is *)
(* the eldest for as long as it is in the queue at all.                     *)
LoopOK(d) ==
    /\ loop[d].pc \in Claiming \cup {"claim"} => Head(d) \in Prompt
    /\ loop[d].pc \in BeforeBegin => ~row[Head(d)].dispatched
    /\ loop[d].pc \in Dispatching => row[Head(d)].dispatched
    /\ loop[d].pc = "rotate" => Head(d) \notin rotatedFor
    /\ loop[d].pc = "claim" =>
          row[Head(d)].status # "absent" /\ (InQueue(Head(d)) => Eldest(Head(d)))

(* What the rows say of a prompt: a claimed one is the eldest, and one that *)
(* was not sent again on purpose was sent at most once and, if so, is       *)
(* spent.                                                                   *)
PromptOK(p) ==
    /\ createdAt[p] <= clock
    /\ row[p].status = "sending" => Eldest(p)
    /\ p \notin replayable => delivered[p] = 0 \/ (delivered[p] = 1 /\ Spent(p))

(* The inductive invariant of the queue.                                    *)
QueueInv ==
    /\ QueueTypeOK
    /\ SoleClaimant /\ ClaimIsStanding /\ OrphansComeFromStorage /\ BindingIsFresh
    /\ \A d \in Dispatcher : LoopOK(d)
    /\ \A p \in Prompt : PromptOK(p)

-----------------------------------------------------------------------------
(* What a dispatch loop does: five kinds of step *)

(* A step of loop d leaves the other loops alone, and what only the user or *)
(* a restart changes.                                                       *)
LoopMoves(d) ==
    /\ QueueTypeOK'
    /\ UNCHANGED <<createdAt, clock, setup, restarts, replayable>> /\ faults' >= faults
    /\ \A x \in Dispatcher \ {d} : loop'[x] = loop[x]

(* The loop holds no claim and finds the next head, or none.                *)
Looks(d) ==
    /\ LoopMoves(d)
    /\ UNCHANGED <<row, binding, rotatedFor, delivered>>
    /\ loop[d].pc \notin Claiming /\ loop'[d].pc \notin Claiming
    /\ loop'[d].pc = "claim" => loop'[d].head \in Prompt /\ NextUp(loop'[d].head)

(* The loop claims the head it has read.                                    *)
Takes(d) ==
    /\ LoopMoves(d)
    /\ UNCHANGED <<binding, rotatedFor, delivered>>
    /\ loop[d].pc = "claim" /\ CanClaim(Head(d)) /\ SetRow(Head(d), ClaimedRow)
    /\ loop'[d].pc = "preflight" /\ loop'[d].head = Head(d)

(* The loop keeps its claim. It rotates the binding at most once for its    *)
(* prompt, and only from "start" it may hand the prompt over.               *)
Goes(d) ==
    /\ LoopMoves(d)
    /\ loop[d].pc \in Claiming /\ loop'[d].pc \in Claiming /\ loop'[d].head = Head(d)
    /\ loop'[d].pc \in BeforeBegin => loop[d].pc \in BeforeBegin
    /\ UNCHANGED row
    /\ loop'[d].pc \in Dispatching => loop[d].pc \in Dispatching
    /\ \/ UNCHANGED <<binding, rotatedFor>>
          /\ (loop'[d].pc = "rotate" => Head(d) \notin rotatedFor)
       \/ /\ loop[d].pc = "rotate" /\ loop'[d].pc # "rotate"
          /\ rotatedFor' = rotatedFor \cup {Head(d)}
          /\ binding' = Cardinality(rotatedFor) + 1
    /\ \/ UNCHANGED delivered /\ (Sent(loop[d]) => Sent(loop'[d]))
       \/ /\ loop[d].pc = "start" /\ loop'[d].pc = "answer"
          /\ delivered' = [delivered EXCEPT ![Head(d)] = @ + 1]

(* The loop passes the dispatch boundary.                                   *)
Begins(d) ==
    /\ LoopMoves(d)
    /\ UNCHANGED <<binding, rotatedFor, delivered>>
    /\ loop[d].pc = "begin" /\ CanBegin(Head(d))
    /\ SetRow(Head(d), [row[Head(d)] EXCEPT !.dispatched = TRUE])
    /\ loop'[d].pc \in {"accept", "install"} /\ loop'[d].head = Head(d)

(* The loop gives its claim up: the row was removed, or is written back     *)
(* with an outcome, or a failing database leaves it claimed; a prompt that  *)
(* was sent is not queued again.                                            *)
Leaves(d) ==
    LET p == Head(d) IN
    /\ LoopMoves(d)
    /\ UNCHANGED <<binding, rotatedFor, delivered>>
    /\ loop[d].pc \in Claiming /\ loop'[d].pc \notin Claiming \cup {"claim"}
    /\ \/ UNCHANGED row /\ row[p].status = "gone"
       \/ UNCHANGED row /\ row[p].status = "sending" /\ "storage" \in setup.kinds /\ faults' > 0
       \/ /\ row[p].status = "sending"
          /\ \E r \in RowType : /\ SetRow(p, r) /\ r.status \in {"queued", "failed", "gone"}
                                /\ Sent(loop[d]) => r.status = "gone"
                                                    \/ (r.status = "failed" /\ r.error = "final")

(* The five kinds of step.                                                  *)
LoopKind(d) == Looks(d) \/ Takes(d) \/ Goes(d) \/ Begins(d) \/ Leaves(d)

-----------------------------------------------------------------------------
(* Each kind of step keeps the invariant *)

(* The head of the queue is the eldest.                                     *)
LEMMA HeadIsEldest ==
    ASSUME QueueTypeOK, NEW h \in Prompt, IsHead(h)
    PROVE  Eldest(h) /\ row[h].status # "absent"
BY DEF IsHead, Eldest, Before, InQueue, QueueTypeOK

(* A loop that holds a claim is the only one that holds this row, and the   *)
(* row is claimed or was removed.                                           *)
LEMMA StandingFacts ==
    ASSUME QueueInv, NEW d \in Dispatcher, loop[d].pc \in Claiming
    PROVE  /\ Head(d) \in Prompt
           /\ row[Head(d)].status = "sending"
              \/ (row[Head(d)].status = "gone" /\ loop[d].pc \notin Dispatching)
           /\ \A x \in Dispatcher : loop[x].pc \in Claiming /\ Head(x) = Head(d) => x = d
BY DEF QueueInv, LoopOK, ClaimIsStanding, SoleClaimant, Claims

(* A look changes no claim. What it reads as the head is the eldest.        *)
LEMMA LooksKeeps == ASSUME QueueInv, NEW d \in Dispatcher, Looks(d) PROVE QueueInv'
<1>1. \A x \in Dispatcher : loop'[x].pc \in Claiming => loop'[x] = loop[x] /\ loop[x].pc \in Claiming
  BY DEF Looks, LoopMoves
<1>2. SoleClaimant' /\ ClaimIsStanding'
  BY <1>1 DEF QueueInv, SoleClaimant, ClaimIsStanding, Looks, Claims, Head
<1>3. \A x \in Dispatcher, p \in Prompt : Claims(x, p) => Claims(x, p)'
  BY DEF Looks, LoopMoves, Claims, Head
<1>4. OrphansComeFromStorage' /\ BindingIsFresh'
  BY <1>3 DEF QueueInv, OrphansComeFromStorage, WriteRefused, BindingIsFresh, Orphan, Looks,
     LoopMoves, QueueTypeOK
<1>5. \A p \in Prompt : Eldest(p) <=> Eldest(p)'
  BY DEF Eldest, InQueue, Looks, LoopMoves
<1>6. ASSUME NEW x \in Dispatcher PROVE LoopOK(x)'
  <2>1. CASE x = d
    <3>1. loop'[d].pc = "claim" => /\ loop'[d].head \in Prompt
                                   /\ row[loop'[d].head].status # "absent" /\ Eldest(loop'[d].head)
      BY HeadIsEldest DEF Looks, NextUp, QueueInv
    <3> QED BY <2>1, <3>1, <1>5 DEF LoopOK, Looks, LoopMoves, Head, InQueue,
       Claiming, BeforeBegin, Dispatching
  <2>2. CASE x # d
    BY <2>2, <1>5 DEF QueueInv, LoopOK, Looks, LoopMoves, Head, InQueue
  <2> QED BY <2>1, <2>2
<1>7. ASSUME NEW p \in Prompt PROVE PromptOK(p)'
  <2>1. Spent(p) => Spent(p)'
    BY <1>1 DEF Spent, Looks, LoopMoves, Claims, Head
  <2> QED BY <1>5, <2>1 DEF QueueInv, PromptOK, Looks, LoopMoves
<1> QED BY <1>2, <1>4, <1>6, <1>7 DEF QueueInv, Looks, LoopMoves

(* A claim: the row was queued, so nobody held it, and its prompt is still  *)
(* the eldest, since later prompts are inserted in the same second or       *)
(* later.                                                                   *)
LEMMA TakesKeeps == ASSUME QueueInv, NEW d \in Dispatcher, Takes(d) PROVE QueueInv'
<1>0. PICK p \in Prompt : p = Head(d)
  BY DEF QueueInv, LoopOK, Takes
<1>1. /\ p \in Prompt /\ row[p].status = "queued" /\ Eldest(p)
      /\ row'[p] = ClaimedRow /\ \A q \in Prompt : q # p => row'[q] = row[q]
      /\ \A q \in Prompt : InQueue(q)' <=> InQueue(q)
  BY <1>0 DEF QueueInv, LoopOK, Takes, CanClaim, SetRow, InQueue, QueueTypeOK,
     ClaimedRow
<1>2. \A x \in Dispatcher : loop[x].pc \in Claiming => Head(x) # p
  BY <1>0, <1>1, StandingFacts
<1>3. \A x \in Dispatcher : x # d => loop'[x] = loop[x]
  BY <1>0 DEF Takes, LoopMoves
<1>4. loop'[d].head = p /\ loop'[d].pc = "preflight"
  BY <1>0 DEF Takes
<1>5. SoleClaimant' /\ ClaimIsStanding'
  BY <1>1, <1>2, <1>3, <1>4 DEF QueueInv, SoleClaimant, ClaimIsStanding, Claims,
     Head, ClaimedRow, Dispatching, LoopOK
<1>6. OrphansComeFromStorage' /\ BindingIsFresh'
  <2>1. \A x \in Dispatcher, q \in Prompt : Claims(x, q) => Claims(x, q)'
    BY <1>3, <1>4 DEF Takes, Claims, Head, Claiming
  <2>2. Claims(d, p)'
    BY <1>4 DEF Claims, Claiming, Head
  <2> QED BY <1>1, <2>1, <2>2 DEF QueueInv, OrphansComeFromStorage, WriteRefused, BindingIsFresh,
     Orphan, Takes, LoopMoves, QueueTypeOK
<1>7. \A q \in Prompt : Eldest(q) <=> Eldest(q)'
  BY <1>1 DEF Eldest, Takes, LoopMoves
<1>8. ASSUME NEW x \in Dispatcher PROVE LoopOK(x)'
  <2>1. CASE x = d
    BY <2>1, <1>1, <1>4 DEF LoopOK, Head, ClaimedRow, Dispatching
  <2>2. CASE x # d
    BY <2>2, <1>1, <1>2, <1>3, <1>7 DEF QueueInv, LoopOK, Takes, Head, ClaimedRow,
       Claiming, BeforeBegin, Dispatching
  <2> QED BY <2>1, <2>2
<1>9. ASSUME NEW q \in Prompt PROVE PromptOK(q)'
  <2>1. q # p /\ Spent(q) => Spent(q)'
    BY <1>1, <1>3, <1>4 DEF Spent, Claims, Head
  <2>2. ~Spent(p)
    BY <1>1 DEF Spent
  <2> QED BY <1>1, <1>7, <2>1, <2>2 DEF QueueInv, PromptOK, Takes, LoopMoves,
     ClaimedRow
<1> QED BY <1>5, <1>6, <1>8, <1>9 DEF QueueInv, Takes, LoopMoves

(* A step under a claim. The prompt handed over here was never sent before: *)
(* its row is past the boundary and no other loop holds it, so it would be  *)
(* spent had it been sent.                                                  *)
LEMMA GoesKeeps == ASSUME QueueInv, NEW d \in Dispatcher, Goes(d) PROVE QueueInv'
<1>0. PICK p \in Prompt : p = Head(d)
  BY StandingFacts DEF Goes
<1>1. /\ p \in Prompt
      /\ row[p].status = "sending" \/ (row[p].status = "gone" /\ loop[d].pc \notin Dispatching)
      /\ \A x \in Dispatcher : loop[x].pc \in Claiming /\ Head(x) = p => x = d
  BY <1>0, StandingFacts DEF Goes
<1>2. /\ loop[d].pc \in Claiming /\ loop'[d].pc \in Claiming /\ loop'[d].head = p
      /\ \A x \in Dispatcher : x # d => loop'[x] = loop[x]
      /\ UNCHANGED <<row, createdAt, clock, replayable, setup>>
  BY <1>0 DEF Goes, LoopMoves
<1>3. \A x \in Dispatcher, q \in Prompt : Claims(x, q) <=> Claims(x, q)'
  BY <1>0, <1>2 DEF Claims, Head
<1>4. SoleClaimant' /\ OrphansComeFromStorage'
  BY <1>0, <1>2, <1>3 DEF QueueInv, SoleClaimant, OrphansComeFromStorage, WriteRefused, Orphan,
     Goes, LoopMoves, QueueTypeOK
<1>5. ClaimIsStanding'
  BY <1>1, <1>2 DEF QueueInv, ClaimIsStanding, Head, Goes
<1>6. BindingIsFresh'
  <2>1. CASE UNCHANGED <<binding, rotatedFor>>
    BY <2>1 DEF QueueInv, BindingIsFresh
  <2>2. CASE /\ loop[d].pc = "rotate"
             /\ rotatedFor' = rotatedFor \cup {p} /\ binding' = Cardinality(rotatedFor) + 1
    <3>1. p \notin rotatedFor
      BY <1>0, <2>2 DEF QueueInv, LoopOK
    <3>2. IsFiniteSet(rotatedFor)
      BY PromptAssumption, FS_Subset DEF QueueInv, QueueTypeOK
    <3> QED BY <2>2, <3>1, <3>2, FS_AddElement DEF BindingIsFresh
  <2> QED BY <1>0, <2>1, <2>2 DEF Goes
<1>7. \A q \in Prompt : Eldest(q) <=> Eldest(q)'
  BY <1>2 DEF Eldest, InQueue
<1>8. ASSUME NEW x \in Dispatcher PROVE LoopOK(x)'
  <2>1. CASE x = d
    BY <1>0, <2>1, <1>1, <1>2 DEF QueueInv, LoopOK, Goes, Head, Claiming
  <2>2. CASE x # d
    BY <1>0, <2>2, <1>1, <1>2, <1>7 DEF QueueInv, LoopOK, Goes, Head, InQueue,
       Claiming
  <2> QED BY <2>1, <2>2
<1>9. ASSUME NEW q \in Prompt PROVE PromptOK(q)'
  <2>1. CASE UNCHANGED delivered /\ (Sent(loop[d]) => Sent(loop'[d]))
    <3>1. Spent(q) => Spent(q)'
      BY <1>2, <1>3, <2>1 DEF Spent
    <3> QED BY <1>2, <1>7, <2>1, <3>1 DEF QueueInv, PromptOK
  <2>2. CASE /\ loop[d].pc = "start" /\ loop'[d].pc = "answer"
             /\ delivered' = [delivered EXCEPT ![p] = @ + 1]
    <3>1. CASE q = p
      <4>1. row[p].status = "sending" /\ row[p].dispatched
        BY <1>0, <1>1, <2>2 DEF QueueInv, LoopOK, Dispatching
      <4>2. Claims(d, p) /\ ~Sent(loop[d]) /\ Sent(loop'[d])
        BY <1>0, <1>2, <2>2 DEF Claims, Sent
      <4>3. ~Spent(p)
        BY <4>1, <4>2 DEF Spent
      <4>4. Spent(p)'
        BY <1>1, <1>2, <1>3, <4>1, <4>2 DEF Spent, Claims
      <4>5. p \notin replayable => delivered'[p] = 1
        BY <2>2, <4>3, <1>1 DEF QueueInv, PromptOK, QueueTypeOK
      <4> QED BY <1>2, <1>7, <3>1, <4>4, <4>5 DEF QueueInv, PromptOK
    <3>2. CASE q # p
      <4>1. Spent(q) => Spent(q)'
        BY <1>2, <1>3, <3>2 DEF Spent, Claims, Head
      <4> QED BY <1>1, <1>2, <1>7, <2>2, <3>2, <4>1
         DEF QueueInv, PromptOK, QueueTypeOK
    <3> QED BY <3>1, <3>2
  <2> QED BY <1>0, <2>1, <2>2 DEF Goes
<1> QED BY <1>4, <1>5, <1>6, <1>8, <1>9 DEF QueueInv, Goes, LoopMoves

(* The dispatch boundary is passed only once: the row is claimed and not    *)
(* past it.                                                                 *)
LEMMA BeginsKeeps ==
    ASSUME QueueInv, NEW d \in Dispatcher, Begins(d)
    PROVE  QueueInv'
<1>0. PICK p \in Prompt : p = Head(d)
  BY StandingFacts DEF Begins, Claiming
<1>1. /\ p \in Prompt
      /\ \A x \in Dispatcher : loop[x].pc \in Claiming /\ Head(x) = p => x = d
  BY <1>0, StandingFacts DEF Begins, Claiming
<1>2. /\ row[p].status = "sending" /\ ~row[p].dispatched
      /\ row'[p].status = "sending" /\ row'[p].dispatched
      /\ \A q \in Prompt : q # p => row'[q] = row[q]
      /\ \A q \in Prompt : InQueue(q)' <=> InQueue(q)
  BY <1>0, <1>1 DEF Begins, CanBegin, SetRow, InQueue, QueueInv, QueueTypeOK,
     RowType
<1>3. /\ loop[d].pc = "begin" /\ loop'[d].pc \in {"accept", "install"} /\ loop'[d].head = p
      /\ \A x \in Dispatcher : x # d => loop'[x] = loop[x]
      /\ UNCHANGED <<createdAt, clock, replayable, setup, binding, rotatedFor, delivered>>
  BY <1>0 DEF Begins, LoopMoves
<1>4. \A x \in Dispatcher, q \in Prompt : Claims(x, q) <=> Claims(x, q)'
  BY <1>0, <1>3 DEF Claims, Head, Claiming
<1>5. SoleClaimant' /\ ClaimIsStanding' /\ BindingIsFresh'
  BY <1>1, <1>2, <1>3, <1>4 DEF QueueInv, SoleClaimant, ClaimIsStanding,
     BindingIsFresh, Head, LoopOK
<1>6. OrphansComeFromStorage'
  <2>1. Claims(d, p)
    BY <1>0, <1>3 DEF Claims, Claiming
  <2> QED BY <1>1, <1>2, <1>3, <1>4, <2>1
     DEF QueueInv, OrphansComeFromStorage, WriteRefused, Orphan, Begins, LoopMoves, QueueTypeOK
<1>7. \A q \in Prompt : Eldest(q) <=> Eldest(q)'
  BY <1>2, <1>3 DEF Eldest
<1>8. ASSUME NEW x \in Dispatcher PROVE LoopOK(x)'
  <2>1. CASE x = d
    BY <2>1, <1>1, <1>2, <1>3 DEF LoopOK, Head, BeforeBegin
  <2>2. CASE x # d
    BY <2>2, <1>1, <1>2, <1>3, <1>7 DEF QueueInv, LoopOK, Head, Claiming,
       BeforeBegin, Dispatching
  <2> QED BY <2>1, <2>2
<1>9. ASSUME NEW q \in Prompt PROVE PromptOK(q)'
  <2>1. q # p /\ Spent(q) => Spent(q)'
    BY <1>0, <1>2, <1>3 DEF Spent, Claims, Head
  <2>2. ~Spent(p)
    BY <1>2 DEF Spent
  <2> QED BY <1>2, <1>3, <1>7, <2>1, <2>2 DEF QueueInv, PromptOK
<1> QED BY <1>5, <1>6, <1>8, <1>9 DEF QueueInv, Begins, LoopMoves

(* A claim is given up. The row is written by the only loop that holds it.  *)
LEMMA LeavesKeeps ==
    ASSUME QueueInv, NEW d \in Dispatcher, Leaves(d)
    PROVE  QueueInv'
<1>0. PICK p \in Prompt : p = Head(d)
  BY StandingFacts DEF Leaves
<1>1. /\ p \in Prompt
      /\ row[p].status = "sending" \/ row[p].status = "gone"
      /\ \A x \in Dispatcher : loop[x].pc \in Claiming /\ Head(x) = p => x = d
  BY <1>0, StandingFacts DEF Leaves
<1>2. /\ loop[d].pc \in Claiming /\ loop'[d].pc \notin Claiming /\ loop'[d].pc # "claim"
      /\ \A x \in Dispatcher : x # d => loop'[x] = loop[x]
      /\ UNCHANGED <<createdAt, clock, replayable, setup, binding, rotatedFor, delivered>>
  BY <1>0 DEF Leaves, LoopMoves
<1>3. /\ \A q \in Prompt : q # p => row'[q] = row[q]
      /\ \/ row'[p].status = "gone" \/ row'[p].status \in {"queued", "failed"}
         \/ row'[p] = row[p] /\ "storage" \in setup.kinds /\ faults' > 0
      /\ row'[p] = row[p] \/ row[p].status = "sending"
      /\ Sent(loop[d]) => \/ row'[p] = row[p] \/ row'[p].status = "gone"
                          \/ (row'[p].status = "failed" /\ row'[p].error = "final")
  BY <1>0, <1>1 DEF Leaves, SetRow, QueueInv, QueueTypeOK
<1>4. /\ \A q \in Prompt : q # p => \A x \in Dispatcher : Claims(x, q) <=> Claims(x, q)'
      /\ \A x \in Dispatcher : Claims(x, p) <=> x = d
      /\ \A x \in Dispatcher : ~Claims(x, p)'
  BY <1>0, <1>1, <1>2 DEF Claims, Head
<1>5. SoleClaimant' /\ BindingIsFresh'
  BY <1>2, <1>4 DEF QueueInv, SoleClaimant, BindingIsFresh
<1>6. ClaimIsStanding'
  BY <1>1, <1>2, <1>3 DEF QueueInv, ClaimIsStanding, Head, LoopOK
<1>7. OrphansComeFromStorage'
  BY <1>1, <1>2, <1>3, <1>4 DEF QueueInv, OrphansComeFromStorage, WriteRefused, Orphan, Leaves,
     LoopMoves, QueueTypeOK
<1>8. \A q \in Prompt : (InQueue(q)' => InQueue(q)) /\ (Eldest(q) => Eldest(q)')
  BY <1>1, <1>2, <1>3 DEF Eldest, InQueue
<1>9. ASSUME NEW x \in Dispatcher PROVE LoopOK(x)'
  <2>1. CASE x = d
    BY <2>1, <1>2 DEF LoopOK, Claiming, BeforeBegin, Dispatching
  <2>2. CASE x # d
    <3>1. loop[x].pc \in Claiming => Head(x) # p
      BY <2>2, <1>1
    <3>2. row[p].status # "absent" /\ row'[p].status # "absent"
      BY <1>1, <1>3
    <3> QED BY <2>2, <1>2, <1>3, <1>8, <3>1, <3>2
       DEF QueueInv, LoopOK, Head, Claiming, BeforeBegin, Dispatching
  <2> QED BY <2>1, <2>2
<1>10. ASSUME NEW q \in Prompt PROVE PromptOK(q)'
  <2>1. q # p /\ Spent(q) => Spent(q)'
    BY <1>3, <1>4, <1>2 DEF Spent, Claims, Head
  <2>2. Spent(p) => Spent(p)'
    BY <1>1, <1>3, <1>4 DEF Spent
  <2>3. q # p /\ row'[q].status = "sending" => Eldest(q)'
    BY <1>3, <1>8 DEF QueueInv, PromptOK
  <2>4. row'[p].status = "sending" => Eldest(p)'
    BY <1>1, <1>3, <1>8 DEF QueueInv, PromptOK
  <2> QED BY <1>2, <2>1, <2>2, <2>3, <2>4 DEF QueueInv, PromptOK
<1> QED BY <1>5, <1>6, <1>7, <1>9, <1>10 DEF QueueInv, Leaves, LoopMoves

-----------------------------------------------------------------------------
(* Each action is of one of the kinds *)

(* A loop that ends or begins anew is a loop.                               *)
LEMMA IdleIsTyped ==
    /\ IdleLoop \in LoopType
    /\ \A rotated \in BOOLEAN : [IdleLoop EXCEPT !.pc = "bind", !.rotated = rotated] \in LoopType
<1>1. 0 \in External
  BY FS_CardinalityType, PromptAssumption DEF External
<1>2. IdleLoop \in LoopType
  BY <1>1 DEF IdleLoop, LoopType, Points, Errors
<1>3. ASSUME NEW rotated \in BOOLEAN
      PROVE  [IdleLoop EXCEPT !.pc = "bind", !.rotated = rotated] \in LoopType
  BY <1>1 DEF IdleLoop, LoopType, Points, Errors
<1> QED BY <1>2, <1>3

(* A loop replaced by a loop keeps the type of the loops.                   *)
LEMMA LoopIsTyped ==
    ASSUME QueueTypeOK, NEW d \in Dispatcher, NEW l \in LoopType, loop' = [loop EXCEPT ![d] = l]
    PROVE  loop' \in [Dispatcher -> LoopType]
BY DEF QueueTypeOK

(* A loop that has claimed its head is a loop.                              *)
LEMMA RoutedIsTyped ==
    ASSUME NEW l \in LoopType, NEW routed \in BOOLEAN
    PROVE  [l EXCEPT !.pc = "preflight", !.routed = routed] \in LoopType
BY DEF LoopType, Points

(* DispatchSpawned looks.                                                   *)
LEMMA DispatchSpawnedLooks ==
    ASSUME QueueInv, NEW d \in Dispatcher, DispatchSpawned(d)
    PROVE  Looks(d)
<1>1. QueueTypeOK'
  BY DEF DispatchSpawned, Goto, durableVars, providerVars, boundVars, historyVars,
     QueueInv, QueueTypeOK, LoopType, Points, Errors
<1>2. LoopMoves(d)
  BY <1>1 DEF LoopMoves, DispatchSpawned, Goto, durableVars, providerVars,
     boundVars, historyVars, QueueInv, QueueTypeOK
<1> QED BY <1>2 DEF Looks, Claiming, DispatchSpawned, Goto, At, durableVars,
   historyVars

(* ReadBinding looks.                                                       *)
LEMMA ReadBindingLooks ==
    ASSUME QueueInv, NEW d \in Dispatcher, ReadBinding(d)
    PROVE  Looks(d)
<1>1. QueueTypeOK'
  <2> DEFINE l == [loop[d] EXCEPT !.pc = "runtime", !.ext = binding]
  <2>1. l \in LoopType
    <3>1. loop[d] \in LoopType /\ binding \in External
      BY DEF QueueInv, QueueTypeOK
    <3> QED BY <3>1 DEF LoopType, Points
  <2>2. loop' = [loop EXCEPT ![d] = l]
    BY DEF ReadBinding, QueueInv, QueueTypeOK, LoopType
  <2> HIDE DEF l
  <2>3. loop' \in [Dispatcher -> LoopType]
    BY <2>1, <2>2, LoopIsTyped DEF QueueInv
  <2> QED BY <2>3 DEF ReadBinding, durableVars, providerVars, boundVars,
     historyVars, QueueInv, QueueTypeOK
<1>2. LoopMoves(d)
  BY <1>1 DEF LoopMoves, ReadBinding, durableVars, providerVars, boundVars,
     historyVars, QueueInv, QueueTypeOK
<1> QED BY <1>2 DEF Looks, Claiming, ReadBinding, At, durableVars, historyVars,
   QueueInv, QueueTypeOK

(* ReadRuntime looks.                                                       *)
LEMMA ReadRuntimeLooks ==
    ASSUME QueueInv, NEW d \in Dispatcher, ReadRuntime(d)
    PROVE  Looks(d)
<1>1. QueueTypeOK'
  <2>1. PICK point \in Points : loop' = [loop EXCEPT ![d].pc = point, ![d].active = FALSE]
    BY DEF ReadRuntime, Points
  <2> DEFINE l == [loop[d] EXCEPT !.pc = point, !.active = FALSE]
  <2>2. l \in LoopType
    <3>1. loop[d] \in LoopType /\ binding \in External
      BY DEF QueueInv, QueueTypeOK
    <3> QED BY <3>1 DEF LoopType, Points
  <2>3. loop' = [loop EXCEPT ![d] = l]
    BY <2>1 DEF QueueInv, QueueTypeOK, LoopType
  <2> HIDE DEF l
  <2>4. loop' \in [Dispatcher -> LoopType]
    BY <2>2, <2>3, LoopIsTyped DEF QueueInv
  <2> QED BY <2>4 DEF ReadRuntime, durableVars, providerVars, boundVars,
     historyVars, QueueInv, QueueTypeOK
<1>2. LoopMoves(d)
  BY <1>1 DEF LoopMoves, ReadRuntime, durableVars, providerVars, boundVars,
     historyVars, QueueInv, QueueTypeOK
<1> QED BY <1>2 DEF Looks, Claiming, ReadRuntime, At, durableVars, historyVars,
   QueueInv, QueueTypeOK

(* ReconcileAsks looks.                                                     *)
LEMMA ReconcileAsksLooks ==
    ASSUME QueueInv, NEW d \in Dispatcher, ReconcileAsks(d)
    PROVE  Looks(d)
<1>1. QueueTypeOK'
  <2>1. \E l \in LoopType : loop' = [loop EXCEPT ![d] = l]
    <3>1. CASE loop' = [loop EXCEPT ![d].pc = "store", ![d].active = TurnRuns(Ext(d))]
      <4> DEFINE l == [loop[d] EXCEPT !.pc = "store", !.active = TurnRuns(Ext(d))]
      <4>1. l \in LoopType
        <5>1. loop[d] \in LoopType /\ binding \in External
          BY DEF QueueInv, QueueTypeOK
        <5> QED BY <5>1 DEF LoopType, Points, TurnRuns
      <4>2. loop' = [loop EXCEPT ![d] = l]
        BY <3>1 DEF Leave, QueueInv, QueueTypeOK, LoopType
      <4> HIDE DEF l
      <4> QED BY <4>1, <4>2
    <3>2. CASE Leave(d)
      <4> DEFINE l == IdleLoop
      <4>1. l \in LoopType
        <5>1. loop[d] \in LoopType /\ binding \in External
          BY DEF QueueInv, QueueTypeOK
        <5> QED BY IdleIsTyped, <5>1 DEF LoopType, Points, Errors
      <4>2. loop' = [loop EXCEPT ![d] = l]
        BY <3>2 DEF Leave, QueueInv, QueueTypeOK, LoopType
      <4> HIDE DEF l
      <4> QED BY <4>1, <4>2
    <3> QED BY <3>1, <3>2 DEF ReconcileAsks
  <2>2. loop' \in [Dispatcher -> LoopType]
    BY <2>1, LoopIsTyped DEF QueueInv
  <2> QED BY <2>2 DEF ReconcileAsks, Leave, Fault, NoFault, durableVars,
     providerVars, boundVars, historyVars, QueueInv, QueueTypeOK
<1>2. LoopMoves(d)
  BY <1>1 DEF LoopMoves, ReconcileAsks, Leave, Fault, NoFault, durableVars,
     historyVars, QueueInv, QueueTypeOK
<1> QED BY <1>2 DEF Looks, Claiming, ReconcileAsks, Leave, IdleLoop, At,
   durableVars, historyVars, QueueInv, QueueTypeOK, LoopType

(* ReconcileStores looks.                                                   *)
LEMMA ReconcileStoresLooks ==
    ASSUME QueueInv, NEW d \in Dispatcher, ReconcileStores(d)
    PROVE  Looks(d)
<1>1. QueueTypeOK'
  <2>1. loop' \in [Dispatcher -> LoopType]
    BY DEF ReconcileStores, Goto, QueueInv, QueueTypeOK, LoopType, Points, Errors
  <2>2. runtime' \in [External -> Runtimes]
    BY DEF ReconcileStores, Runtimes, QueueInv, QueueTypeOK
  <2> QED BY <2>1, <2>2 DEF ReconcileStores, durableVars, providerVars, boundVars,
     historyVars, QueueInv, QueueTypeOK
<1>2. LoopMoves(d)
  BY <1>1 DEF LoopMoves, ReconcileStores, Goto, durableVars, providerVars,
     boundVars, historyVars, QueueInv, QueueTypeOK
<1> QED BY <1>2 DEF Looks, Claiming, ReconcileStores, Goto, At, durableVars,
   historyVars

(* ListQueue looks.                                                         *)
LEMMA ListQueueLooks ==
    ASSUME QueueInv, NEW d \in Dispatcher, ListQueue(d)
    PROVE  Looks(d)
<1>1. QueueTypeOK'
  <2>1. \E l \in LoopType : loop' = [loop EXCEPT ![d] = l]
    <3>1. CASE \E p \in Prompt : loop' = [loop EXCEPT ![d].pc = "claim", ![d].head = p]
      <4>0. PICK p \in Prompt : loop' = [loop EXCEPT ![d].pc = "claim", ![d].head = p]
        BY <3>1
      <4> DEFINE l == [loop[d] EXCEPT !.pc = "claim", !.head = p]
      <4>1. l \in LoopType
        <5>1. loop[d] \in LoopType /\ binding \in External
          BY DEF QueueInv, QueueTypeOK
        <5> QED BY <5>1 DEF LoopType, Points
      <4>2. loop' = [loop EXCEPT ![d] = l]
        BY <4>0 DEF Leave, QueueInv, QueueTypeOK, LoopType
      <4> HIDE DEF l
      <4> QED BY <4>1, <4>2
    <3>2. CASE Leave(d)
      <4> DEFINE l == IdleLoop
      <4>1. l \in LoopType
        <5>1. loop[d] \in LoopType /\ binding \in External
          BY DEF QueueInv, QueueTypeOK
        <5> QED BY IdleIsTyped, <5>1 DEF LoopType, Points, Errors
      <4>2. loop' = [loop EXCEPT ![d] = l]
        BY <3>2 DEF Leave, QueueInv, QueueTypeOK, LoopType
      <4> HIDE DEF l
      <4> QED BY <4>1, <4>2
    <3> QED BY <3>1, <3>2 DEF ListQueue
  <2>2. loop' \in [Dispatcher -> LoopType]
    BY <2>1, LoopIsTyped DEF QueueInv
  <2> QED BY <2>2 DEF ListQueue, Leave, durableVars, providerVars, boundVars,
     historyVars, QueueInv, QueueTypeOK
<1>2. LoopMoves(d)
  BY <1>1 DEF LoopMoves, ListQueue, Leave, IdleLoop, durableVars, providerVars,
     boundVars, historyVars, QueueInv, QueueTypeOK
<1> QED BY <1>2 DEF Looks, Claiming, ListQueue, Leave, IdleLoop, At, durableVars,
   historyVars, QueueInv, QueueTypeOK, LoopType

(* After looks.                                                             *)
LEMMA AfterLooks == ASSUME QueueInv, NEW d \in Dispatcher, After(d) PROVE Looks(d)
<1>1. QueueTypeOK'
  <2>1. \E l \in LoopType : loop' = [loop EXCEPT ![d] = l]
    <3>1. CASE NextTurnOfLoop(d)
      <4> DEFINE l == [IdleLoop EXCEPT !.pc = "bind", !.rotated = loop[d].rotated]
      <4>1. l \in LoopType
        <5>1. loop[d] \in LoopType /\ binding \in External
          BY DEF QueueInv, QueueTypeOK
        <5> QED BY IdleIsTyped, <5>1 DEF LoopType, Points, Errors
      <4>2. loop' = [loop EXCEPT ![d] = l]
        BY <3>1 DEF Leave, NextTurnOfLoop, QueueInv, QueueTypeOK, LoopType
      <4> HIDE DEF l
      <4> QED BY <4>1, <4>2
    <3>2. CASE Leave(d)
      <4> DEFINE l == IdleLoop
      <4>1. l \in LoopType
        <5>1. loop[d] \in LoopType /\ binding \in External
          BY DEF QueueInv, QueueTypeOK
        <5> QED BY IdleIsTyped, <5>1 DEF LoopType, Points, Errors
      <4>2. loop' = [loop EXCEPT ![d] = l]
        BY <3>2 DEF Leave, NextTurnOfLoop, QueueInv, QueueTypeOK, LoopType
      <4> HIDE DEF l
      <4> QED BY <4>1, <4>2
    <3> QED BY <3>1, <3>2 DEF After
  <2>2. loop' \in [Dispatcher -> LoopType]
    BY <2>1, LoopIsTyped DEF QueueInv
  <2> QED BY <2>2 DEF After, Leave, NextTurnOfLoop, durableVars, providerVars,
     boundVars, historyVars, QueueInv, QueueTypeOK
<1>2. LoopMoves(d)
  BY <1>1 DEF LoopMoves, After, Leave, IdleLoop, NextTurnOfLoop, durableVars,
     providerVars, boundVars, historyVars, QueueInv, QueueTypeOK
<1>3. /\ loop[d].pc = "after" /\ loop'[d].pc \in {"idle", "bind"}
      /\ UNCHANGED <<row, binding, rotatedFor, delivered>>
  <2>1. /\ loop[d].pc = "after"
        /\ UNCHANGED <<row, binding, rotatedFor, delivered>>
        /\ Leave(d) \/ NextTurnOfLoop(d)
    BY DEF After, At, durableVars, historyVars
  <2>2. Leave(d) => loop'[d].pc = "idle"
    BY DEF Leave, IdleLoop, QueueInv, QueueTypeOK
  <2>3. NextTurnOfLoop(d) => loop'[d].pc = "bind"
    BY DEF NextTurnOfLoop, IdleLoop, QueueInv, QueueTypeOK
  <2> QED BY <2>1, <2>2, <2>3
<1> QED BY <1>2, <1>3 DEF Looks, Claiming

(* SetPreflightPolicy goes on.                                              *)
LEMMA SetPreflightPolicyGoes ==
    ASSUME QueueInv, NEW d \in Dispatcher, SetPreflightPolicy(d)
    PROVE  Goes(d)
<1>1. QueueTypeOK'
  BY DEF SetPreflightPolicy, Goto, durableVars, boundVars, historyVars, QueueInv,
     QueueTypeOK, LoopType, Points, PolicyType, Head
<1>2. LoopMoves(d)
  BY <1>1 DEF LoopMoves, SetPreflightPolicy, Goto, durableVars, providerVars,
     boundVars, historyVars, QueueInv, QueueTypeOK
<1> QED BY <1>2 DEF Goes, Sent, Claiming, BeforeBegin, Dispatching,
   SetPreflightPolicy, Goto, At, Head, durableVars, historyVars

(* Resume goes on.                                                          *)
LEMMA ResumeGoes == ASSUME QueueInv, NEW d \in Dispatcher, Resume(d) PROVE Goes(d)
<1>1. QueueTypeOK'
  BY DEF Resume, Goto, Report, OnWriterConflict, Fault, NoFault,
     RuntimeFromProvider, Ext, durableVars, historyVars, QueueInv, QueueTypeOK,
     LoopType, Points, Runtimes
<1>2. LoopMoves(d)
  BY <1>1 DEF LoopMoves, Resume, Goto, Report, OnWriterConflict, Fault, NoFault,
     durableVars, historyVars, QueueInv, QueueTypeOK
<1> QED BY <1>2 DEF Goes, Sent, Claiming, BeforeBegin, Dispatching, Resume, Goto,
   Report, OnWriterConflict, At, Head, durableVars, historyVars, QueueInv,
   QueueTypeOK, LoopType

(* Recheck goes on.                                                         *)
LEMMA RecheckGoes == ASSUME QueueInv, NEW d \in Dispatcher, Recheck(d) PROVE Goes(d)
<1>1. QueueTypeOK'
  BY DEF Recheck, Goto, Report, durableVars, providerVars, boundVars, historyVars,
     QueueInv, QueueTypeOK, LoopType, Points, Errors
<1>2. LoopMoves(d)
  BY <1>1 DEF LoopMoves, Recheck, Goto, Report, durableVars, providerVars,
     boundVars, historyVars, QueueInv, QueueTypeOK
<1> QED BY <1>2 DEF Goes, Sent, Claiming, BeforeBegin, Dispatching, Recheck, Goto,
   Report, At, Head, durableVars, historyVars, QueueInv, QueueTypeOK, LoopType

(* Classify goes on.                                                        *)
LEMMA ClassifyGoes ==
    ASSUME QueueInv, NEW d \in Dispatcher, Classify(d)
    PROVE  Goes(d)
<1>1. QueueTypeOK'
  <2>1. loop' \in [Dispatcher -> LoopType]
    BY DEF Classify, Goto, Report, QueueInv, QueueTypeOK, LoopType, Points, Errors
  <2> QED BY <2>1 DEF Classify, Goto, Report, Fault, NoFault, durableVars,
     providerVars, boundVars, historyVars, QueueInv, QueueTypeOK
<1>2. LoopMoves(d)
  BY <1>1 DEF LoopMoves, Classify, Goto, Report, Fault, NoFault, durableVars,
     providerVars, boundVars, historyVars, QueueInv, QueueTypeOK
<1> QED BY <1>2 DEF Goes, Sent, Claiming, BeforeBegin, Dispatching, Classify, Goto,
   Report, At, Head, durableVars, historyVars, QueueInv, QueueTypeOK, LoopType

(* StaleRuntimeCheck goes on.                                               *)
LEMMA StaleRuntimeCheckGoes ==
    ASSUME QueueInv, NEW d \in Dispatcher, StaleRuntimeCheck(d)
    PROVE  Goes(d)
<1>1. QueueTypeOK'
  BY DEF StaleRuntimeCheck, Goto, Report, durableVars, providerVars, boundVars,
     historyVars, QueueInv, QueueTypeOK, LoopType, Points, Errors
<1>2. LoopMoves(d)
  BY <1>1 DEF LoopMoves, StaleRuntimeCheck, Goto, Report, durableVars,
     providerVars, boundVars, historyVars, QueueInv, QueueTypeOK
<1> QED BY <1>2 DEF Goes, Sent, Claiming, BeforeBegin, Dispatching,
   StaleRuntimeCheck, Goto, Report, At, Head, durableVars, historyVars, QueueInv,
   QueueTypeOK, LoopType

(* SetTurnPolicy goes on.                                                   *)
LEMMA SetTurnPolicyGoes ==
    ASSUME QueueInv, NEW d \in Dispatcher, SetTurnPolicy(d)
    PROVE  Goes(d)
<1>1. QueueTypeOK'
  BY DEF SetTurnPolicy, Goto, durableVars, boundVars, historyVars, QueueInv,
     QueueTypeOK, LoopType, Points, PolicyType, Head
<1>2. LoopMoves(d)
  BY <1>1 DEF LoopMoves, SetTurnPolicy, Goto, durableVars, providerVars, boundVars,
     historyVars, QueueInv, QueueTypeOK
<1> QED BY <1>2 DEF Goes, Sent, Claiming, BeforeBegin, Dispatching, SetTurnPolicy,
   Goto, At, Head, durableVars, historyVars

(* StartTurn goes on.                                                       *)
LEMMA StartTurnGoes ==
    ASSUME QueueInv, NEW d \in Dispatcher, StartTurn(d)
    PROVE  Goes(d)
<1>1. QueueTypeOK'
  BY DEF StartTurn, Goto, Report, OnWriterConflict, Fault, NoFault, durableVars,
     QueueInv, QueueTypeOK, LoopType, Points, Errors, Head, Ext
<1>2. LoopMoves(d)
  BY <1>1 DEF LoopMoves, StartTurn, Goto, Report, OnWriterConflict, Fault, NoFault,
     durableVars, QueueInv, QueueTypeOK
<1> QED BY <1>2 DEF Goes, Sent, Claiming, BeforeBegin, Dispatching, StartTurn,
   Goto, Report, OnWriterConflict, At, Head, durableVars, QueueInv, QueueTypeOK,
   LoopType

(* StartAnswered goes on.                                                   *)
LEMMA StartAnsweredGoes ==
    ASSUME QueueInv, NEW d \in Dispatcher, StartAnswered(d)
    PROVE  Goes(d)
<1>1. QueueTypeOK'
  BY DEF StartAnswered, Goto, Report, Fault, NoFault, RuntimeFromProvider,
     durableVars, historyVars, QueueInv, QueueTypeOK, LoopType, Points, Runtimes
<1>2. LoopMoves(d)
  BY <1>1 DEF LoopMoves, StartAnswered, Goto, Report, Fault, NoFault, durableVars,
     historyVars, QueueInv, QueueTypeOK
<1> QED BY <1>2 DEF Goes, Sent, Claiming, BeforeBegin, Dispatching, StartAnswered,
   Goto, Report, At, Head, durableVars, historyVars, QueueInv, QueueTypeOK,
   LoopType

(* RotateCheck goes on.                                                     *)
LEMMA RotateCheckGoes ==
    ASSUME QueueInv, NEW d \in Dispatcher, RotateCheck(d)
    PROVE  Goes(d)
<1>1. QueueTypeOK'
  BY DEF RotateCheck, Goto, Report, durableVars, providerVars, boundVars,
     historyVars, QueueInv, QueueTypeOK, LoopType, Points
<1>2. LoopMoves(d)
  BY <1>1 DEF LoopMoves, RotateCheck, Goto, Report, MayRotate, durableVars,
     providerVars, boundVars, historyVars, QueueInv, QueueTypeOK
<1> QED BY <1>2 DEF Goes, Sent, Claiming, BeforeBegin, Dispatching, RotateCheck,
   Goto, Report, MayRotate, At, Head, durableVars, historyVars, QueueInv,
   QueueTypeOK, LoopType

(* Rotate goes on. A fresh external thread is one of External, since each   *)
(* prompt rotates at most once.                                             *)
LEMMA RotateGoes == ASSUME QueueInv, NEW d \in Dispatcher, Rotate(d) PROVE Goes(d)
<1>1. Head(d) \in Prompt /\ Head(d) \notin rotatedFor
  BY DEF Rotate, At, QueueInv, LoopOK, Claiming
<1>2. Cardinality(rotatedFor) + 1 \in External
  <2>1. IsFiniteSet(rotatedFor)
    BY PromptAssumption, FS_Subset DEF QueueInv, QueueTypeOK
  <2>2. /\ IsFiniteSet(rotatedFor \cup {Head(d)})
        /\ Cardinality(rotatedFor \cup {Head(d)}) = Cardinality(rotatedFor) + 1
    BY <1>1, <2>1, FS_AddElement
  <2>3. Cardinality(rotatedFor \cup {Head(d)}) <= Cardinality(Prompt)
    <3>1. rotatedFor \cup {Head(d)} \subseteq Prompt
      BY <1>1 DEF QueueInv, QueueTypeOK
    <3> QED BY <3>1, PromptAssumption, FS_Subset
  <2>4. Cardinality(rotatedFor) \in Nat /\ Cardinality(Prompt) \in Nat
    BY <2>1, PromptAssumption, FS_CardinalityType
  <2> QED BY <2>2, <2>3, <2>4 DEF External
<1>3. QueueTypeOK'
  BY <1>1, <1>2 DEF Rotate, Goto, Report, Fault, NoFault, providerVars,
     historyVars, QueueInv, QueueTypeOK, LoopType, Points
<1>4. LoopMoves(d)
  BY <1>3 DEF LoopMoves, Rotate, Goto, Report, Fault, NoFault, durableVars,
     providerVars, boundVars, historyVars, QueueInv, QueueTypeOK
<1> QED BY <1>4 DEF Goes, Sent, Claiming, BeforeBegin, Dispatching, Rotate, Goto,
   Report, At, Head, historyVars, QueueInv, QueueTypeOK, LoopType

(* Claim takes the head, or finds it taken and leaves as it came.           *)
LEMMA ClaimLooksOrTakes ==
    ASSUME QueueInv, NEW d \in Dispatcher, Claim(d)
    PROVE  Looks(d) \/ Takes(d)
<1>1. CASE ~CanClaim(Head(d)) /\ Leave(d) /\ UNCHANGED row
  <2>1. loop' \in [Dispatcher -> LoopType]
    BY <1>1, IdleIsTyped, LoopIsTyped DEF Leave, QueueInv
  <2>2. QueueTypeOK'
    BY <1>1, <2>1 DEF Claim, durableVars, providerVars, boundVars, historyVars,
       QueueInv, QueueTypeOK
  <2>3. LoopMoves(d)
    <3>1. \A x \in Dispatcher \ {d} : loop'[x] = loop[x]
      BY <1>1 DEF Leave, QueueInv, QueueTypeOK
    <3>2. UNCHANGED <<createdAt, clock, setup, restarts, replayable, faults>>
      BY DEF Claim, boundVars, historyVars
    <3> QED BY <2>2, <3>1, <3>2 DEF LoopMoves, QueueTypeOK
  <2>4. loop[d].pc = "claim" /\ loop'[d] = IdleLoop
    BY <1>1 DEF Claim, At, Leave, QueueInv, QueueTypeOK
  <2> QED BY <1>1, <2>3, <2>4 DEF Looks, Claim, Claiming, IdleLoop, durableVars,
     providerVars, boundVars, historyVars
<1>2. CASE /\ CanClaim(Head(d)) /\ SetRow(Head(d), ClaimedRow)
           /\ \E routed \in setup.routing :
                 loop' = [loop EXCEPT ![d].pc = "preflight", ![d].routed = routed]
  <2>1. PICK routed \in setup.routing :
               loop' = [loop EXCEPT ![d].pc = "preflight", ![d].routed = routed]
    BY <1>2
  <2>2. routed \in BOOLEAN
    BY SetupAssumption DEF QueueInv, QueueTypeOK, SetupType
  <2> DEFINE l == [loop[d] EXCEPT !.pc = "preflight", !.routed = routed]
  <2>3. l \in LoopType
    BY <2>2, RoutedIsTyped DEF QueueInv, QueueTypeOK
  <2>4. loop' = [loop EXCEPT ![d] = l]
    BY <2>1 DEF QueueInv, QueueTypeOK, LoopType
  <2>5. l.pc = "preflight" /\ l.head = Head(d)
    BY DEF Head, QueueInv, QueueTypeOK, LoopType
  <2> HIDE DEF l
  <2>6. loop' \in [Dispatcher -> LoopType]
    BY <2>3, <2>4, LoopIsTyped DEF QueueInv
  <2>7. row' \in [Prompt -> RowType]
    BY <1>2 DEF SetRow, ClaimedRow, RowType, Statuses, Phases, Errors, QueueInv,
       QueueTypeOK
  <2>8. QueueTypeOK'
    BY <2>6, <2>7 DEF Claim, durableVars, providerVars, boundVars, historyVars,
       QueueInv, QueueTypeOK
  <2>9. LoopMoves(d)
    <3>1. \A x \in Dispatcher \ {d} : loop'[x] = loop[x]
      BY <2>4 DEF QueueInv, QueueTypeOK
    <3>2. UNCHANGED <<createdAt, clock, setup, restarts, replayable, faults>>
      BY DEF Claim, boundVars, historyVars
    <3> QED BY <2>8, <3>1, <3>2 DEF LoopMoves, QueueTypeOK
  <2> QED BY <1>2, <2>4, <2>5, <2>9 DEF Takes, Claim, At, durableVars,
     providerVars, boundVars, historyVars, QueueInv, QueueTypeOK
<1> QED BY <1>1, <1>2 DEF Claim

(* StaleHeadCheck goes on; when the queue is empty, the row was removed.    *)
LEMMA StaleHeadCheckGoesOrLeaves ==
    ASSUME QueueInv, NEW d \in Dispatcher, StaleHeadCheck(d)
    PROVE  Goes(d) \/ Leaves(d)
<1>1. CASE QueueIsEmpty
  <2>1. Leave(d) /\ loop[d].pc = "staleHead"
    BY <1>1 DEF StaleHeadCheck, At
  <2>2. row[Head(d)].status = "gone"
    BY <1>1, <2>1, StandingFacts DEF QueueIsEmpty, InQueue, Claiming
  <2>3. loop' \in [Dispatcher -> LoopType] /\ loop'[d] = IdleLoop
        /\ \A x \in Dispatcher \ {d} : loop'[x] = loop[x]
    BY <2>1, IdleIsTyped, LoopIsTyped DEF Leave, QueueInv, QueueTypeOK
  <2>4. LoopMoves(d)
    BY <2>3 DEF LoopMoves, StaleHeadCheck, durableVars, providerVars, boundVars,
       historyVars, QueueInv, QueueTypeOK
  <2> QED BY <2>1, <2>2, <2>3, <2>4 DEF Leaves, StaleHeadCheck, Claiming, IdleLoop,
     durableVars, providerVars, boundVars, historyVars
<1>2. CASE ~QueueIsEmpty
  <2>1. QueueTypeOK'
    BY <1>2 DEF StaleHeadCheck, Goto, Report, durableVars, providerVars, boundVars,
       historyVars, QueueInv, QueueTypeOK, LoopType, Points, Errors
  <2>2. LoopMoves(d)
    BY <1>2, <2>1 DEF LoopMoves, StaleHeadCheck, Goto, Report, durableVars,
       providerVars, boundVars, historyVars, QueueInv, QueueTypeOK
  <2> QED BY <1>2, <2>2 DEF Goes, Sent, Claiming, BeforeBegin, Dispatching,
     StaleHeadCheck, Goto, Report, At, Head, durableVars, historyVars, QueueInv,
     QueueTypeOK, LoopType
<1> QED BY <1>1, <1>2

(* Begin begins, or goes on to record its own error; when it may not begin, *)
(* the row was removed.                                                     *)
LEMMA BeginBeginsGoesOrLeaves ==
    ASSUME QueueInv, NEW d \in Dispatcher, Begin(d)
    PROVE  Begins(d) \/ Goes(d) \/ Leaves(d)
<1>1. loop[d].pc = "begin" /\ Head(d) \in Prompt /\ ~row[Head(d)].dispatched
  BY DEF Begin, At, QueueInv, LoopOK, Claiming, BeforeBegin
<1>2. /\ UNCHANGED <<createdAt, binding, rotatedFor, runtime, turn, policy, clock, setup,
                     restarts, delivered, replayable>>
      /\ faults' \in Nat /\ faults' >= faults
  BY DEF Begin, Fault, NoFault, providerVars, historyVars, QueueInv, QueueTypeOK
<1>3. CASE /\ CanBegin(Head(d)) /\ SetRow(Head(d), [row[Head(d)] EXCEPT !.dispatched = TRUE])
           /\ Goto(d, IF loop[d].routed THEN "accept" ELSE "install")
  <2>1. loop' \in [Dispatcher -> LoopType] /\ loop'[d].pc \in {"accept", "install"}
        /\ loop'[d].head = Head(d) /\ \A x \in Dispatcher \ {d} : loop'[x] = loop[x]
    BY <1>3 DEF Goto, Head, QueueInv, QueueTypeOK, LoopType, Points, Errors
  <2>2. row' \in [Prompt -> RowType]
    BY <1>1, <1>3 DEF SetRow, RowType, QueueInv, QueueTypeOK
  <2>3. LoopMoves(d)
    BY <1>2, <2>1, <2>2 DEF LoopMoves, QueueInv, QueueTypeOK
  <2> QED BY <1>1, <1>2, <1>3, <2>1, <2>3 DEF Begins
<1>4. CASE ~CanBegin(Head(d)) /\ Leave(d) /\ UNCHANGED row
  <2>1. row[Head(d)].status = "gone"
    BY <1>1, <1>4, StandingFacts DEF CanBegin, Claiming
  <2>2. loop' \in [Dispatcher -> LoopType] /\ loop'[d] = IdleLoop
        /\ \A x \in Dispatcher \ {d} : loop'[x] = loop[x]
    BY <1>4, IdleIsTyped, LoopIsTyped DEF Leave, QueueInv, QueueTypeOK
  <2>3. LoopMoves(d)
    BY <1>2, <1>4, <2>2 DEF LoopMoves, QueueInv, QueueTypeOK
  <2> QED BY <1>1, <1>2, <1>4, <2>1, <2>2, <2>3 DEF Leaves, Claiming, IdleLoop
<1>5. CASE Report(d, "final") /\ UNCHANGED row
  <2>1. loop \in [Dispatcher -> LoopType] /\ loop[d] \in LoopType /\ Head(d) = loop[d].head
    BY DEF Head, QueueInv, QueueTypeOK
  <2>2. loop' = [loop EXCEPT ![d] = [loop[d] EXCEPT !.pc = "record", !.error = "final"]]
    BY <1>5, <2>1 DEF Report
  <2>3. [loop[d] EXCEPT !.pc = "record", !.error = "final"] \in LoopType
    BY <2>1 DEF LoopType, Points, Errors
  <2>4. loop' \in [Dispatcher -> LoopType] /\ \A x \in Dispatcher \ {d} : loop'[x] = loop[x]
    BY <2>1, <2>2, <2>3
  <2>5. loop'[d].pc = "record" /\ loop'[d].head = Head(d)
    BY <2>1, <2>2 DEF LoopType
  <2>6. LoopMoves(d)
    BY <1>2, <1>5, <2>4, <2>5 DEF LoopMoves, QueueInv, QueueTypeOK
  <2> QED
    BY <1>1, <1>2, <1>5, <2>4, <2>5, <2>6
    DEF Goes, Claiming, BeforeBegin, Dispatching, Sent
<1> QED BY <1>3, <1>4, <1>5 DEF Begin

(* A loop leaves its claim standing only when the database refused to write *)
(* it back.                                                                 *)
LEMMA RefusedLeaves ==
    ASSUME QueueInv, NEW d \in Dispatcher, loop[d].pc \in Claiming,
           row[Head(d)].status \in {"sending", "gone"}, Fault("storage"), UNCHANGED row,
           loop' \in [Dispatcher -> LoopType], loop'[d] = IdleLoop,
           \A x \in Dispatcher \ {d} : loop'[x] = loop[x],
           UNCHANGED <<createdAt, binding, rotatedFor, runtime, turn, policy, clock,
                       restarts, delivered, replayable>>
    PROVE  Leaves(d)
<1>1. "storage" \in setup.kinds /\ faults' > 0 /\ faults' >= faults /\ faults' \in Nat /\ UNCHANGED setup
  BY DEF Fault, QueueInv, QueueTypeOK
<1>2. LoopMoves(d)
  BY <1>1 DEF LoopMoves, QueueInv, QueueTypeOK
<1> QED BY <1>1, <1>2 DEF Leaves, Claiming, IdleLoop

(* FailClassify leaves, and the row has failed, unless it was removed or    *)
(* the database refused the write.                                          *)
LEMMA FailClassifyLeaves ==
    ASSUME QueueInv, NEW d \in Dispatcher, FailClassify(d) PROVE Leaves(d)
<1>1. /\ loop[d].pc = "failClassify" /\ Head(d) \in Prompt
      /\ row[Head(d)].status \in {"sending", "gone"}
  BY StandingFacts DEF FailClassify, At, Claiming
<1>2. loop' \in [Dispatcher -> LoopType] /\ loop'[d] = IdleLoop
      /\ \A x \in Dispatcher \ {d} : loop'[x] = loop[x]
  BY IdleIsTyped, LoopIsTyped DEF FailClassify, Leave, QueueInv, QueueTypeOK
<1>3. /\ UNCHANGED <<createdAt, binding, rotatedFor, runtime, turn, policy, clock, setup,
                     restarts, delivered, replayable>>
      /\ faults' \in Nat /\ faults' >= faults
  BY DEF FailClassify, Fault, NoFault, providerVars, historyVars, QueueInv, QueueTypeOK
<1>4. CASE Fault("storage") /\ UNCHANGED row
  BY <1>1, <1>2, <1>3, <1>4, RefusedLeaves DEF Claiming
<1>5. ASSUME NEW error \in {"retryable", "final"},
             SetRow(Head(d), FailedRow(Head(d), "jev-classifier", error))
      PROVE  Leaves(d)
  <2>1. /\ FailedRow(Head(d), "jev-classifier", error) \in RowType
        /\ row[Head(d)].status = "sending" => FailedRow(Head(d), "jev-classifier", error).status = "failed"
        /\ row[Head(d)].status = "gone" => FailedRow(Head(d), "jev-classifier", error) = row[Head(d)]
    BY <1>1 DEF FailedRow, InQueue, RowType, Statuses, Phases, Errors, QueueInv,
       QueueTypeOK
  <2>2. row' \in [Prompt -> RowType] /\ (row[Head(d)].status = "gone" => UNCHANGED row)
    BY <1>1, <1>5, <2>1 DEF SetRow, QueueInv, QueueTypeOK
  <2>3. LoopMoves(d)
    BY <1>2, <1>3, <2>2 DEF LoopMoves, QueueInv, QueueTypeOK
  <2> QED BY <1>1, <1>2, <1>3, <1>5, <2>1, <2>2, <2>3 DEF Leaves, Claiming, IdleLoop, Sent
<1> QED BY <1>4, <1>5 DEF FailClassify

(* Accept goes on, or leaves the claim to a failing database.               *)
LEMMA AcceptGoesOrLeaves ==
    ASSUME QueueInv, NEW d \in Dispatcher, Accept(d)
    PROVE  Goes(d) \/ Leaves(d)
<1>1. /\ loop[d].pc = "accept" /\ Head(d) \in Prompt
      /\ row[Head(d)].status = "sending" /\ row[Head(d)].dispatched
  BY StandingFacts DEF Accept, At, Claiming, Dispatching, QueueInv, LoopOK
<1>2. UNCHANGED <<row, createdAt, binding, rotatedFor, runtime, turn, policy, clock, setup,
                  restarts, delivered, replayable>>
  BY DEF Accept, Fault, NoFault, durableVars, providerVars, historyVars
<1>3. CASE NoFault /\ Goto(d, "install")
  <2>1. loop' \in [Dispatcher -> LoopType] /\ loop'[d].pc = "install" /\ loop'[d].head = Head(d)
        /\ \A x \in Dispatcher \ {d} : loop'[x] = loop[x]
    BY <1>3 DEF Goto, Head, QueueInv, QueueTypeOK, LoopType, Points, Errors
  <2>2. LoopMoves(d)
    BY <1>2, <1>3, <2>1 DEF LoopMoves, NoFault, QueueInv, QueueTypeOK
  <2> QED BY <1>1, <1>2, <2>1, <2>2 DEF Goes, Claiming, BeforeBegin, Dispatching,
     Sent
<1>4. CASE Fault("storage") /\ Leave(d)
  <2>1. loop' \in [Dispatcher -> LoopType] /\ loop'[d] = IdleLoop
        /\ \A x \in Dispatcher \ {d} : loop'[x] = loop[x]
    BY <1>4, IdleIsTyped, LoopIsTyped DEF Leave, QueueInv, QueueTypeOK
  <2>2. LoopMoves(d)
    BY <1>2, <1>4, <2>1 DEF LoopMoves, Fault, QueueInv, QueueTypeOK
  <2>3. "storage" \in setup.kinds /\ faults' > 0
    BY <1>4 DEF Fault, QueueInv, QueueTypeOK
  <2> QED BY <1>1, <1>2, <2>1, <2>2, <2>3 DEF Leaves, Claiming, IdleLoop
<1> QED BY <1>3, <1>4 DEF Accept

(* Complete leaves: the row is deleted, or kept by a failing database.      *)
LEMMA CompleteLeaves ==
    ASSUME QueueInv, NEW d \in Dispatcher, Complete(d)
    PROVE  Leaves(d)
<1>1. /\ loop[d].pc = "complete" /\ Head(d) \in Prompt
      /\ row[Head(d)].status = "sending" /\ row[Head(d)].dispatched
  BY StandingFacts DEF Complete, At, Claiming, Dispatching, QueueInv, LoopOK
<1>2. UNCHANGED <<createdAt, binding, rotatedFor, runtime, turn, policy, clock, setup,
                  restarts, delivered, replayable>>
  BY DEF Complete, Fault, NoFault, providerVars, historyVars
<1>3. CASE NoFault /\ SetRow(Head(d), CompletedRow(Head(d))) /\ Goto(d, "after")
  <2>1. loop' \in [Dispatcher -> LoopType] /\ loop'[d].pc = "after"
        /\ \A x \in Dispatcher \ {d} : loop'[x] = loop[x]
    BY <1>3 DEF Goto, QueueInv, QueueTypeOK, LoopType, Points, Errors
  <2>2. CompletedRow(Head(d)) \in RowType /\ CompletedRow(Head(d)).status = "gone"
    BY <1>1 DEF CompletedRow, RowType, Statuses, QueueInv, QueueTypeOK
  <2>3. row' \in [Prompt -> RowType]
    BY <1>3, <2>2 DEF SetRow, QueueInv, QueueTypeOK
  <2>4. LoopMoves(d)
    BY <1>2, <1>3, <2>1, <2>3 DEF LoopMoves, NoFault, QueueInv, QueueTypeOK
  <2> QED BY <1>1, <1>2, <1>3, <2>1, <2>2, <2>4 DEF Leaves, Claiming
<1>4. CASE Fault("storage") /\ Leave(d) /\ UNCHANGED row
  <2>1. loop' \in [Dispatcher -> LoopType] /\ loop'[d] = IdleLoop
        /\ \A x \in Dispatcher \ {d} : loop'[x] = loop[x]
    BY <1>4, IdleIsTyped, LoopIsTyped DEF Leave, QueueInv, QueueTypeOK
  <2>2. LoopMoves(d)
    BY <1>2, <1>4, <2>1 DEF LoopMoves, Fault, QueueInv, QueueTypeOK
  <2>3. "storage" \in setup.kinds /\ faults' > 0
    BY <1>4 DEF Fault, QueueInv, QueueTypeOK
  <2> QED BY <1>1, <1>2, <1>4, <2>1, <2>2, <2>3 DEF Leaves, Claiming, IdleLoop
<1> QED BY <1>3, <1>4 DEF Complete

(* Defer leaves: the row waits again, unless it was removed or the database *)
(* refused the write.                                                       *)
LEMMA DeferLeaves == ASSUME QueueInv, NEW d \in Dispatcher, Defer(d) PROVE Leaves(d)
<1>1. /\ loop[d].pc = "defer" /\ Head(d) \in Prompt
      /\ row[Head(d)].status \in {"sending", "gone"}
  BY StandingFacts DEF Defer, At, Claiming
<1>2. /\ UNCHANGED <<createdAt, binding, rotatedFor, runtime, turn, policy, clock, setup,
                     restarts, delivered, replayable>>
      /\ faults' \in Nat /\ faults' >= faults
  BY DEF Defer, Fault, NoFault, providerVars, historyVars, QueueInv, QueueTypeOK
<1>3. CASE /\ CanDefer(Head(d)) /\ SetRow(Head(d), DeferredRow(Head(d)))
           /\ loop' = [loop EXCEPT ![d] = [IdleLoop EXCEPT !.pc = "bind", !.rotated = TRUE]]
  <2>1. [IdleLoop EXCEPT !.pc = "bind", !.rotated = TRUE] \in LoopType
    BY IdleIsTyped
  <2>2. loop' \in [Dispatcher -> LoopType]
    BY <1>3, <2>1, LoopIsTyped DEF QueueInv
  <2>3. loop'[d].pc = "bind" /\ \A x \in Dispatcher \ {d} : loop'[x] = loop[x]
    BY <1>3 DEF IdleLoop, QueueInv, QueueTypeOK
  <2>4. row[Head(d)].status = "sending"
    BY <1>1, <1>3 DEF CanDefer
  <2>5. DeferredRow(Head(d)) \in RowType /\ DeferredRow(Head(d)).status = "queued"
    BY <1>1 DEF DeferredRow, RowType, Statuses, Errors, QueueInv, QueueTypeOK
  <2>6. row' \in [Prompt -> RowType]
    BY <1>3, <2>5 DEF SetRow, QueueInv, QueueTypeOK
  <2>7. LoopMoves(d)
    BY <1>2, <2>2, <2>3, <2>6 DEF LoopMoves, QueueInv, QueueTypeOK
  <2> QED BY <1>1, <1>2, <1>3, <2>3, <2>4, <2>5, <2>7 DEF Leaves, Claiming, Sent
<1>4. CASE ~CanDefer(Head(d)) /\ Leave(d) /\ UNCHANGED row
  <2>1. loop' \in [Dispatcher -> LoopType] /\ loop'[d] = IdleLoop
        /\ \A x \in Dispatcher \ {d} : loop'[x] = loop[x]
    BY <1>4, IdleIsTyped, LoopIsTyped DEF Leave, QueueInv, QueueTypeOK
  <2>2. LoopMoves(d)
    BY <1>2, <1>4, <2>1 DEF LoopMoves, QueueInv, QueueTypeOK
  <2>3. row[Head(d)].status = "gone"
    BY <1>1, <1>4 DEF CanDefer
  <2> QED BY <1>1, <1>2, <1>4, <2>1, <2>2, <2>3 DEF Leaves, Claiming, IdleLoop
<1>5. CASE Fault("storage") /\ Leave(d) /\ UNCHANGED row
  <2>1. loop' \in [Dispatcher -> LoopType] /\ loop'[d] = IdleLoop
        /\ \A x \in Dispatcher \ {d} : loop'[x] = loop[x]
    BY <1>5, IdleIsTyped, LoopIsTyped DEF Leave, QueueInv, QueueTypeOK
  <2> QED BY <1>1, <1>2, <1>5, <2>1, RefusedLeaves DEF Claiming
<1> QED BY <1>3, <1>4, <1>5 DEF Defer

(* RecordError leaves: the row waits again, or has failed for good when the *)
(* prompt was sent, unless the database refused the write.                  *)
LEMMA RecordErrorLeaves ==
    ASSUME QueueInv, NEW d \in Dispatcher, RecordError(d)
    PROVE  Leaves(d)
<1> DEFINE r == RecordedRow(Head(d), loop[d].error)
<1>1. /\ loop[d].pc = "record" /\ Head(d) \in Prompt
      /\ row[Head(d)].status \in {"sending", "gone"}
  BY StandingFacts DEF RecordError, At, Claiming
<1>2. /\ UNCHANGED <<createdAt, binding, rotatedFor, runtime, turn, policy, clock, setup,
                     restarts, delivered, replayable>>
      /\ faults' \in Nat /\ faults' >= faults
  BY DEF RecordError, Fault, NoFault, providerVars, historyVars, QueueInv, QueueTypeOK
<1>3. loop' \in [Dispatcher -> LoopType] /\ loop'[d] = IdleLoop
      /\ \A x \in Dispatcher \ {d} : loop'[x] = loop[x]
  BY IdleIsTyped, LoopIsTyped DEF RecordError, Leave, QueueInv, QueueTypeOK
<1>4. /\ r \in RowType
      /\ row[Head(d)].status = "gone" => r = row[Head(d)]
      /\ row[Head(d)].status = "sending" =>
            /\ r.status \in {"queued", "failed"}
            /\ loop[d].error = "final" => r.status = "failed" /\ r.error = "final"
  <2>1. CASE loop[d].error = "final"
    BY <1>1, <2>1 DEF RecordedRow, FailedRow, InQueue, RowType, Statuses, Phases,
       Errors, QueueInv, QueueTypeOK
  <2>2. CASE loop[d].error # "final"
    BY <1>1, <2>2 DEF RecordedRow, CanDefer, DeferredRow, RowType, Statuses,
       Errors, QueueInv, QueueTypeOK
  <2> QED BY <2>1, <2>2
<1>5. SetRow(Head(d), r) \/ (Fault("storage") /\ UNCHANGED row)
  BY DEF RecordError
<1> HIDE DEF r
<1>6. CASE SetRow(Head(d), r)
  <2>1. row' \in [Prompt -> RowType] /\ (row[Head(d)].status = "gone" => UNCHANGED row)
    BY <1>1, <1>4, <1>6 DEF SetRow, QueueInv, QueueTypeOK
  <2>2. LoopMoves(d)
    BY <1>2, <1>3, <2>1 DEF LoopMoves, QueueInv, QueueTypeOK
  <2> QED BY <1>1, <1>2, <1>3, <1>4, <1>6, <2>1, <2>2 DEF Leaves, Claiming, IdleLoop, Sent
<1>7. CASE Fault("storage") /\ UNCHANGED row
  BY <1>1, <1>2, <1>3, <1>7, RefusedLeaves DEF Claiming
<1> QED BY <1>5, <1>6, <1>7

(* Whatever a loop does is one of the five.                                 *)
LEMMA LoopStepKinds ==
    ASSUME QueueInv, NEW d \in Dispatcher, DispatchSpawned(d) \/ LoopStep(d)
    PROVE  LoopKind(d)
<1> USE DEF LoopKind
<1>1. CASE DispatchSpawned(d) \/ ReadBinding(d) \/ ReadRuntime(d) \/ ReconcileAsks(d) \/ ReconcileStores(d)
  BY <1>1, DispatchSpawnedLooks, ReadBindingLooks, ReadRuntimeLooks,
     ReconcileAsksLooks, ReconcileStoresLooks
<1>2. CASE ListQueue(d) \/ After(d) \/ Claim(d)
  BY <1>2, ListQueueLooks, AfterLooks, ClaimLooksOrTakes
<1>3. CASE TakePolicy(d) \/ Resume(d) \/ Recheck(d) \/ Classify(d) \/ StaleRuntimeCheck(d)
  BY <1>3, SetPreflightPolicyGoes, SetTurnPolicyGoes, ResumeGoes, RecheckGoes,
     ClassifyGoes, StaleRuntimeCheckGoes
     DEF TakePolicy
<1>4. CASE StartTurn(d) \/ StartAnswered(d) \/ RotateCheck(d) \/ Rotate(d)
  BY <1>4, StartTurnGoes, StartAnsweredGoes, RotateCheckGoes, RotateGoes
<1>5. CASE Begin(d) \/ StaleHeadCheck(d) \/ Accept(d)
  BY <1>5, BeginBeginsGoesOrLeaves, StaleHeadCheckGoesOrLeaves, AcceptGoesOrLeaves
<1>6. CASE FailClassify(d) \/ Complete(d) \/ Defer(d) \/ RecordError(d)
  BY <1>6, FailClassifyLeaves, CompleteLeaves, DeferLeaves, RecordErrorLeaves
<1> QED BY <1>1, <1>2, <1>3, <1>4, <1>5, <1>6 DEF LoopStep, CallStep

(* No step of a loop touches another loop.                                  *)
LEMMA LoopStepMoves ==
    ASSUME QueueInv, NEW d \in Dispatcher, DispatchSpawned(d) \/ LoopStep(d)
    PROVE  LoopMoves(d)
BY LoopStepKinds DEF LoopKind, Looks, Takes, Goes, Begins, Leaves

(* Every step of a loop keeps the invariant of the queue.                   *)
LEMMA LoopStepKeeps ==
    ASSUME QueueInv, NEW d \in Dispatcher, DispatchSpawned(d) \/ LoopStep(d)
    PROVE  QueueInv'
BY LoopStepKinds, LooksKeeps, TakesKeeps, GoesKeeps, BeginsKeeps, LeavesKeeps
   DEF LoopKind

-----------------------------------------------------------------------------
(* The steps of the others, and the invariant of the queue *)

(* A step that leaves the rows and the loops alone.                         *)
LEMMA QuietKeeps ==
    ASSUME QueueInv, QueueTypeOK', faults' >= faults,
           UNCHANGED <<row, createdAt, binding, rotatedFor, loop, clock, setup, delivered, replayable>>
    PROVE  QueueInv'
<1>1. \A d \in Dispatcher, p \in Prompt : Claims(d, p) <=> Claims(d, p)'
  BY DEF Claims, Head
<1>2. SoleClaimant' /\ ClaimIsStanding' /\ BindingIsFresh'
  BY <1>1 DEF QueueInv, SoleClaimant, ClaimIsStanding, BindingIsFresh, Head
<1>3. OrphansComeFromStorage'
  BY <1>1 DEF QueueInv, OrphansComeFromStorage, WriteRefused, Orphan, QueueTypeOK
<1>4. \A p \in Prompt : Eldest(p) <=> Eldest(p)'
  BY DEF Eldest, InQueue
<1>5. \A d \in Dispatcher : LoopOK(d)'
  BY <1>4 DEF QueueInv, LoopOK, Head, InQueue, Claiming
<1>6. \A p \in Prompt : Spent(p) => Spent(p)'
  BY <1>1 DEF Spent
<1>7. \A p \in Prompt : PromptOK(p)'
  BY <1>4, <1>6 DEF QueueInv, PromptOK
<1> QED BY <1>2, <1>3, <1>5, <1>7 DEF QueueInv

(* A step of the user or the supervisor on the rows: it may remove a        *)
(* claimed row that is not past the boundary, and it never makes a row      *)
(* claimed, brings a removed one back, or makes an earlier prompt appear.   *)
LEMMA RowsKeep ==
    ASSUME QueueInv, QueueTypeOK',
           UNCHANGED <<loop, binding, rotatedFor, setup, faults, delivered>>,
           \A q \in Prompt :
              /\ createdAt'[q] <= clock'
              /\ row'[q].status = "sending" => row'[q] = row[q]
              /\ row[q].status # "absent" =>
                    row'[q].status # "absent" /\ (InQueue(q)' => InQueue(q)) /\ (Eldest(q) => Eldest(q)')
              /\ \/ row'[q] = row[q]
                 \/ row[q].status \notin {"sending", "gone"}
                 \/ /\ row[q].status = "sending" /\ ~row[q].dispatched
                    /\ row'[q].status = "gone" /\ ~row'[q].dispatched
              /\ q \notin replayable' => q \notin replayable /\ (Spent(q) => Spent(q)')
    PROVE  QueueInv'
<1>1. \A d \in Dispatcher, p \in Prompt : Claims(d, p) <=> Claims(d, p)'
  BY DEF Claims, Head
<1>2. ASSUME NEW d \in Dispatcher, loop[d].pc \in Claiming
      PROVE  /\ Head(d) \in Prompt
             /\ \/ row'[Head(d)] = row[Head(d)]
                \/ /\ loop[d].pc \notin Dispatching
                   /\ row'[Head(d)].status = "gone" /\ ~row'[Head(d)].dispatched
  BY <1>2, StandingFacts DEF QueueInv, LoopOK
<1>3. SoleClaimant' /\ BindingIsFresh'
  BY <1>1 DEF QueueInv, SoleClaimant, BindingIsFresh
<1>4. ClaimIsStanding'
  BY <1>2 DEF QueueInv, ClaimIsStanding, Head
<1>5. OrphansComeFromStorage'
  BY <1>1 DEF QueueInv, OrphansComeFromStorage, WriteRefused, Orphan, QueueTypeOK
<1>6. ASSUME NEW d \in Dispatcher PROVE LoopOK(d)'
  <2>1. loop[d].pc \in Claiming \cup {"claim"} => Head(d) \in Prompt
    BY DEF QueueInv, LoopOK
  <2>2. loop[d].pc \in BeforeBegin => ~row'[Head(d)].dispatched
    BY <1>2 DEF QueueInv, LoopOK, BeforeBegin, Claiming
  <2>3. loop[d].pc \in Dispatching => row'[Head(d)].dispatched
    BY <1>2 DEF QueueInv, LoopOK, Dispatching, Claiming
  <2>4. loop[d].pc = "claim" =>
          row'[Head(d)].status # "absent" /\ (InQueue(Head(d))' => Eldest(Head(d))')
    <3> SUFFICES ASSUME loop[d].pc = "claim"
                 PROVE  row'[Head(d)].status # "absent" /\ (InQueue(Head(d))' => Eldest(Head(d))')
      OBVIOUS
    <3>1. PICK h \in Prompt : h = Head(d) /\ h = Head(d)'
      BY <2>1 DEF Head
    <3>2. row[h].status # "absent" /\ (InQueue(h) => Eldest(h))
      BY <3>1 DEF QueueInv, LoopOK
    <3> QED BY <3>1, <3>2
  <2> QED BY <2>1, <2>2, <2>3, <2>4 DEF QueueInv, LoopOK, Head
<1>7. ASSUME NEW q \in Prompt PROVE PromptOK(q)'
  <2>1. row'[q].status = "sending" => Eldest(q)'
    BY DEF QueueInv, PromptOK
  <2> QED BY <2>1 DEF QueueInv, PromptOK
<1> QED BY <1>3, <1>4, <1>5, <1>6, <1>7 DEF QueueInv

(* A prompt is inserted, in this second or a later one.                     *)
LEMMA EnqueueKeeps == ASSUME QueueInv, NEW p \in Prompt, Enqueue(p) PROVE QueueInv'
<1>1. /\ row[p].status = "absent" /\ row'[p].status = "queued"
      /\ clock' \in Nat /\ clock' >= clock /\ createdAt'[p] = clock'
      /\ \A q \in Prompt \ {p} : row'[q] = row[q] /\ createdAt'[q] = createdAt[q]
      /\ UNCHANGED <<loop, binding, rotatedFor, runtime, turn, policy, setup, faults, restarts, delivered, replayable>>
  BY DEF Enqueue, SetRow, AbsentRow, providerVars, historyVars, QueueInv,
     QueueTypeOK
<1>2. QueueTypeOK'
  BY <1>1 DEF Enqueue, SetRow, AbsentRow, RowType, Statuses, Phases, Errors,
     QueueInv, QueueTypeOK
<1>3. \A q \in Prompt : createdAt[q] <= clock /\ createdAt[q] \in Nat
  BY DEF QueueInv, PromptOK, QueueTypeOK
<1>4. \A q \in Prompt \ {p} : Eldest(q) => Eldest(q)'
  BY <1>1, <1>3 DEF Eldest, InQueue, QueueInv, QueueTypeOK
<1>5. \A q \in Prompt \ {p} : Spent(q) => Spent(q)'
  BY <1>1 DEF Spent, Claims, Head
<1>6. ~Spent(p)
  BY <1>1 DEF Spent
<1> QED BY <1>1, <1>2, <1>3, <1>4, <1>5, <1>6, RowsKeep
   DEF InQueue, QueueInv, QueueTypeOK

(* The user retries a failed head: from now on it may be sent again.        *)
LEMMA RetryKeeps == ASSUME QueueInv, NEW p \in Prompt, Retry(p) PROVE QueueInv'
<1>1. /\ row[p].status = "failed" /\ row'[p].status = "queued" /\ replayable' = replayable \cup {p}
      /\ \A q \in Prompt \ {p} : row'[q] = row[q]
      /\ UNCHANGED <<createdAt, loop, binding, rotatedFor, runtime, turn, policy, clock, setup,
                     faults, restarts, delivered>>
  BY DEF Retry, SetRow, AbsentRow, providerVars, boundVars, QueueInv, QueueTypeOK
<1>2. QueueTypeOK'
  BY <1>1 DEF Retry, SetRow, AbsentRow, RowType, Statuses, Phases, Errors,
     QueueInv, QueueTypeOK
<1>3. \A q \in Prompt : InQueue(q)' <=> InQueue(q)
  BY <1>1 DEF InQueue
<1>4. \A q \in Prompt : Eldest(q) => Eldest(q)'
  BY <1>1, <1>3 DEF Eldest
<1>5. \A q \in Prompt \ {p} : Spent(q) => Spent(q)'
  BY <1>1 DEF Spent, Claims, Head
<1>6. \A q \in Prompt : createdAt[q] <= clock
  BY DEF QueueInv, PromptOK
<1> QED BY <1>1, <1>2, <1>3, <1>4, <1>5, <1>6, RowsKeep

(* The user removes a prompt; one that is claimed only before its boundary. *)
LEMMA RemoveKeeps == ASSUME QueueInv, NEW p \in Prompt, Remove(p) PROVE QueueInv'
<1>1. /\ InQueue(p) /\ (row[p].status = "sending" => ~row[p].dispatched)
      /\ row'[p].status = "gone" /\ row'[p].dispatched = row[p].dispatched
      /\ \A q \in Prompt \ {p} : row'[q] = row[q]
      /\ UNCHANGED <<createdAt, loop, binding, rotatedFor, runtime, turn, policy, clock, setup,
                     faults, restarts, delivered, replayable>>
  BY DEF Remove, CanRemove, SetRow, providerVars, boundVars, historyVars, QueueInv,
     QueueTypeOK, RowType
<1>2. QueueTypeOK'
  BY <1>1 DEF Remove, SetRow, RowType, Statuses, QueueInv, QueueTypeOK
<1>3. \A q \in Prompt : InQueue(q)' => InQueue(q)
  BY <1>1 DEF InQueue
<1>4. \A q \in Prompt : Eldest(q) => Eldest(q)'
  BY <1>1, <1>3 DEF Eldest
<1>5. \A q \in Prompt : Spent(q) => Spent(q)'
  BY <1>1 DEF Spent, Claims, Head
<1>6. \A q \in Prompt : createdAt[q] <= clock
  BY DEF QueueInv, PromptOK
<1> QED BY <1>1, <1>2, <1>3, <1>4, <1>5, <1>6, RowsKeep DEF InQueue

(* The supervisor queues failed deliveries again, never one that was sent:  *)
(* those failed for good.                                                   *)
LEMMA RecoverFailuresKeeps == ASSUME QueueInv, RecoverFailures PROVE QueueInv'
<1>1. /\ \A q \in Prompt : \/ row'[q] = row[q]
                           \/ /\ row[q].status = "failed" /\ row[q].error = "retryable"
                              /\ row'[q].status = "queued"
      /\ UNCHANGED <<createdAt, loop, binding, rotatedFor, runtime, turn, policy, clock, setup,
                     faults, restarts, delivered, replayable>>
  BY DEF RecoverFailures, Recoverable, providerVars, boundVars, historyVars,
     QueueInv, QueueTypeOK, RowType
<1>2. QueueTypeOK'
  BY <1>1 DEF RecoverFailures, RowType, Statuses, QueueInv, QueueTypeOK
<1>3. \A q \in Prompt : InQueue(q)' <=> InQueue(q)
  BY <1>1 DEF InQueue
<1>4. \A q \in Prompt : Eldest(q) => Eldest(q)'
  BY <1>1, <1>3 DEF Eldest
<1>5. \A q \in Prompt : Spent(q) => Spent(q)'
  BY <1>1 DEF Spent, Claims, Head
<1>6. \A q \in Prompt : createdAt[q] <= clock
  BY DEF QueueInv, PromptOK
<1> QED BY <1>1, <1>2, <1>3, <1>4, <1>5, <1>6, RowsKeep

(* Turns and notifications do not touch the queue.                          *)
LEMMA ProviderStepKeeps ==
    ASSUME QueueInv, ProviderStep \/ OutsideStep
    PROVE  QueueInv'
<1>1. PICK e \in External : TurnEnds(e) \/ Notified(e) \/ ForeignTurn(e) \/ Stop(e)
  BY DEF ProviderStep, OutsideStep
<1>2. runtime' \in [External -> Runtimes]
  BY <1>1 DEF TurnEnds, Notified, ForeignTurn, Stop, RuntimeFromProvider, Runtimes,
     QueueInv, QueueTypeOK
<1>3. turn' \in [External -> Prompt \cup {None, Foreign}]
  BY <1>1 DEF TurnEnds, Notified, ForeignTurn, Stop, QueueInv, QueueTypeOK
<1>4. /\ UNCHANGED <<row, createdAt, binding, rotatedFor, loop, policy, clock, setup, restarts, delivered, replayable>>
      /\ faults' \in Nat /\ faults' >= faults
  BY <1>1 DEF TurnEnds, Notified, ForeignTurn, Stop, Fault, durableVars, boundVars,
     historyVars, QueueInv, QueueTypeOK
<1>5. QueueTypeOK'
  BY <1>2, <1>3, <1>4 DEF QueueInv, QueueTypeOK
<1> QED BY <1>4, <1>5, QuietKeeps

(* A restart queues the claimed rows again; those past the boundary may be  *)
(* sent twice from now on.                                                  *)
LEMMA RestartKeeps == ASSUME QueueInv, Restart PROVE QueueInv'
<1>1. /\ \A q \in Prompt : \/ row[q].status # "sending" /\ row'[q] = row[q]
                           \/ row[q].status = "sending" /\ row'[q].status = "queued"
      /\ \A d \in Dispatcher : loop'[d] = IdleLoop
      /\ replayable' = replayable \cup {p \in Prompt : row[p].status = "sending" /\ row[p].dispatched}
      /\ UNCHANGED <<createdAt, binding, rotatedFor, clock, setup, faults, delivered>>
  BY DEF Restart, RecoveredRow, QueueInv, QueueTypeOK, RowType
<1>2. QueueTypeOK'
  <2>1. loop' \in [Dispatcher -> LoopType]
    BY IdleIsTyped DEF Restart
  <2>2. row' \in [Prompt -> RowType]
    <3>1. ASSUME NEW q \in Prompt PROVE RecoveredRow(q) \in RowType
      <4>1. row[q] \in RowType
        BY DEF QueueInv, QueueTypeOK
      <4> QED BY <4>1 DEF RecoveredRow, RowType, Statuses, Errors
    <3> QED BY <3>1 DEF Restart
  <2>3. /\ runtime' \in [External -> Runtimes]
        /\ turn' \in [External -> Prompt \cup {None, Foreign}]
        /\ policy' \in PolicyType
    BY DEF Restart, Runtimes, NoPolicy, PolicyType, QueueInv, QueueTypeOK
  <2> QED BY <1>1, <2>1, <2>2, <2>3 DEF Restart, QueueInv, QueueTypeOK
<1>3. \A q \in Prompt : InQueue(q)' <=> InQueue(q)
  BY <1>1 DEF InQueue
<1>4. \A q \in Prompt : Eldest(q) => Eldest(q)'
  BY <1>1, <1>3 DEF Eldest
<1>5. \A d \in Dispatcher : loop'[d].pc = "idle"
  BY <1>1 DEF IdleLoop
<1>6. SoleClaimant' /\ ClaimIsStanding' /\ BindingIsFresh'
  BY <1>1, <1>5 DEF QueueInv, SoleClaimant, ClaimIsStanding, BindingIsFresh,
     Claims, Claiming
<1>7. OrphansComeFromStorage'
  BY <1>1 DEF OrphansComeFromStorage, WriteRefused, Orphan
<1>8. \A d \in Dispatcher : LoopOK(d)'
  BY <1>5 DEF LoopOK, Claiming, BeforeBegin, Dispatching
<1>9. ASSUME NEW q \in Prompt PROVE PromptOK(q)'
  <2>1. q \notin replayable' /\ Spent(q) => Spent(q)'
    BY <1>1 DEF Spent
  <2> QED BY <1>1, <1>4, <2>1 DEF QueueInv, PromptOK
<1> QED BY <1>2, <1>6, <1>7, <1>8, <1>9 DEF QueueInv

(* Every step keeps the invariant of the queue.                             *)
LEMMA NextKeeps == ASSUME QueueInv, [Next]_vars PROVE QueueInv'
<1>1. CASE \E d \in Dispatcher : DispatchSpawned(d) \/ LoopStep(d)
  BY <1>1, LoopStepKeeps
<1>2. CASE UserStep
  BY <1>2, EnqueueKeeps, RetryKeeps, RemoveKeeps DEF UserStep
<1>3. CASE UNCHANGED vars
  <2>1. QueueTypeOK'
    BY <1>3 DEF vars, durableVars, providerVars, boundVars, historyVars, QueueInv,
       QueueTypeOK
  <2> QED BY <1>3, <2>1, QuietKeeps DEF vars, durableVars, boundVars, historyVars,
     QueueInv, QueueTypeOK
<1> QED BY <1>1, <1>2, <1>3, RecoverFailuresKeeps, ProviderStepKeeps, RestartKeeps
   DEF Next

(* The invariant of the queue holds at first.                               *)
LEMMA InitQueue == ASSUME Init PROVE QueueInv
<1>1. Cardinality({}) = 0 /\ 0 \in External
  BY FS_EmptySet, FS_CardinalityType, PromptAssumption DEF External
<1>2. QueueTypeOK
  <2>1. loop \in [Dispatcher -> LoopType]
    BY IdleIsTyped DEF Init
  <2>2. row \in [Prompt -> RowType]
    BY DEF Init, LegacyRow, AbsentRow, RowType, Statuses, Phases, Errors
  <2> QED BY <1>1, <2>1, <2>2 DEF Init, QueueTypeOK, Runtimes, NoPolicy, PolicyType
<1>3. /\ \A d \in Dispatcher : loop[d].pc = "idle"
      /\ \A p \in Prompt : row[p].status \in {"failed", "absent"} /\ createdAt[p] <= clock /\ delivered[p] = 0
  BY DEF Init, IdleLoop, LegacyRow, AbsentRow
<1>4. SoleClaimant /\ ClaimIsStanding /\ OrphansComeFromStorage /\ BindingIsFresh
  BY <1>1, <1>3 DEF SoleClaimant, ClaimIsStanding, OrphansComeFromStorage, WriteRefused, Orphan,
     BindingIsFresh, Claims, Claiming, Init
<1>5. \A d \in Dispatcher : LoopOK(d)
  BY <1>3 DEF LoopOK, Claiming, BeforeBegin, Dispatching
<1>6. \A p \in Prompt : PromptOK(p)
  BY <1>3 DEF PromptOK
<1> QED BY <1>2, <1>4, <1>5, <1>6 DEF QueueInv

(* The invariant of the queue always holds, steers or no steers.            *)
THEOREM QueueInvariant == Spec => []QueueInv
<1>1. Init => QueueInv
  BY InitQueue
<1>2. QueueInv /\ [Next]_vars => QueueInv'
  BY NextKeeps
<1> QED BY <1>1, <1>2, PTL DEF Spec

-----------------------------------------------------------------------------
(* What reaches the provider *)

(* A turn starts only for a prompt that is claimed, past its boundary and   *)
(* the eldest.                                                              *)
LEMMA StartsAreGoing ==
    ASSUME QueueInv, [Next]_vars, NEW p \in Prompt, delivered'[p] > delivered[p]
    PROVE  /\ row[p].status = "sending" /\ row[p].dispatched /\ Eldest(p)
<1>1. delivered'[p] # delivered[p]
  BY DEF QueueInv, QueueTypeOK
<1>2. PICK d \in Dispatcher : DispatchSpawned(d) \/ LoopStep(d)
  <2>1. CASE UserStep \/ RecoverFailures \/ ProviderStep \/ OutsideStep \/ Restart \/ UNCHANGED vars
    BY <1>1, <2>1 DEF UserStep, Enqueue, Retry, Remove, RecoverFailures,
       ProviderStep, TurnEnds, Notified, OutsideStep, ForeignTurn, Stop, Restart,
       vars, historyVars
  <2> QED BY <2>1 DEF Next
<1>3. CASE Looks(d) \/ Takes(d) \/ Begins(d) \/ Leaves(d)
  BY <1>1, <1>3 DEF Looks, Takes, Begins, Leaves
<1>4. CASE Goes(d)
  <2>1. loop[d].pc = "start" /\ delivered' = [delivered EXCEPT ![Head(d)] = @ + 1]
    BY <1>1, <1>4 DEF Goes
  <2>2. p = Head(d)
    BY <1>1, <2>1 DEF QueueInv, QueueTypeOK
  <2>3. row[p].status = "sending" /\ row[p].dispatched
    BY <2>1, <2>2, StandingFacts DEF QueueInv, LoopOK, Claiming, Dispatching
  <2> QED BY <2>3 DEF QueueInv, PromptOK
<1> QED BY <1>2, <1>3, <1>4, LoopStepKinds DEF LoopKind

(* A failed classification leaves its row only by a retry of the user.      *)
LEMMA FailuresWait ==
    ASSUME QueueInv, [Next]_vars, NEW p \in Prompt, row[p].status = "failed",
           row[p].phase = "jev-classifier", row'[p].status = "queued"
    PROVE  p \in replayable'
<1>1. CASE \E d \in Dispatcher : DispatchSpawned(d) \/ LoopStep(d)
  <2>1. PICK d \in Dispatcher : DispatchSpawned(d) \/ LoopStep(d)
    BY <1>1
  <2>2. CASE Looks(d) \/ Goes(d)
    BY <2>2 DEF Looks, Goes
  <2>3. CASE Takes(d) \/ Begins(d)
    BY <2>3 DEF Takes, CanClaim, Begins, CanBegin, SetRow, QueueInv, QueueTypeOK
  <2>4. CASE Leaves(d)
    BY <2>4 DEF Leaves, SetRow, QueueInv, QueueTypeOK
  <2> QED BY <2>1, <2>2, <2>3, <2>4, LoopStepKinds DEF LoopKind
<1>2. CASE UserStep
  <2>1. PICK q \in Prompt : Enqueue(q) \/ Retry(q) \/ Remove(q)
    BY <1>2 DEF UserStep
  <2>2. CASE Enqueue(q) \/ Remove(q)
    <3>1. row[q].status # "failed" \/ row'[q].status = "gone"
      BY <2>2 DEF Enqueue, Remove, SetRow, QueueInv, QueueTypeOK, RowType
    <3>2. \A x \in Prompt \ {q} : row'[x] = row[x]
      BY <2>2 DEF Enqueue, Remove, SetRow, QueueInv, QueueTypeOK
    <3> QED BY <3>1, <3>2
  <2>3. CASE Retry(q)
    <3>1. replayable' = replayable \cup {q} /\ \A x \in Prompt \ {q} : row'[x] = row[x]
      BY <2>3 DEF Retry, SetRow, QueueInv, QueueTypeOK
    <3> QED BY <3>1
  <2> QED BY <2>1, <2>2, <2>3
<1>3. CASE RecoverFailures \/ Restart
  BY <1>3 DEF RecoverFailures, Recoverable, Restart, RecoveredRow, QueueInv,
     QueueTypeOK
<1>4. CASE ProviderStep \/ OutsideStep \/ UNCHANGED vars
  BY <1>4 DEF ProviderStep, TurnEnds, Notified, OutsideStep, ForeignTurn, Stop,
     vars, durableVars
<1> QED BY <1>1, <1>2, <1>3, <1>4 DEF Next

(* What HandsOverRightly says of a step of the queue.                       *)
LEMMA HandedOver ==
    ASSUME QueueInv, [Next]_vars
    PROVE  /\ \A p \in Prompt : delivered'[p] > delivered[p] => row[p].status = "sending" /\ row[p].dispatched
           /\ \A p, q \in Prompt :
                 delivered'[p] > delivered[p] /\ createdAt[q] < createdAt[p] /\ createdAt[q] > 0 => ~InQueue(q)
           /\ \A p \in Prompt :
                 row[p].status = "failed" /\ row[p].phase = "jev-classifier" /\ row'[p].status = "queued"
                    => p \in replayable'
<1>1. ASSUME NEW p \in Prompt, delivered'[p] > delivered[p]
      PROVE  row[p].status = "sending" /\ row[p].dispatched /\ Eldest(p)
  BY <1>1, StartsAreGoing
<1>2. ASSUME NEW p \in Prompt, NEW q \in Prompt, delivered'[p] > delivered[p],
             createdAt[q] < createdAt[p]
      PROVE  ~InQueue(q)
  BY <1>1, <1>2 DEF Eldest, QueueInv, QueueTypeOK
<1>3. ASSUME NEW p \in Prompt, row[p].status = "failed", row[p].phase = "jev-classifier",
             row'[p].status = "queued"
      PROVE  p \in replayable'
  BY <1>3, FailuresWait
<1> QED BY <1>1, <1>2, <1>3

(* The invariant of the queue says that claims are sound and that nothing   *)
(* is sent twice. Two claimed rows are both the eldest, hence of the same   *)
(* second.                                                                  *)
LEMMA QueueInvClaims == ASSUME QueueInv PROVE ClaimsAreSound /\ NoSilentReplay
<1>1. ClaimedTogether
  <2>1. ASSUME NEW p \in Prompt, NEW q \in Prompt,
               row[p].status = "sending", row[q].status = "sending"
        PROVE  createdAt[p] = createdAt[q]
    <3>1. createdAt[p] <= createdAt[q] /\ createdAt[q] <= createdAt[p]
      BY <2>1 DEF QueueInv, PromptOK, Eldest, InQueue
    <3> QED BY <3>1 DEF QueueInv, QueueTypeOK
  <2> QED BY <2>1 DEF ClaimedTogether
<1>2. NoSilentReplay
  BY DEF NoSilentReplay, QueueInv, PromptOK
<1> QED BY <1>1, <1>2 DEF QueueInv, ClaimsAreSound

-----------------------------------------------------------------------------
(* The inductive invariant of the steers *)

(* Types of the steer and of the names; a steer under way is meant for a    *)
(* prompt.                                                                  *)
SteerShape ==
    /\ steer \in SteerType /\ steers \in Nat /\ steered \subseteq Prompt
    /\ known \in [External -> Prompt \cup {None, Foreign}]
    /\ steer.pc # "idle" => steer.of \in Prompt

(* The points at which a steer may install, has installed or rolls back its *)
(* policy.                                                                  *)
Holding == {"install", "deliver", "post", "rollback"}

(* What the steer knows of the policy: its mark stands only as long as      *)
(* nobody else set one; then the policy is still the one it captured, or    *)
(* its own; and a policy of an earlier steer that it may put back is of a   *)
(* turn that took that steer.                                               *)
Leased ==
    /\ steer.stands => steer.pc \in {"check"} \cup Holding
    /\ steer.pc \in {"check", "install"} /\ steer.stands => steer.captured = policy
    /\ steer.captured.kind = "steer" => steer.captured.owner \in steered
    /\ steer.pc \in {"deliver", "post", "rollback"} =>
          IF steer.stands THEN policy = [owner |-> steer.of, kind |-> "steer"] ELSE policy.kind # "steer"
    /\ steer.pc = "post" => steer.of \in steered
    /\ RefusedSteerLeavesNoPolicy

(* The circumstances of PolicyIsOfRunningTurn.                              *)
Alone == setup.loops = 1 /\ restarts = 0

(* The loop has set the preflight policy and has not handed its prompt      *)
(* over.                                                                    *)
Prepared == {"resume", "recheck", "classify", "failClassify", "staleHead", "staleRuntime",
             "begin", "accept", "install", "start"}

(* The points at which the external thread that the loop has read is the    *)
(* binding: only this loop may rotate it, and only later.                   *)
Placed == {"runtime", "reconcile", "store", "list", "claim", "preflight", "answer",
           "rotateCheck", "rotate"} \cup Prepared

(* The loop goes for a prompt because it believes that no turn runs.        *)
Resolved(d) ==
    \/ loop[d].pc \in {"claim", "preflight", "rotateCheck", "rotate"} \cup Prepared
    \/ loop[d].pc = "list" /\ ~loop[d].active

(* No turn of a prompt runs.                                                *)
TurnsRest == \A e \in External : turn[e] \notin Prompt

(* Ecky does not believe that a turn of a prompt is active in e.            *)
Forgotten(e) == runtime[e] # "idle" => known[e] \notin Prompt

(* A turn of a prompt that runs where Ecky believes in an active turn has   *)
(* its right name.                                                          *)
TurnKnown(e) ==
    turn[e] \in Prompt /\ runtime[e] # "idle" /\ known[e] \in Prompt => known[e] = turn[e]

(* What its place says of the only loop: it works on the binding; when it   *)
(* believes that no turn runs, none does, and Ecky believes in none; when   *)
(* it is about to start a turn, the policy is the one of its prompt.        *)
LoopPlaced(d) ==
    /\ loop[d].pc \in Placed => loop[d].ext = binding
    /\ Resolved(d) => TurnsRest /\ Forgotten(binding)
    /\ loop[d].pc = "store" /\ ~loop[d].active => TurnsRest
    /\ loop[d].pc = "start" => policy.owner = loop[d].head

(* A turn of a prompt runs only in the binding, under its own policy, and   *)
(* is known as active or not answered yet. Ecky believes in no turn of a    *)
(* prompt elsewhere.                                                        *)
TurnPlaced(e) ==
    /\ turn[e] \in Prompt =>
          /\ e = binding /\ policy.owner = turn[e]
          /\ runtime[e] # "idle" \/ \E d \in Dispatcher : loop[d].pc = "answer"
    /\ TurnKnown(e)
    /\ e # binding => Forgotten(e)

(* At most one loop runs.                                                   *)
OneLoop == \A d, x \in Dispatcher : loop[d].pc # "idle" /\ loop[x].pc # "idle" => x = d

(* From the steer's last check on: as long as nobody else has set the       *)
(* policy, no loop prepares a turn, and a turn that runs is the one the     *)
(* steer is meant for, under the policy it captured or set.                 *)
SteerHolds ==
    steer.stands /\ steer.pc \in Holding =>
       /\ \A d \in Dispatcher : loop[d].pc \notin Prepared
       /\ \A e \in External : turn[e] \in Prompt =>
             turn[e] = steer.of /\ steer.captured.owner = steer.of

(* What holds of one loop.                                                  *)
AloneInv ==
    /\ OneLoop
    /\ \A d \in Dispatcher : LoopPlaced(d)
    /\ \A e \in External : TurnPlaced(e)
    /\ SteerHolds

(* The inductive invariant of the queue with its steers.                    *)
SteerInv == QueueInv /\ SteerShape /\ Leased /\ (Alone => AloneInv)

-----------------------------------------------------------------------------
(* Types, leases and the turns that are named *)

(* No steer is a steer.                                                     *)
LEMMA IdleSteerIsTyped == IdleSteer \in SteerType
<1>1. 0 \in External
  BY FS_CardinalityType, PromptAssumption DEF External
<1> QED BY <1>1 DEF IdleSteer, NoPolicy, PolicyType, SteerType, SteerPoints

(* A steer that goes on is a steer.                                         *)
LEMMA SteerIsTyped ==
    ASSUME NEW s \in SteerType
    PROVE  /\ \A point \in SteerPoints : [s EXCEPT !.pc = point] \in SteerType
           /\ [s EXCEPT !.stands = FALSE] \in SteerType
           /\ [s EXCEPT !.pc = "deliver", !.stands = TRUE] \in SteerType
           /\ \A p \in PolicyType :
                 [s EXCEPT !.pc = "check", !.captured = p, !.stands = TRUE] \in SteerType
           /\ \A e \in External, p \in Prompt :
                 [s EXCEPT !.pc = "look", !.ext = e, !.of = p] \in SteerType
<1>1. \A point \in SteerPoints : [s EXCEPT !.pc = point] \in SteerType
  BY DEF SteerType
<1>2. [s EXCEPT !.stands = FALSE] \in SteerType
  BY DEF SteerType
<1>3. [s EXCEPT !.pc = "deliver", !.stands = TRUE] \in SteerType
  BY DEF SteerType, SteerPoints
<1>4. ASSUME NEW p \in PolicyType
      PROVE  [s EXCEPT !.pc = "check", !.captured = p, !.stands = TRUE] \in SteerType
  BY DEF SteerType, SteerPoints
<1>5. ASSUME NEW e \in External, NEW p \in Prompt
      PROVE  [s EXCEPT !.pc = "look", !.ext = e, !.of = p] \in SteerType
  BY DEF SteerType, SteerPoints
<1> QED BY <1>1, <1>2, <1>3, <1>4, <1>5

(* A step of the steer keeps the types and touches neither rows, loops nor  *)
(* turns.                                                                   *)
LEMMA SteerStepTypes ==
    ASSUME QueueTypeOK, SteerShape, SteerStep
    PROVE  /\ QueueTypeOK' /\ steer' \in SteerType /\ steers' \in Nat /\ steered' \subseteq Prompt
           /\ UNCHANGED <<row, createdAt, binding, rotatedFor, loop, runtime, turn, clock, setup, restarts,
                          delivered, replayable>>
           /\ faults' >= faults
<1>1. CASE SteerSent
  <2>1. steer' \in SteerType
    BY <1>1, IdleSteerIsTyped, SteerIsTyped DEF SteerSent, QueueTypeOK
  <2> QED BY <1>1, <2>1 DEF SteerSent, SteerShape, vars, durableVars, providerVars,
     boundVars, historyVars, QueueTypeOK
<1>2. CASE SteerLooks \/ SteerReads \/ SteerChecks \/ SteerSettles
  <2>1. UNCHANGED <<policy, steered>> /\ RowsUnchanged
    BY <1>2 DEF SteerLooks, SteerReads, SteerChecks, SteerSettles
  <2>2. \/ steer' = IdleSteer
        \/ \E point \in SteerPoints : steer' = [steer EXCEPT !.pc = point]
        \/ steer' = [steer EXCEPT !.pc = "check", !.captured = policy, !.stands = TRUE]
    BY <1>2 DEF SteerLooks, SteerReads, SteerChecks, SteerSettles, SteerGoto,
       SteerReturns, SteerPoints
  <2>3. steer' \in SteerType
    <3>1. CASE steer' = IdleSteer
      BY <3>1, IdleSteerIsTyped
    <3>2. CASE \E point \in SteerPoints : steer' = [steer EXCEPT !.pc = point]
      BY <3>2, SteerIsTyped DEF SteerShape
    <3>3. CASE steer' = [steer EXCEPT !.pc = "check", !.captured = policy, !.stands = TRUE]
      BY <3>3, SteerIsTyped DEF SteerShape, QueueTypeOK
    <3> QED BY <2>2, <3>1, <3>2, <3>3
  <2> QED BY <2>1, <2>3 DEF RowsUnchanged, SteerShape, durableVars, boundVars,
     historyVars, QueueTypeOK
<1>3. CASE SteerInstalls
  <2>1. steer' \in SteerType
    BY <1>3, IdleSteerIsTyped, SteerIsTyped
       DEF SteerInstalls, SteerReturns, SteerShape
  <2>2. policy' \in PolicyType
    BY <1>3 DEF SteerInstalls, PolicyType, SteerShape, SteerType, QueueTypeOK
  <2> QED BY <1>3, <2>1, <2>2 DEF SteerInstalls, RowsUnchanged, SteerShape,
     durableVars, boundVars, historyVars, QueueTypeOK
<1>4. CASE SteerDelivers
  <2>1. steer' \in SteerType
    BY <1>4, SteerIsTyped DEF SteerDelivers, SteerGoto, AfterRefusal, SteerPoints,
       SteerShape
  <2>2. steered' \subseteq Prompt
    BY <1>4 DEF SteerDelivers, SteerAt, SteerShape
  <2> QED BY <1>4, <2>1, <2>2 DEF SteerDelivers, Fault, NoFault, SteerShape,
     durableVars, providerVars, historyVars, QueueTypeOK
<1>5. CASE SteerRollsBack
  <2>1. steer' \in SteerType /\ policy' \in PolicyType
    BY <1>5, IdleSteerIsTyped DEF SteerRollsBack, RolledBack, SteerReturns,
       SteerShape, SteerType, QueueTypeOK
  <2> QED BY <1>5, <2>1 DEF SteerRollsBack, RowsUnchanged, SteerShape, durableVars,
     boundVars, historyVars, QueueTypeOK
<1> QED BY <1>1, <1>2, <1>3, <1>4, <1>5 DEF SteerStep

(* What TurnsNamed may do to the name that Ecky has for a turn: a report    *)
(* names the turn that runs, an idle runtime may forget it, and otherwise   *)
(* it stays.                                                                *)
LEMMA NamedTurns ==
    ASSUME SteerShape, QueueTypeOK', TurnsNamed
    PROVE  /\ known' \in [External -> Prompt \cup {None, Foreign}]
           /\ \A e \in External :
                 /\ known'[e] \in {None, known[e], turn'[e]}
                 /\ runtime[e] = "idle" /\ runtime'[e] # "idle" /\ turn'[e] # None => known'[e] = turn'[e]
<1>1. PICK unreported \in SUBSET {e \in External : Lags(e)} :
         known' = [e \in External |-> IF Forgets(e) THEN None
                                      ELSE IF Names(e) /\ e \notin unreported THEN turn'[e]
                                      ELSE known[e]]
  BY DEF TurnsNamed
<1>2. ASSUME NEW e \in External
      PROVE  /\ known'[e] \in {None, known[e], turn'[e]}
             /\ runtime[e] = "idle" /\ runtime'[e] # "idle" /\ turn'[e] # None => known'[e] = turn'[e]
  BY <1>1 DEF Lags, Names, Forgets
<1>3. known' \in [External -> Prompt \cup {None, Foreign}]
  BY <1>1, <1>2 DEF SteerShape, QueueTypeOK
<1> QED BY <1>2, <1>3

(* A step that touches neither turns nor runtime keeps the names right.     *)
LEMMA NamesKeep ==
    ASSUME SteerInv, QueueTypeOK', TurnsNamed, NEW e \in External
    PROVE  /\ /\ Forgotten(e) /\ turn'[e] \notin Prompt
              /\ runtime[e] = "idle" /\ runtime'[e] # "idle" => turn'[e] # None
              => Forgotten(e)'
           /\ (turn'[e] \in Prompt /\ runtime[e] # "idle" /\ known[e] \in Prompt => known[e] = turn'[e])
              => TurnKnown(e)'
<1>1. /\ known'[e] \in {None, known[e], turn'[e]}
      /\ runtime[e] = "idle" /\ runtime'[e] # "idle" /\ turn'[e] # None => known'[e] = turn'[e]
  BY NamedTurns DEF SteerInv
<1>2. None \notin Prompt
  BY PromptAssumption
<1> QED BY <1>1, <1>2 DEF Forgotten, TurnKnown

(* Only TakePolicy of a loop sets the policy.                               *)
LEMMA CallStepSparesPolicy ==
    ASSUME NEW d \in Dispatcher, DispatchSpawned(d) \/ CallStep(d)
    PROVE  UNCHANGED policy
<1> USE DEF providerVars
<1>1. CASE DispatchSpawned(d) \/ ReadBinding(d) \/ ReadRuntime(d) \/ ReconcileAsks(d) \/ ReconcileStores(d)
  BY <1>1 DEF DispatchSpawned, ReadBinding, ReadRuntime, ReconcileAsks,
     ReconcileStores
<1>2. CASE ListQueue(d) \/ Claim(d) \/ Resume(d) \/ Recheck(d) \/ Classify(d) \/ FailClassify(d)
  BY <1>2 DEF ListQueue, Claim, Resume, Recheck, Classify, FailClassify
<1>3. CASE StaleHeadCheck(d) \/ StaleRuntimeCheck(d) \/ Begin(d) \/ Accept(d) \/ StartTurn(d) \/ StartAnswered(d)
  BY <1>3 DEF StaleHeadCheck, StaleRuntimeCheck, Begin, Accept, StartTurn,
     StartAnswered
<1>4. CASE Complete(d) \/ After(d) \/ RotateCheck(d) \/ Rotate(d) \/ Defer(d) \/ RecordError(d)
  BY <1>4 DEF Complete, After, RotateCheck, Rotate, Defer, RecordError
<1> QED BY <1>1, <1>2, <1>3, <1>4 DEF CallStep

(* A step of the queue beside the steers is a step of the queue.            *)
LEMMA QueueStepIsNext == QueueStep => Next
BY DEF QueueStep, Next, LoopStep

(* What a step of the queue does to the steer and the policy: nothing, or   *)
(* it outdates the steer with a policy of its own, or the application       *)
(* restarts.                                                                *)
LEMMA QueueStepSteers ==
    ASSUME QueueStep
    PROVE  /\ UNCHANGED <<steers, steered>>
           /\ \/ UNCHANGED <<steer, policy>>
              \/ Outdated /\ policy'.kind # "steer"
              \/ steer' = IdleSteer /\ policy' = NoPolicy
<1>1. CASE (\E d \in Dispatcher : TakePolicy(d)) /\ Outdated /\ UNCHANGED <<steers, steered>>
  BY <1>1 DEF TakePolicy, SetPreflightPolicy, SetTurnPolicy
<1>2. CASE (\E d \in Dispatcher : DispatchSpawned(d) \/ CallStep(d)) /\ UNCHANGED steerVars
  BY <1>2, CallStepSparesPolicy DEF steerVars
<1>3. CASE (UserStep \/ RecoverFailures \/ ProviderStep \/ OutsideStep) /\ UNCHANGED steerVars
  BY <1>3 DEF UserStep, Enqueue, Retry, Remove, RecoverFailures, ProviderStep,
     TurnEnds, Notified, OutsideStep, ForeignTurn, Stop, steerVars, providerVars
<1>4. CASE Restart /\ SteerReturns /\ UNCHANGED <<steers, steered>>
  BY <1>4 DEF Restart, SteerReturns
<1> QED BY <1>1, <1>2, <1>3, <1>4 DEF QueueStep

(* A step of the queue keeps the leases.                                    *)
LEMMA QueueStepLeases ==
    ASSUME SteerInv, QueueStep
    PROVE  /\ Leased' /\ steer' \in SteerType /\ steers' \in Nat /\ steered' \subseteq Prompt
           /\ steer'.pc # "idle" => steer'.of \in Prompt
<1>1. /\ Leased /\ steer \in SteerType /\ (steer.pc # "idle" => steer.of \in Prompt)
      /\ steers \in Nat /\ steered \subseteq Prompt
  BY DEF SteerInv, SteerShape
<1>2. UNCHANGED <<steers, steered>>
  BY QueueStepSteers
<1>3. CASE UNCHANGED <<steer, policy>>
  BY <1>1, <1>2, <1>3 DEF Leased, RefusedSteerLeavesNoPolicy
<1>4. CASE Outdated /\ policy'.kind # "steer"
  <2>1. steer' \in SteerType
    BY <1>1, <1>4, SteerIsTyped DEF Outdated
  <2>2. /\ steer'.pc = steer.pc /\ steer'.of = steer.of /\ steer'.captured = steer.captured
        /\ ~steer'.stands
    BY <1>1, <1>4 DEF Outdated, SteerType
  <2> QED BY <1>1, <1>2, <1>4, <2>1, <2>2 DEF Leased, RefusedSteerLeavesNoPolicy
<1>5. CASE steer' = IdleSteer /\ policy' = NoPolicy
  BY <1>1, <1>2, <1>5, IdleSteerIsTyped DEF Leased, IdleSteer, NoPolicy,
     RefusedSteerLeavesNoPolicy
<1> QED BY <1>2, <1>3, <1>4, <1>5, QueueStepSteers

(* A step of the steer keeps the leases: what it captures, installs and     *)
(* rolls back.                                                              *)
LEMMA SteerStepLeases ==
    ASSUME SteerInv, SteerStep
    PROVE  Leased' /\ (steer'.pc # "idle" => steer'.of \in Prompt)
<1> USE DEF SteerAt, SteerGoto, SteerReturns
<1>1. Leased /\ steer \in SteerType /\ (steer.pc # "idle" => steer.of \in Prompt)
  BY DEF SteerInv, SteerShape
<1>2. CASE SteerSent
  BY <1>1, <1>2 DEF SteerSent, Leased, Holding, IdleSteer, NoPolicy,
     RefusedSteerLeavesNoPolicy, vars, providerVars
<1>3. CASE SteerLooks
  <2>1. /\ UNCHANGED <<policy, steered>> /\ steer.pc = "look"
        /\ \/ steer' = IdleSteer
           \/ /\ steer'.pc = "read" /\ steer'.stands = steer.stands
              /\ steer'.captured = steer.captured /\ steer'.of = steer.of
    BY <1>1, <1>3 DEF SteerLooks, SteerType
  <2> QED BY <1>1, <2>1 DEF Leased, Holding, IdleSteer, NoPolicy,
     RefusedSteerLeavesNoPolicy
<1>4. CASE SteerReads
  <2>1. /\ UNCHANGED <<policy, steered>> /\ steer.pc = "read"
        /\ steer'.pc = "check" /\ steer'.stands /\ steer'.captured = policy /\ steer'.of = steer.of
    BY <1>1, <1>4 DEF SteerReads, SteerType
  <2> QED BY <1>1, <2>1 DEF Leased, Holding, RefusedSteerLeavesNoPolicy
<1>5. CASE SteerChecks
  <2>1. /\ UNCHANGED <<policy, steered>> /\ steer.pc = "check"
        /\ \/ steer' = IdleSteer
           \/ /\ steer'.pc = "install" /\ steer'.stands = steer.stands
              /\ steer'.captured = steer.captured /\ steer'.of = steer.of
    BY <1>1, <1>5 DEF SteerChecks, SteerType
  <2> QED BY <1>1, <2>1 DEF Leased, Holding, IdleSteer, NoPolicy,
     RefusedSteerLeavesNoPolicy
<1>6. CASE SteerInstalls
  <2>1. /\ UNCHANGED steered /\ steer.pc = "install"
        /\ \/ steer' = IdleSteer /\ UNCHANGED policy
           \/ /\ steer'.pc = "deliver" /\ steer'.stands
              /\ steer'.captured = steer.captured /\ steer'.of = steer.of
              /\ policy' = [owner |-> steer.of, kind |-> "steer"]
    BY <1>1, <1>6 DEF SteerInstalls, SteerType
  <2> QED BY <1>1, <2>1 DEF Leased, Holding, IdleSteer, NoPolicy,
     RefusedSteerLeavesNoPolicy
<1>7. CASE SteerDelivers
  <2>1. /\ UNCHANGED policy /\ steer.pc = "deliver"
        /\ steer'.stands = steer.stands /\ steer'.captured = steer.captured /\ steer'.of = steer.of
        /\ \/ steer'.pc = "post" /\ steered' = steered \cup {steer.of}
           \/ steer'.pc = "rollback" /\ UNCHANGED steered
    BY <1>1, <1>7 DEF SteerDelivers, AfterRefusal, providerVars, SteerType
  <2> QED BY <1>1, <2>1 DEF Leased, Holding, RefusedSteerLeavesNoPolicy
<1>8. CASE SteerSettles
  <2>1. /\ UNCHANGED <<policy, steered>> /\ steer.pc = "post"
        /\ \/ steer' = IdleSteer
           \/ /\ steer'.pc = "rollback" /\ steer'.stands = steer.stands
              /\ steer'.captured = steer.captured /\ steer'.of = steer.of
    BY <1>1, <1>8 DEF SteerSettles, SteerType
  <2> QED BY <1>1, <2>1 DEF Leased, Holding, IdleSteer, NoPolicy,
     RefusedSteerLeavesNoPolicy
<1>9. CASE SteerRollsBack
  <2>1. /\ UNCHANGED steered /\ steer.pc = "rollback" /\ steer' = IdleSteer
        /\ policy' = IF steer.stands THEN steer.captured ELSE policy
    BY <1>9 DEF SteerRollsBack, RolledBack
  <2> QED BY <1>1, <2>1 DEF Leased, Holding, IdleSteer, NoPolicy,
     RefusedSteerLeavesNoPolicy
<1> QED BY <1>2, <1>3, <1>4, <1>5, <1>6, <1>7, <1>8, <1>9 DEF SteerStep

-----------------------------------------------------------------------------
(* One loop: its steps that move neither turn, runtime nor policy *)

(* While loop d runs no other loop does.                                    *)
LEMMA SoleLoop ==
    ASSUME SteerInv, Alone, NEW d \in Dispatcher, loop[d].pc # "idle", LoopMoves(d)
    PROVE  /\ OneLoop'
           /\ \A x \in Dispatcher : x # d => loop[x].pc = "idle" /\ loop'[x].pc = "idle"
           /\ \A x \in Dispatcher : x # d => LoopPlaced(x)'
<1>1. \A x \in Dispatcher : x # d => loop[x].pc = "idle" /\ loop'[x] = loop[x]
  BY DEF SteerInv, AloneInv, OneLoop, LoopMoves
<1> QED BY <1>1 DEF OneLoop, LoopPlaced, Resolved, Placed, Prepared

(* What the invariant says of the loop while it works on the binding.       *)
LEMMA AloneFacts ==
    ASSUME SteerInv, Alone, NEW d \in Dispatcher, loop[d].pc \in Placed
    PROVE  /\ OneLoop /\ SteerHolds /\ LoopPlaced(d) /\ \A e \in External : TurnPlaced(e)
           /\ loop[d].ext = binding /\ binding \in External
           /\ Resolved(d) => TurnsRest /\ Forgotten(binding)
BY DEF SteerInv, AloneInv, LoopPlaced, QueueInv, QueueTypeOK

(* A step of the loop that moves neither turn, runtime, policy nor binding, *)
(* and comes to believe that no turn runs only where it has just seen it.   *)
LoopAdvances(d) ==
    /\ UNCHANGED <<turn, runtime, policy, binding>>
    /\ loop[d].pc \notin {"idle", "answer"} /\ loop'[d].pc # "start"
    /\ loop'[d].pc \in Placed =>
          loop'[d].ext = binding \/ (loop[d].pc \in Placed /\ loop'[d].ext = loop[d].ext)
    /\ Resolved(d)' => Resolved(d) \/ (loop[d].pc = "runtime" /\ runtime[loop[d].ext] = "idle")
    /\ loop'[d].pc = "store" /\ ~loop'[d].active => loop[d].pc = "reconcile" /\ turn[loop[d].ext] = None
    /\ loop'[d].pc \in Prepared => loop[d].pc \in Prepared

(* Such a step keeps what holds of one loop.                                *)
LEMMA AdvancesKeeps ==
    ASSUME SteerInv, Alone, NEW d \in Dispatcher, LoopMoves(d), LoopAdvances(d), TurnsNamed, UNCHANGED steer
    PROVE  AloneInv'
<1>1. AloneInv /\ UNCHANGED <<turn, runtime, policy, binding>> /\ QueueTypeOK'
  BY DEF SteerInv, LoopMoves, LoopAdvances
<1>2. /\ \A x \in Dispatcher : x # d => loop[x].pc = "idle" /\ loop'[x] = loop[x]
      /\ binding \in External
  BY <1>1 DEF AloneInv, OneLoop, LoopAdvances, LoopMoves, SteerInv, QueueInv,
     QueueTypeOK
<1>3. OneLoop'
  BY <1>2 DEF OneLoop
<1>4. LoopPlaced(d) /\ \A e \in External : TurnPlaced(e)
  BY <1>1 DEF AloneInv
<1>5. ASSUME NEW e \in External PROVE TurnPlaced(e)'
  <2>1. TurnPlaced(e)
    BY <1>4
  <2>2. (e # binding => Forgotten(e)') /\ TurnKnown(e)'
    BY <1>1, <2>1, NamesKeep DEF TurnPlaced, TurnKnown
  <2>3. (\E x \in Dispatcher : loop[x].pc = "answer") => \E x \in Dispatcher : loop'[x].pc = "answer"
    BY <1>2 DEF LoopAdvances
  <2> QED BY <1>1, <2>1, <2>2, <2>3 DEF TurnPlaced
<1>6. loop'[d].pc \in Placed => loop'[d].ext = binding
  BY <1>4 DEF LoopPlaced, LoopAdvances
<1>7. Resolved(d)' => TurnsRest' /\ Forgotten(binding)'
  <2>1. ASSUME loop[d].pc = "runtime", runtime[loop[d].ext] = "idle"
        PROVE  TurnsRest /\ Forgotten(binding)
    <3>1. runtime[binding] = "idle"
      BY <1>4, <2>1 DEF LoopPlaced, Placed
    <3>2. \A x \in Dispatcher : loop[x].pc # "answer"
      BY <1>2, <2>1
    <3> QED BY <1>2, <1>4, <3>1, <3>2 DEF TurnPlaced, TurnsRest, Forgotten
  <2>2. Resolved(d)' => TurnsRest /\ Forgotten(binding)
    BY <1>4, <2>1 DEF LoopAdvances, LoopPlaced
  <2>3. PICK b \in External : b = binding
    BY <1>2
  <2>4. TurnsRest /\ Forgotten(b) => TurnsRest' /\ Forgotten(b)'
    BY <1>1, NamesKeep DEF TurnsRest
  <2> QED BY <1>1, <2>2, <2>3, <2>4 DEF Forgotten
<1>8. loop'[d].pc = "store" /\ ~loop'[d].active => TurnsRest'
  <2>1. ASSUME loop[d].pc = "reconcile", turn[loop[d].ext] = None
        PROVE  TurnsRest'
    <3>1. turn[binding] = None
      BY <1>4, <2>1 DEF LoopPlaced, Placed
    <3> QED BY <1>1, <1>4, <3>1, PromptAssumption DEF TurnPlaced, TurnsRest
  <2> QED BY <2>1 DEF LoopAdvances
<1>9. ASSUME NEW x \in Dispatcher PROVE LoopPlaced(x)'
  <2>1. CASE x = d
    BY <1>1, <1>6, <1>7, <1>8, <2>1 DEF LoopPlaced, LoopAdvances
  <2>2. CASE x # d
    BY <1>2, <2>2 DEF LoopPlaced, Resolved, Placed, Prepared
  <2> QED BY <2>1, <2>2
<1>10. SteerHolds'
  BY <1>1, <1>2 DEF AloneInv, SteerHolds, LoopAdvances
<1> QED BY <1>3, <1>5, <1>9, <1>10 DEF AloneInv

(* ReadBinding moves the loop alone.                                        *)
LEMMA ReadBindingAdvances ==
    ASSUME QueueInv, NEW d \in Dispatcher, ReadBinding(d)
    PROVE  LoopAdvances(d)
<1>1. UNCHANGED <<turn, runtime, policy, binding>>
  BY DEF ReadBinding, durableVars, providerVars
<1> QED BY <1>1 DEF LoopAdvances, Placed, Prepared, Resolved, ReadBinding, At,
   QueueInv, QueueTypeOK, LoopType

(* ReadRuntime moves the loop alone.                                        *)
LEMMA ReadRuntimeAdvances ==
    ASSUME QueueInv, NEW d \in Dispatcher, ReadRuntime(d)
    PROVE  LoopAdvances(d)
<1>1. UNCHANGED <<turn, runtime, policy, binding>>
  BY DEF ReadRuntime, durableVars, providerVars
<1> QED BY <1>1 DEF LoopAdvances, Placed, Prepared, Resolved, ReadRuntime,
   TurnActive, Ext, At, QueueInv, QueueTypeOK, LoopType

(* ReconcileAsks moves the loop alone.                                      *)
LEMMA ReconcileAsksAdvances ==
    ASSUME QueueInv, NEW d \in Dispatcher, ReconcileAsks(d)
    PROVE  LoopAdvances(d)
<1>1. UNCHANGED <<turn, runtime, policy, binding>>
  BY DEF ReconcileAsks, durableVars, providerVars
<1>2. CASE Leave(d)
  <2>1. loop[d].pc = "reconcile" /\ loop'[d].pc = "idle"
    BY <1>2 DEF ReconcileAsks, At, Leave, IdleLoop, QueueInv, QueueTypeOK
  <2> QED BY <1>1, <2>1 DEF LoopAdvances, Placed, Prepared, Resolved
<1>3. CASE loop' = [loop EXCEPT ![d].pc = "store", ![d].active = TurnRuns(Ext(d))]
  <2>1. /\ loop[d].pc = "reconcile" /\ loop'[d].pc = "store" /\ loop'[d].ext = loop[d].ext
        /\ loop'[d].active = (turn[loop[d].ext] # None)
    BY <1>3 DEF ReconcileAsks, At, TurnRuns, Ext, QueueInv, QueueTypeOK, LoopType
  <2> QED BY <1>1, <2>1 DEF LoopAdvances, Placed, Prepared, Resolved
<1> QED BY <1>2, <1>3 DEF ReconcileAsks

(* ListQueue moves the loop alone.                                          *)
LEMMA ListQueueAdvances ==
    ASSUME QueueInv, NEW d \in Dispatcher, ListQueue(d)
    PROVE  LoopAdvances(d)
<1>1. UNCHANGED <<turn, runtime, policy, binding>>
  BY DEF ListQueue, durableVars, providerVars
<1> QED BY <1>1 DEF LoopAdvances, Placed, Prepared, Resolved, ListQueue, Leave,
   IdleLoop, At, QueueInv, QueueTypeOK, LoopType

(* Claim moves the loop alone.                                              *)
LEMMA ClaimAdvances ==
    ASSUME QueueInv, NEW d \in Dispatcher, Claim(d)
    PROVE  LoopAdvances(d)
<1>1. UNCHANGED <<turn, runtime, policy, binding>>
  BY DEF Claim, durableVars, providerVars
<1>2. CASE Leave(d)
  <2>1. loop[d].pc = "claim" /\ loop'[d].pc = "idle"
    BY <1>2 DEF Claim, At, Leave, IdleLoop, QueueInv, QueueTypeOK
  <2> QED BY <1>1, <2>1 DEF LoopAdvances, Placed, Prepared, Resolved
<1>3. CASE \E routed \in setup.routing :
              loop' = [loop EXCEPT ![d].pc = "preflight", ![d].routed = routed]
  <2>0. PICK routed \in setup.routing :
               loop' = [loop EXCEPT ![d].pc = "preflight", ![d].routed = routed]
    BY <1>3
  <2>1. loop[d].pc = "claim"
    BY DEF Claim, At
  <2>2. loop'[d].pc = "preflight" /\ loop'[d].ext = loop[d].ext
    BY <2>0 DEF QueueInv, QueueTypeOK, LoopType
  <2> QED BY <1>1, <2>1, <2>2 DEF LoopAdvances, Placed, Prepared, Resolved
<1> QED BY <1>2, <1>3 DEF Claim

(* Recheck moves the loop alone.                                            *)
LEMMA RecheckAdvances ==
    ASSUME QueueInv, NEW d \in Dispatcher, Recheck(d)
    PROVE  LoopAdvances(d)
<1>1. UNCHANGED <<turn, runtime, policy, binding>>
  BY DEF Recheck, durableVars, providerVars
<1> QED BY <1>1 DEF LoopAdvances, Placed, Prepared, Resolved, Recheck, Goto,
   Report, At, QueueInv, QueueTypeOK, LoopType

(* Classify moves the loop alone.                                           *)
LEMMA ClassifyAdvances ==
    ASSUME QueueInv, NEW d \in Dispatcher, Classify(d)
    PROVE  LoopAdvances(d)
<1>1. UNCHANGED <<turn, runtime, policy, binding>>
  BY DEF Classify, durableVars, providerVars
<1> QED BY <1>1 DEF LoopAdvances, Placed, Prepared, Resolved, Classify, Goto,
   Report, At, QueueInv, QueueTypeOK, LoopType

(* FailClassify moves the loop alone.                                       *)
LEMMA FailClassifyAdvances ==
    ASSUME QueueInv, NEW d \in Dispatcher, FailClassify(d)
    PROVE  LoopAdvances(d)
<1>1. UNCHANGED <<turn, runtime, policy, binding>>
  BY DEF FailClassify, durableVars, providerVars
<1> QED BY <1>1 DEF LoopAdvances, Placed, Prepared, Resolved, FailClassify, Leave,
   IdleLoop, At, QueueInv, QueueTypeOK, LoopType

(* StaleHeadCheck moves the loop alone.                                     *)
LEMMA StaleHeadCheckAdvances ==
    ASSUME QueueInv, NEW d \in Dispatcher, StaleHeadCheck(d)
    PROVE  LoopAdvances(d)
<1>1. UNCHANGED <<turn, runtime, policy, binding>>
  BY DEF StaleHeadCheck, durableVars, providerVars
<1> QED BY <1>1 DEF LoopAdvances, Placed, Prepared, Resolved, StaleHeadCheck,
   Leave, IdleLoop, Goto, Report, At, QueueInv, QueueTypeOK, LoopType

(* StaleRuntimeCheck moves the loop alone.                                  *)
LEMMA StaleRuntimeCheckAdvances ==
    ASSUME QueueInv, NEW d \in Dispatcher, StaleRuntimeCheck(d)
    PROVE  LoopAdvances(d)
<1>1. UNCHANGED <<turn, runtime, policy, binding>>
  BY DEF StaleRuntimeCheck, durableVars, providerVars
<1> QED BY <1>1 DEF LoopAdvances, Placed, Prepared, Resolved, StaleRuntimeCheck,
   Goto, Report, At, QueueInv, QueueTypeOK, LoopType

(* Begin moves the loop alone.                                              *)
LEMMA BeginAdvances ==
    ASSUME QueueInv, NEW d \in Dispatcher, Begin(d)
    PROVE  LoopAdvances(d)
<1>1. UNCHANGED <<turn, runtime, policy, binding>>
  BY DEF Begin, durableVars, providerVars
<1> QED BY <1>1 DEF LoopAdvances, Placed, Prepared, Resolved, Begin, Leave,
   IdleLoop, Goto, Report, At, QueueInv, QueueTypeOK, LoopType

(* Accept moves the loop alone.                                             *)
LEMMA AcceptAdvances ==
    ASSUME QueueInv, NEW d \in Dispatcher, Accept(d)
    PROVE  LoopAdvances(d)
<1>1. UNCHANGED <<turn, runtime, policy, binding>>
  BY DEF Accept, durableVars, providerVars
<1> QED BY <1>1 DEF LoopAdvances, Placed, Prepared, Resolved, Accept, Leave,
   IdleLoop, Goto, At, QueueInv, QueueTypeOK, LoopType

(* Complete moves the loop alone.                                           *)
LEMMA CompleteAdvances ==
    ASSUME QueueInv, NEW d \in Dispatcher, Complete(d)
    PROVE  LoopAdvances(d)
<1>1. UNCHANGED <<turn, runtime, policy, binding>>
  BY DEF Complete, durableVars, providerVars
<1> QED BY <1>1 DEF LoopAdvances, Placed, Prepared, Resolved, Complete, Leave,
   IdleLoop, Goto, At, QueueInv, QueueTypeOK, LoopType

(* After moves the loop alone.                                              *)
LEMMA AfterAdvances ==
    ASSUME QueueInv, NEW d \in Dispatcher, After(d)
    PROVE  LoopAdvances(d)
<1>1. UNCHANGED <<turn, runtime, policy, binding>>
  BY DEF After, durableVars, providerVars
<1>2. loop[d].pc = "after" /\ loop'[d].pc \in {"idle", "bind"}
  <2>1. Leave(d) => loop'[d].pc = "idle"
    BY DEF Leave, IdleLoop, QueueInv, QueueTypeOK
  <2>2. NextTurnOfLoop(d) => loop'[d].pc = "bind"
    BY DEF NextTurnOfLoop, IdleLoop, QueueInv, QueueTypeOK
  <2> QED BY <2>1, <2>2 DEF After, At
<1> QED BY <1>1, <1>2 DEF LoopAdvances, Placed, Prepared, Resolved

(* RotateCheck moves the loop alone.                                        *)
LEMMA RotateCheckAdvances ==
    ASSUME QueueInv, NEW d \in Dispatcher, RotateCheck(d)
    PROVE  LoopAdvances(d)
<1>1. UNCHANGED <<turn, runtime, policy, binding>>
  BY DEF RotateCheck, durableVars, providerVars
<1> QED BY <1>1 DEF LoopAdvances, Placed, Prepared, Resolved, RotateCheck, Goto,
   Report, At, QueueInv, QueueTypeOK, LoopType

(* Defer moves the loop alone.                                              *)
LEMMA DeferAdvances ==
    ASSUME QueueInv, NEW d \in Dispatcher, Defer(d)
    PROVE  LoopAdvances(d)
<1>1. UNCHANGED <<turn, runtime, policy, binding>>
  BY DEF Defer, durableVars, providerVars
<1>2. loop[d].pc = "defer" /\ loop'[d].pc \in {"idle", "bind"}
  <2>1. Leave(d) => loop'[d].pc = "idle"
    BY DEF Leave, IdleLoop, QueueInv, QueueTypeOK
  <2>2. loop' = [loop EXCEPT ![d] = [IdleLoop EXCEPT !.pc = "bind", !.rotated = TRUE]] => loop'[d].pc = "bind"
    BY DEF IdleLoop, QueueInv, QueueTypeOK
  <2> QED BY <2>1, <2>2 DEF Defer, At
<1> QED BY <1>1, <1>2 DEF LoopAdvances, Placed, Prepared, Resolved

(* RecordError moves the loop alone.                                        *)
LEMMA RecordErrorAdvances ==
    ASSUME QueueInv, NEW d \in Dispatcher, RecordError(d)
    PROVE  LoopAdvances(d)
<1>1. UNCHANGED <<turn, runtime, policy, binding>>
  BY DEF RecordError, durableVars, providerVars
<1> QED BY <1>1 DEF LoopAdvances, Placed, Prepared, Resolved, RecordError, Leave,
   IdleLoop, At, QueueInv, QueueTypeOK, LoopType

-----------------------------------------------------------------------------
(* One loop: the other steps *)

(* The bound of one loop lets a second one begin only when the first is     *)
(* done.                                                                    *)
LEMMA DispatchSpawnedAlone ==
    ASSUME SteerInv, Alone, NEW d \in Dispatcher, DispatchSpawned(d), TurnsNamed, UNCHANGED steer
    PROVE  AloneInv'
<1>1. \A x \in Dispatcher : loop[x].pc = "idle"
  <2> DEFINE busy == {x \in Dispatcher : ~At(x, "idle")}
  <2>1. IsFiniteSet(busy)
    <3>1. busy \subseteq Dispatcher
      OBVIOUS
    <3> QED BY <3>1, DispatcherAssumption, FS_Subset
  <2>2. Cardinality(busy) < 1
    BY DEF DispatchSpawned, Alone
  <2> HIDE DEF busy
  <2>3. Cardinality(busy) \in Nat /\ (Cardinality(busy) = 0 <=> busy = {})
    BY <2>1, FS_CardinalityType, FS_EmptySet
  <2>4. busy = {}
    BY <2>2, <2>3
  <2> QED BY <2>4 DEF At, busy
<1>2. /\ \A x \in Dispatcher : loop'[x].pc = IF x = d THEN "bind" ELSE "idle"
      /\ UNCHANGED <<turn, runtime, policy, binding>>
  BY <1>1 DEF DispatchSpawned, Goto, durableVars, providerVars, SteerInv, QueueInv,
     QueueTypeOK
<1>3. AloneInv /\ QueueTypeOK'
  BY DispatchSpawnedLooks DEF Looks, LoopMoves, SteerInv
<1>4. OneLoop'
  BY <1>2 DEF OneLoop
<1>5. \A x \in Dispatcher : LoopPlaced(x)'
  BY <1>2 DEF LoopPlaced, Resolved, Placed, Prepared
<1>6. ASSUME NEW e \in External PROVE TurnPlaced(e)'
  <2>1. TurnPlaced(e)
    BY <1>3 DEF AloneInv
  <2>2. (e # binding => Forgotten(e)') /\ TurnKnown(e)'
    BY <1>2, <1>3, <2>1, NamesKeep DEF TurnPlaced, TurnKnown
  <2> QED BY <1>1, <1>2, <2>1, <2>2 DEF TurnPlaced
<1>7. SteerHolds'
  BY <1>2, <1>3 DEF AloneInv, SteerHolds, Prepared
<1> QED BY <1>4, <1>5, <1>6, <1>7 DEF AloneInv

(* The provider's answer is stored: an idle one only when no turn of a      *)
(* prompt runs.                                                             *)
LEMMA ReconcileStoresAlone ==
    ASSUME SteerInv, Alone, NEW d \in Dispatcher, ReconcileStores(d), TurnsNamed, UNCHANGED steer
    PROVE  AloneInv'
<1>1. LoopMoves(d)
  BY ReconcileStoresLooks DEF Looks, SteerInv
<1>2. /\ loop[d].pc = "store" /\ loop'[d].pc = "list"
      /\ loop'[d].ext = loop[d].ext /\ loop'[d].active = loop[d].active
      /\ UNCHANGED <<turn, policy, binding>>
      /\ \A e \in External : e # loop[d].ext => runtime'[e] = runtime[e]
      /\ runtime'[loop[d].ext] = IF loop[d].active THEN "active" ELSE "idle"
  BY DEF ReconcileStores, At, Goto, Ext, durableVars, SteerInv, QueueInv,
     QueueTypeOK, LoopType
<1>3. /\ LoopPlaced(d) /\ SteerHolds /\ \A e \in External : TurnPlaced(e)
      /\ loop[d].ext = binding
  BY <1>2, AloneFacts DEF Placed
<1>4. LoopPlaced(d)'
  BY <1>2, <1>3 DEF LoopPlaced, Resolved, Placed, Prepared, TurnsRest, Forgotten
<1>5. \A x \in Dispatcher : loop[x].pc # "answer"
  BY <1>1, <1>2, SoleLoop
<1>6. ASSUME NEW e \in External PROVE TurnPlaced(e)'
  <2>1. TurnPlaced(e)
    BY <1>3
  <2>2. (e # binding => Forgotten(e)') /\ TurnKnown(e)'
    BY <1>1, <1>2, <1>3, <2>1, NamesKeep DEF TurnPlaced, TurnKnown, LoopMoves
  <2>3. turn[e] \in Prompt => e = binding /\ loop[d].active
    BY <1>2, <1>3, <2>1 DEF TurnPlaced, LoopPlaced, TurnsRest
  <2> QED BY <1>2, <1>3, <2>1, <2>2, <2>3 DEF TurnPlaced
<1>7. SteerHolds'
  <2>1. \A x \in Dispatcher : loop'[x].pc \in Prepared => loop[x].pc \in Prepared
    BY <1>1, <1>2 DEF LoopMoves, Prepared
  <2> QED BY <1>2, <1>3, <2>1 DEF SteerHolds
<1> QED BY <1>1, <1>2, <1>4, <1>6, <1>7, SoleLoop DEF AloneInv

(* Resuming makes the runtime active only for a turn of another client.     *)
LEMMA ResumeAlone ==
    ASSUME SteerInv, Alone, NEW d \in Dispatcher, Resume(d), TurnsNamed, UNCHANGED steer
    PROVE  AloneInv'
<1>1. LoopMoves(d)
  BY ResumeGoes DEF Goes, SteerInv
<1>2. loop[d].pc = "resume" /\ UNCHANGED <<turn, policy, binding>>
  BY DEF Resume, At, durableVars
<1>3. CASE UNCHANGED runtime /\ (OnWriterConflict(d) \/ Report(d, "final"))
  <2>1. loop'[d].pc \in {"record", "rotateCheck"} /\ loop'[d].ext = loop[d].ext
    BY <1>3 DEF OnWriterConflict, Report, Goto, SteerInv, QueueInv, QueueTypeOK,
       LoopType
  <2>2. LoopAdvances(d)
    BY <1>2, <1>3, <2>1 DEF LoopAdvances, Placed, Prepared, Resolved
  <2> QED BY <1>1, <2>2, AdvancesKeeps
<1>4. CASE /\ Goto(d, "recheck")
           /\ runtime' = [runtime EXCEPT ![Ext(d)] =
                             IF TurnActive(Ext(d)) THEN @ ELSE RuntimeFromProvider(Ext(d))]
  <2>1. /\ SteerHolds /\ \A e \in External : TurnPlaced(e)
        /\ loop[d].ext = binding /\ binding \in External /\ TurnsRest /\ Forgotten(binding)
    BY <1>2, AloneFacts DEF Placed, Prepared, Resolved
  <2>2. /\ loop'[d].pc = "recheck" /\ loop'[d].ext = loop[d].ext
        /\ \A e \in External : e # binding => runtime'[e] = runtime[e]
        /\ runtime'[binding] # "idle" => runtime[binding] # "idle" \/ turn[binding] # None
    BY <1>4, <2>1 DEF Goto, Ext, TurnActive, RuntimeFromProvider, TurnRuns,
       SteerInv, QueueInv, QueueTypeOK, LoopType
  <2>3. PICK b \in External : b = binding
    BY <2>1
  <2>4. Forgotten(binding)'
    <3>1. Forgotten(b)'
      BY <1>1, <1>2, <2>1, <2>2, <2>3, NamesKeep DEF TurnsRest, LoopMoves
    <3> QED BY <1>2, <2>3, <3>1 DEF Forgotten
  <2>5. LoopPlaced(d)'
    BY <1>2, <2>1, <2>2, <2>4 DEF LoopPlaced, Placed, Prepared, TurnsRest
  <2>6. ASSUME NEW e \in External PROVE TurnPlaced(e)'
    <3>1. turn'[e] \notin Prompt
      BY <1>2, <2>1 DEF TurnsRest
    <3>2. e # binding => Forgotten(e)'
      BY <1>1, <2>1, <2>2, <3>1, NamesKeep DEF TurnPlaced, LoopMoves
    <3> QED BY <1>2, <3>1, <3>2 DEF TurnPlaced, TurnKnown
  <2>7. SteerHolds'
    BY <1>2, <2>1 DEF SteerHolds, Prepared
  <2> QED BY <1>1, <1>2, <2>5, <2>6, <2>7, SoleLoop DEF AloneInv
<1> QED BY <1>3, <1>4 DEF Resume

(* The loop sets the policy while no turn of a prompt runs, and outdates    *)
(* the steer.                                                               *)
LEMMA TakePolicyAlone ==
    ASSUME SteerInv, Alone, NEW d \in Dispatcher, TakePolicy(d), TurnsNamed, Outdated
    PROVE  AloneInv'
<1>1. LoopMoves(d)
  BY SetPreflightPolicyGoes, SetTurnPolicyGoes DEF Goes, TakePolicy, SteerInv
<1>2. /\ \/ loop[d].pc = "preflight" /\ loop'[d].pc = "resume"
         \/ loop[d].pc = "install" /\ loop'[d].pc = "start"
      /\ loop'[d].ext = loop[d].ext /\ loop'[d].head = loop[d].head
      /\ policy'.owner = loop[d].head
      /\ UNCHANGED <<turn, runtime, binding>>
  BY DEF TakePolicy, SetPreflightPolicy, SetTurnPolicy, At, Goto, Head,
     durableVars, SteerInv, QueueInv, QueueTypeOK, LoopType
<1>3. /\ \A e \in External : TurnPlaced(e)
      /\ loop[d].ext = binding /\ TurnsRest /\ Forgotten(binding)
  BY <1>2, AloneFacts DEF Placed, Prepared, Resolved
<1>4. ASSUME NEW e \in External, Forgotten(e) PROVE Forgotten(e)'
  BY <1>1, <1>2, <1>3, <1>4, NamesKeep DEF TurnsRest, LoopMoves
<1>5. LoopPlaced(d)'
  <2>1. PICK b \in External : b = binding
    BY <1>2, AloneFacts DEF Placed, Prepared
  <2>2. Forgotten(b)' /\ TurnsRest'
    BY <1>2, <1>3, <1>4, <2>1 DEF TurnsRest
  <2>3. Forgotten(binding)'
    BY <1>2, <2>1, <2>2 DEF Forgotten
  <2> QED BY <1>2, <1>3, <2>2, <2>3 DEF LoopPlaced, Placed, Prepared
<1>6. \A e \in External : TurnPlaced(e)'
  BY <1>2, <1>3, <1>4 DEF TurnPlaced, TurnKnown, TurnsRest
<1>7. ~steer'.stands
  BY DEF Outdated, SteerInv, SteerShape, SteerType
<1> QED BY <1>1, <1>2, <1>5, <1>6, <1>7, SoleLoop DEF AloneInv, SteerHolds

(* The turn starts in the binding, under the policy the loop has set for    *)
(* it.                                                                      *)
LEMMA StartTurnAlone ==
    ASSUME SteerInv, Alone, NEW d \in Dispatcher, StartTurn(d), TurnsNamed, UNCHANGED steer
    PROVE  AloneInv'
<1>1. LoopMoves(d)
  BY StartTurnGoes DEF Goes, SteerInv
<1>2. loop[d].pc = "start" /\ UNCHANGED <<runtime, policy, binding>>
  BY DEF StartTurn, At, durableVars
<1>3. CASE UNCHANGED turn /\ (OnWriterConflict(d) \/ Report(d, "retryable") \/ Report(d, "final"))
  <2>1. loop'[d].pc \in {"record", "rotateCheck"} /\ loop'[d].ext = loop[d].ext
    BY <1>3 DEF OnWriterConflict, Report, Goto, SteerInv, QueueInv, QueueTypeOK,
       LoopType
  <2>2. LoopAdvances(d)
    BY <1>2, <1>3, <2>1 DEF LoopAdvances, Placed, Prepared, Resolved
  <2> QED BY <1>1, <2>2, AdvancesKeeps
<1>4. CASE turn' = [turn EXCEPT ![Ext(d)] = Head(d)] /\ Goto(d, "answer")
  <2>1. /\ SteerHolds /\ LoopPlaced(d) /\ \A e \in External : TurnPlaced(e)
        /\ loop[d].ext = binding /\ binding \in External /\ TurnsRest /\ Forgotten(binding)
    BY <1>2, AloneFacts DEF Placed, Prepared, Resolved
  <2>2. /\ loop'[d].pc = "answer" /\ loop'[d].ext = loop[d].ext
        /\ turn'[binding] = loop[d].head
        /\ \A e \in External : e # binding => turn'[e] = turn[e]
        /\ policy.owner = loop[d].head
    BY <1>2, <1>4, <2>1 DEF Goto, Ext, Head, LoopPlaced, SteerInv, QueueInv,
       QueueTypeOK, LoopType
  <2>3. ASSUME NEW e \in External
        PROVE  (e # binding => Forgotten(e)') /\ TurnKnown(e)'
    BY <1>1, <1>2, <2>1, <2>2, NamesKeep
       DEF TurnPlaced, TurnsRest, Forgotten, LoopMoves
  <2>4. LoopPlaced(d)'
    BY <1>2, <2>1, <2>2 DEF LoopPlaced, Resolved, Placed, Prepared
  <2>5. \A e \in External : TurnPlaced(e)'
    BY <1>2, <2>1, <2>2, <2>3 DEF TurnPlaced, TurnsRest
  <2>6. SteerHolds'
    BY <1>2, <2>1 DEF SteerHolds, Prepared
  <2> QED BY <1>1, <1>2, <2>4, <2>5, <2>6, SoleLoop DEF AloneInv
<1> QED BY <1>3, <1>4 DEF StartTurn

(* The answer makes the turn known, or loses it with the provider's         *)
(* process.                                                                 *)
LEMMA StartAnsweredAlone ==
    ASSUME SteerInv, Alone, NEW d \in Dispatcher, StartAnswered(d), TurnsNamed, UNCHANGED steer
    PROVE  AloneInv'
<1>1. LoopMoves(d)
  BY StartAnsweredGoes DEF Goes, SteerInv
<1>2. loop[d].pc = "answer" /\ UNCHANGED <<policy, binding>>
  BY DEF StartAnswered, At, durableVars
<1>3. /\ SteerHolds /\ \A e \in External : TurnPlaced(e)
      /\ loop[d].ext = binding /\ binding \in External
  BY <1>2, AloneFacts DEF Placed
<1>4. /\ loop'[d].pc \in {"complete", "record"}
      /\ \/ /\ UNCHANGED turn
            /\ \A e \in External : e # binding => runtime'[e] = runtime[e]
            /\ runtime'[binding] = IF turn[binding] = None THEN "idle" ELSE "active"
         \/ \A e \in External : turn'[e] = None /\ runtime'[e] = "idle"
  BY <1>3 DEF StartAnswered, Goto, Report, Ext, RuntimeFromProvider, TurnRuns,
     SteerInv, QueueInv, QueueTypeOK, LoopType
<1>5. \A e \in External : turn'[e] = turn[e] \/ turn'[e] = None
  BY <1>4
<1>6. LoopPlaced(d)'
  BY <1>4 DEF LoopPlaced, Resolved, Placed, Prepared
<1>7. ASSUME NEW e \in External PROVE TurnPlaced(e)'
  <2>1. TurnPlaced(e)
    BY <1>3
  <2>2. e # binding => Forgotten(e)'
    <3>1. CASE UNCHANGED turn /\ \A x \in External : x # binding => runtime'[x] = runtime[x]
      BY <1>1, <2>1, <3>1, NamesKeep DEF TurnPlaced, LoopMoves
    <3> QED BY <1>4, <3>1 DEF Forgotten
  <2>3. TurnKnown(e)'
    BY <1>1, <1>5, <2>1, NamesKeep, PromptAssumption
       DEF TurnPlaced, TurnKnown, LoopMoves
  <2> QED BY <1>2, <1>3, <1>4, <1>5, <2>1, <2>2, <2>3, PromptAssumption
     DEF TurnPlaced
<1>8. SteerHolds'
  <2>1. \A x \in Dispatcher : loop'[x].pc \in Prepared => loop[x].pc \in Prepared
    BY <1>1, <1>4 DEF LoopMoves, Prepared
  <2> QED BY <1>3, <1>5, <2>1, PromptAssumption DEF SteerHolds
<1> QED BY <1>1, <1>2, <1>6, <1>7, <1>8, SoleLoop DEF AloneInv

(* The binding moves while no turn of a prompt runs and Ecky believes in    *)
(* none.                                                                    *)
LEMMA RotateAlone ==
    ASSUME SteerInv, Alone, NEW d \in Dispatcher, Rotate(d), TurnsNamed, UNCHANGED steer
    PROVE  AloneInv'
<1>1. LoopMoves(d)
  BY RotateGoes DEF Goes, SteerInv
<1>2. loop[d].pc = "rotate" /\ UNCHANGED <<turn, runtime, policy>>
  BY DEF Rotate, At, providerVars
<1>3. /\ loop'[d].pc \in {"defer", "record"}
  BY DEF Rotate, Goto, Report, SteerInv, QueueInv, QueueTypeOK, LoopType
<1>4. /\ SteerHolds /\ \A e \in External : TurnPlaced(e)
      /\ TurnsRest /\ Forgotten(binding)
  BY <1>2, AloneFacts DEF Placed, Resolved
<1>5. ASSUME NEW e \in External PROVE Forgotten(e)'
  <2>1. Forgotten(e)
    BY <1>4 DEF TurnPlaced
  <2> QED BY <1>1, <1>2, <1>4, <2>1, NamesKeep DEF TurnsRest, LoopMoves
<1>6. LoopPlaced(d)'
  BY <1>3 DEF LoopPlaced, Resolved, Placed, Prepared
<1>7. \A e \in External : TurnPlaced(e)'
  BY <1>2, <1>4, <1>5 DEF TurnPlaced, TurnKnown, TurnsRest
<1>8. SteerHolds'
  <2>1. \A x \in Dispatcher : loop'[x].pc \in Prepared => loop[x].pc \in Prepared
    BY <1>1, <1>3 DEF LoopMoves, Prepared
  <2> QED BY <1>2, <1>4, <2>1 DEF SteerHolds
<1> QED BY <1>1, <1>2, <1>6, <1>7, <1>8, SoleLoop DEF AloneInv

(* Every step of the loop but TakePolicy keeps what holds of one loop.      *)
LEMMA CallStepAlone ==
    ASSUME SteerInv, Alone, NEW d \in Dispatcher, CallStep(d), TurnsNamed, UNCHANGED steer
    PROVE  AloneInv'
<1>1. LoopMoves(d) /\ QueueInv
  BY LoopStepMoves DEF SteerInv, LoopStep
<1>2. CASE LoopAdvances(d)
  BY <1>1, <1>2, AdvancesKeeps
<1>3. CASE \/ ReadBinding(d) \/ ReadRuntime(d) \/ ReconcileAsks(d) \/ ListQueue(d) \/ Claim(d) \/ Recheck(d)
  BY <1>1, <1>2, <1>3, ReadBindingAdvances, ReadRuntimeAdvances,
     ReconcileAsksAdvances, ListQueueAdvances, ClaimAdvances, RecheckAdvances
<1>4. CASE \/ Classify(d) \/ FailClassify(d) \/ StaleHeadCheck(d) \/ StaleRuntimeCheck(d) \/ Begin(d) \/ Accept(d)
  BY <1>1, <1>2, <1>4, ClassifyAdvances, FailClassifyAdvances,
     StaleHeadCheckAdvances, StaleRuntimeCheckAdvances, BeginAdvances,
     AcceptAdvances
<1>5. CASE Complete(d) \/ After(d) \/ RotateCheck(d) \/ Defer(d) \/ RecordError(d)
  BY <1>1, <1>2, <1>5, CompleteAdvances, AfterAdvances, RotateCheckAdvances,
     DeferAdvances, RecordErrorAdvances
<1>6. CASE ReconcileStores(d) \/ Resume(d) \/ StartTurn(d) \/ StartAnswered(d) \/ Rotate(d)
  BY <1>6, ReconcileStoresAlone, ResumeAlone, StartTurnAlone, StartAnsweredAlone,
     RotateAlone
<1> QED BY <1>3, <1>4, <1>5, <1>6 DEF CallStep

(* Turns end, other clients start theirs, and Ecky is told: no turn of a    *)
(* prompt appears, and none is forgotten while it runs.                     *)
LEMMA ReportsKeep ==
    ASSUME SteerInv, Alone, QueueTypeOK', TurnsNamed, UNCHANGED <<loop, binding, policy, steer>>,
           \A e \in External :
              /\ turn'[e] = turn[e] \/ turn'[e] \notin Prompt
              /\ turn'[e] \in Prompt => runtime'[e] # "idle" \/ runtime'[e] = runtime[e]
              /\ runtime'[e] # "idle" => runtime[e] # "idle" \/ turn'[e] # None
    PROVE  AloneInv'
<1>1. AloneInv /\ binding \in External
  BY DEF SteerInv, QueueInv, QueueTypeOK
<1>3. \A e \in External : turn[e] \notin Prompt => turn'[e] \notin Prompt
  OBVIOUS
<1>4. ASSUME NEW e \in External, turn[e] \notin Prompt, Forgotten(e) PROVE Forgotten(e)'
  BY <1>3, <1>4, NamesKeep
<1>5. TurnsRest => TurnsRest'
  BY <1>3 DEF TurnsRest
<1>6. ASSUME NEW d \in Dispatcher PROVE LoopPlaced(d)'
  <2>1. LoopPlaced(d)
    BY <1>1 DEF AloneInv
  <2>2. TurnsRest /\ Forgotten(binding) => Forgotten(binding)'
    BY <1>1, <1>4 DEF TurnsRest
  <2>3. Resolved(d)' <=> Resolved(d)
    BY DEF Resolved
  <2>4. UNCHANGED binding
    OBVIOUS
  <2> QED BY <2>1, <2>2, <2>3, <2>4, <1>5 DEF LoopPlaced
<1>7. ASSUME NEW e \in External PROVE TurnPlaced(e)'
  <2>1. TurnPlaced(e)
    BY <1>1 DEF AloneInv
  <2>2. e # binding => turn[e] \notin Prompt
    BY <2>1 DEF TurnPlaced
  <2>3. e # binding => Forgotten(e)'
    BY <2>1, <2>2, <1>4 DEF TurnPlaced
  <2>4. TurnKnown(e)'
    BY <2>1, NamesKeep DEF TurnPlaced, TurnKnown
  <2> QED BY <2>1, <2>3, <2>4, <1>3 DEF TurnPlaced
<1>8. OneLoop' /\ SteerHolds'
  BY <1>1, <1>3 DEF AloneInv, OneLoop, SteerHolds
<1> QED BY <1>6, <1>7, <1>8 DEF AloneInv

(* The user, the supervisor, the provider and other clients.                *)
LEMMA OthersAlone ==
    ASSUME SteerInv, Alone, UserStep \/ RecoverFailures \/ ProviderStep \/ OutsideStep,
           TurnsNamed, UNCHANGED steer
    PROVE  AloneInv'
<1>1. CASE UserStep \/ RecoverFailures
  <2>1. UNCHANGED <<loop, binding, policy, turn, runtime>>
    BY <1>1 DEF UserStep, Enqueue, Retry, Remove, RecoverFailures, providerVars
  <2>2. QueueTypeOK'
    BY <1>1, NextKeeps DEF Next, SteerInv, QueueInv
  <2> QED BY <2>1, <2>2, ReportsKeep
<1>2. CASE ProviderStep \/ OutsideStep
  <2>1. PICK f \in External : TurnEnds(f) \/ Notified(f) \/ ForeignTurn(f) \/ Stop(f)
    BY <1>2 DEF ProviderStep, OutsideStep
  <2>2. UNCHANGED <<loop, binding, policy>>
    BY <2>1 DEF TurnEnds, Notified, ForeignTurn, Stop, durableVars
  <2>3. QueueTypeOK'
    BY <1>2, ProviderStepKeeps DEF SteerInv, QueueInv
  <2>4. ASSUME NEW e \in External
        PROVE  /\ turn'[e] = turn[e] \/ turn'[e] \notin Prompt
               /\ turn'[e] \in Prompt => runtime'[e] # "idle" \/ runtime'[e] = runtime[e]
               /\ runtime'[e] # "idle" => runtime[e] # "idle" \/ turn'[e] # None
    BY <2>1, PromptAssumption DEF TurnEnds, Notified, ForeignTurn, Stop,
       RuntimeFromProvider, TurnRuns, SteerInv, QueueInv, QueueTypeOK
  <2> QED BY <2>2, <2>3, <2>4, ReportsKeep
<1> QED BY <1>1, <1>2

(* The steer. Its last check finds its turn active in the binding, so no    *)
(* loop prepares another turn; what it then installs or puts back is a      *)
(* policy of that turn.                                                     *)
LEMMA SteerStepAlone ==
    ASSUME SteerInv, Alone, SteerStep, TurnsNamed
    PROVE  AloneInv'
<1>1. UNCHANGED <<loop, binding, turn, runtime>> /\ QueueTypeOK'
  BY SteerStepTypes DEF SteerInv, QueueInv
<1>2. ASSUME NEW e \in External
      PROVE  /\ turn[e] \notin Prompt /\ Forgotten(e) => Forgotten(e)'
             /\ TurnKnown(e) => TurnKnown(e)'
  BY <1>1, NamesKeep DEF TurnKnown
<1>3. /\ OneLoop /\ SteerHolds
      /\ \A d \in Dispatcher : LoopPlaced(d)
      /\ \A e \in External : TurnPlaced(e)
      /\ steer \in SteerType /\ Leased /\ binding \in External
  BY DEF SteerInv, AloneInv, SteerShape, QueueInv, QueueTypeOK
<1>4. OneLoop'
  BY <1>1, <1>3 DEF OneLoop
<1>5. \/ policy' = policy
      \/ /\ SteerHolds /\ steer.stands /\ steer.pc \in Holding
         /\ policy'.owner = steer.of \/ policy' = steer.captured
  <2>1. CASE SteerInstalls
    BY <2>1 DEF SteerInstalls, SteerAt, MayInstall, Holding, SteerInv, AloneInv
  <2>2. CASE SteerRollsBack
    BY <2>2 DEF SteerRollsBack, SteerAt, RolledBack, Holding, SteerInv, AloneInv
  <2>3. CASE SteerSent \/ SteerLooks \/ SteerReads \/ SteerChecks \/ SteerDelivers \/ SteerSettles
    BY <2>3 DEF SteerSent, SteerLooks, SteerReads, SteerChecks, SteerDelivers,
       SteerSettles, vars, providerVars
  <2> QED BY <2>1, <2>2, <2>3 DEF SteerStep
<1>6. ASSUME NEW d \in Dispatcher PROVE LoopPlaced(d)'
  <2>1. loop[d].pc = "start" => policy'.owner = loop[d].head
    BY <1>3, <1>5 DEF LoopPlaced, SteerHolds, Prepared
  <2>2. Resolved(d)' <=> Resolved(d)
    BY <1>1 DEF Resolved
  <2>3. TurnsRest' <=> TurnsRest
    BY <1>1 DEF TurnsRest
  <2>4. PICK b \in External : b = binding
    BY <1>3
  <2>5. TurnsRest /\ Forgotten(b) => Forgotten(b)'
    BY <1>2 DEF TurnsRest
  <2>6. Forgotten(binding)' <=> Forgotten(b)'
    BY <1>1, <2>4 DEF Forgotten
  <2> QED BY <1>1, <1>3, <2>1, <2>2, <2>3, <2>4, <2>5, <2>6 DEF LoopPlaced
<1>7. ASSUME NEW e \in External PROVE TurnPlaced(e)'
  <2>1. turn[e] \in Prompt => policy'.owner = turn[e]
    BY <1>3, <1>5 DEF TurnPlaced, SteerHolds
  <2> QED BY <1>1, <1>2, <1>3, <2>1 DEF TurnPlaced
<1>8. SteerHolds'
  <2>1. CASE SteerChecks
    <3>1. CASE StillActive /\ binding = steer.ext /\ SteerGoto("install")
      <4>1. /\ steer'.of = steer.of /\ steer'.captured = steer.captured /\ steer'.stands = steer.stands
            /\ steer.pc = "check" /\ steer.of \in Prompt
        BY <3>1, <2>1, <1>3 DEF SteerChecks, SteerAt, SteerGoto, SteerType,
           SteerInv, SteerShape
      <4>2. runtime[binding] = "active" /\ known[binding] = steer.of
        BY <3>1 DEF StillActive
      <4>3. \A d \in Dispatcher : loop[d].pc \notin Prepared
        BY <1>3, <4>1, <4>2 DEF LoopPlaced, Resolved, Forgotten
      <4>4. ASSUME NEW e \in External, turn[e] \in Prompt
            PROVE  turn[e] = steer.of /\ policy.owner = steer.of
        BY <1>3, <4>1, <4>2, <4>4 DEF TurnPlaced, TurnKnown
      <4>5. steer.stands => steer.captured = policy
        BY <1>3, <4>1 DEF Leased
      <4> QED BY <1>1, <4>1, <4>3, <4>4, <4>5 DEF SteerHolds
    <3>2. CASE steer' = IdleSteer
      BY <3>2 DEF SteerHolds, IdleSteer
    <3> QED BY <2>1, <3>1, <3>2 DEF SteerChecks, SteerReturns
  <2>2. CASE SteerSent \/ SteerLooks \/ SteerReads \/ SteerRollsBack
    <3>1. steer'.pc \notin Holding
      <4>1. CASE SteerSent
        BY <4>1, IdleSteerIsTyped DEF SteerSent, SteerType, Holding
      <4>2. CASE SteerLooks
        BY <4>2, <1>3 DEF SteerLooks, SteerReturns, SteerGoto, IdleSteer, Holding,
           SteerType
      <4>3. CASE SteerReads
        <5>1. steer'.pc = "check"
          BY <4>3, <1>3 DEF SteerReads, SteerType
        <5> QED BY <5>1 DEF Holding
      <4>4. CASE SteerRollsBack
        BY <4>4 DEF SteerRollsBack, SteerReturns, IdleSteer, Holding
      <4> QED BY <2>2, <4>1, <4>2, <4>3, <4>4
    <3> QED BY <3>1 DEF SteerHolds
  <2>3. CASE SteerInstalls \/ SteerDelivers \/ SteerSettles
    <3>1. \/ steer' = IdleSteer
          \/ /\ steer'.of = steer.of /\ steer'.captured = steer.captured
             /\ steer'.stands => steer.stands
             /\ steer.pc \in Holding
      BY <2>3, <1>3 DEF SteerInstalls, SteerDelivers, SteerSettles, SteerReturns,
         SteerGoto, SteerAt, MayInstall, Holding, SteerType
    <3>2. CASE steer' = IdleSteer
      BY <3>2 DEF SteerHolds, IdleSteer
    <3> QED BY <1>1, <1>3, <3>1, <3>2 DEF SteerHolds
  <2> QED BY <2>1, <2>2, <2>3 DEF SteerStep
<1> QED BY <1>4, <1>6, <1>7, <1>8 DEF AloneInv

(* Every step of the queue keeps what holds of one loop.                    *)
LEMMA QueueStepAlone ==
    ASSUME SteerInv, QueueStep, TurnsNamed, Alone'
    PROVE  AloneInv'
<1>1. CASE Restart
  <2>1. restarts' > 0
    BY <1>1 DEF Restart, SteerInv, QueueInv, QueueTypeOK
  <2> QED BY <2>1 DEF Alone
<1>2. CASE ~Restart
  <2>1. UNCHANGED <<setup, restarts>>
    <3>1. CASE \E d \in Dispatcher : DispatchSpawned(d) \/ CallStep(d) \/ TakePolicy(d)
      BY <3>1, LoopStepMoves DEF LoopStep, LoopMoves, SteerInv
    <3>2. CASE UserStep \/ RecoverFailures \/ ProviderStep \/ OutsideStep
      BY <3>2 DEF UserStep, Enqueue, Retry, Remove, RecoverFailures, ProviderStep,
         TurnEnds, Notified, OutsideStep, ForeignTurn, Stop, Fault, boundVars
    <3> QED BY <1>2, <3>1, <3>2 DEF QueueStep
  <2>2. Alone
    BY <2>1 DEF Alone
  <2>3. CASE (\E d \in Dispatcher : TakePolicy(d)) /\ Outdated
    BY <2>2, <2>3, TakePolicyAlone
  <2>4. CASE (\E d \in Dispatcher : DispatchSpawned(d) \/ CallStep(d)) /\ UNCHANGED steerVars
    BY <2>2, <2>4, DispatchSpawnedAlone, CallStepAlone DEF steerVars
  <2>5. CASE (UserStep \/ RecoverFailures \/ ProviderStep \/ OutsideStep) /\ UNCHANGED steerVars
    BY <2>2, <2>5, OthersAlone DEF steerVars
  <2> QED BY <1>2, <2>3, <2>4, <2>5 DEF QueueStep
<1> QED BY <1>1, <1>2

-----------------------------------------------------------------------------
(* The theorems *)

(* Every step keeps the invariant.                                          *)
LEMMA SteerNextKeeps == ASSUME SteerInv, [SteerNext]_allVars PROVE SteerInv'
<1>1. CASE QueueStep /\ TurnsNamed
  <2>1. QueueInv'
    BY <1>1, QueueStepIsNext, NextKeeps DEF SteerInv
  <2>2. known' \in [External -> Prompt \cup {None, Foreign}]
    BY <1>1, <2>1, NamedTurns DEF SteerInv, QueueInv
  <2>3. Alone' => AloneInv'
    BY <1>1, QueueStepAlone
  <2> QED BY <1>1, <2>1, <2>2, <2>3, QueueStepLeases DEF SteerInv, SteerShape
<1>2. CASE SteerStep /\ TurnsNamed
  <2>1. /\ QueueTypeOK' /\ steer' \in SteerType /\ steers' \in Nat /\ steered' \subseteq Prompt
        /\ UNCHANGED <<row, createdAt, binding, rotatedFor, loop, clock, setup, restarts, delivered, replayable>>
        /\ faults' >= faults
    BY <1>2, SteerStepTypes DEF SteerInv, QueueInv
  <2>2. QueueInv'
    BY <2>1, QuietKeeps DEF SteerInv
  <2>3. known' \in [External -> Prompt \cup {None, Foreign}]
    BY <1>2, <2>1, NamedTurns DEF SteerInv
  <2>4. Alone' => AloneInv'
    BY <1>2, <2>1, SteerStepAlone DEF Alone
  <2> QED BY <1>2, <2>1, <2>2, <2>3, <2>4, SteerStepLeases DEF SteerInv, SteerShape
<1>3. CASE UNCHANGED allVars
  <2>1. QueueInv'
    BY <1>3, NextKeeps DEF allVars, SteerInv
  <2>2. SteerShape' /\ Leased'
    BY <1>3 DEF allVars, vars, providerVars, steerVars, SteerInv, SteerShape,
       Leased, RefusedSteerLeavesNoPolicy
  <2>3. Alone => AloneInv'
    BY <1>3 DEF allVars, vars, durableVars, providerVars, steerVars, SteerInv,
       AloneInv, OneLoop, LoopPlaced, Resolved, TurnsRest, Forgotten, TurnPlaced,
       TurnKnown, SteerHolds
  <2>4. Alone' <=> Alone
    BY <1>3 DEF allVars, vars, boundVars, Alone
  <2> QED BY <2>1, <2>2, <2>3, <2>4 DEF SteerInv
<1> QED BY <1>1, <1>2, <1>3 DEF SteerNext

(* The invariant holds at first.                                            *)
LEMMA InitSteer == ASSUME SteerInit PROVE SteerInv
<1>1. QueueInv
  BY InitQueue DEF SteerInit
<1>2. /\ steer = IdleSteer /\ steers = 0 /\ steered = {} /\ policy = NoPolicy /\ binding = 0
      /\ \A d \in Dispatcher : loop[d].pc = "idle"
      /\ \A e \in External : turn[e] = None /\ runtime[e] = "idle" /\ known[e] = None
      /\ known \in [External -> Prompt \cup {None, Foreign}]
  BY DEF SteerInit, Init, IdleLoop
<1>3. SteerShape /\ Leased
  BY <1>2, IdleSteerIsTyped DEF SteerShape, Leased, RefusedSteerLeavesNoPolicy,
     IdleSteer, NoPolicy
<1>4. AloneInv
  <2>1. OneLoop /\ SteerHolds /\ \A d \in Dispatcher : LoopPlaced(d)
    BY <1>2 DEF OneLoop, SteerHolds, IdleSteer, LoopPlaced, Resolved, Placed,
       Prepared
  <2>2. \A e \in External : TurnPlaced(e)
    BY <1>2, PromptAssumption DEF TurnPlaced, TurnKnown, Forgotten
  <2> QED BY <2>1, <2>2 DEF AloneInv
<1> QED BY <1>1, <1>3, <1>4 DEF SteerInv

(* The invariant always holds: the rows, loops, turns, policy and steer     *)
(* agree as SteerInv says.                                                  *)
THEOREM SteerInvariant == SteerSpec => []SteerInv
<1>1. SteerInit => SteerInv
  BY InitSteer
<1>2. SteerInv /\ [SteerNext]_allVars => SteerInv'
  BY SteerNextKeeps
<1> QED BY <1>1, <1>2, PTL DEF SteerSpec

(* No two dispatch loops ever hold the same row, a loop finds the row it    *)
(* holds claimed or removed, two rows are claimed at once only when         *)
(* inserted in the same second, and only a database that refused a write,   *)
(* before the dispatch boundary or after it, leaves a claim without a loop: *)
(* claim_queue_item, begin_queue_delivery, defer_queue_item and             *)
(* complete_queue_item of services/codex_takeover.rs and the `?` exits of   *)
(* dispatch_queue_for_impl and record_queue_delivery_error.                 *)
THEOREM PromptsAreClaimedSoundly == SteerSpec => []ClaimsAreSound
<1>1. SteerInv => ClaimsAreSound
  BY QueueInvClaims DEF SteerInv
<1> QED BY <1>1, SteerInvariant, PTL

(* The provider gets a prompt twice only if the user asked to retry it or   *)
(* the application stopped after its dispatch began (begin_queue_delivery,  *)
(* recover_stale_sending).                                                  *)
THEOREM NothingIsSentTwice == SteerSpec => []NoSilentReplay
<1>1. SteerInv => NoSilentReplay
  BY QueueInvClaims DEF SteerInv
<1> QED BY <1>1, SteerInvariant, PTL

(* A step beside the queue hands nothing over.                              *)
LEMMA SteerStepHandsNothing ==
    ASSUME QueueTypeOK, SteerShape, [SteerNext]_allVars
    PROVE  [Next]_vars \/ UNCHANGED <<row, delivered, createdAt>>
BY SteerStepTypes, QueueStepIsNext DEF SteerNext, allVars

(* The provider starts a turn only for a prompt that is in the queue,       *)
(* claimed and past its boundary, after every prompt of an earlier second   *)
(* has left the queue; and a failed classification waits for the user:      *)
(* dispatch_queue_for_impl and recover_retryable_failures.                  *)
THEOREM PromptsAreHandedOverRightly == SteerSpec => HandsOverRightly
<1>1. ASSUME SteerInv, [SteerNext]_allVars
      PROVE  /\ [\A p \in Prompt : delivered'[p] > delivered[p] =>
                    row[p].status = "sending" /\ row[p].dispatched]_vars
             /\ [\A p, q \in Prompt :
                    delivered'[p] > delivered[p] /\ createdAt[q] < createdAt[p] /\ createdAt[q] > 0
                        => ~InQueue(q)]_vars
             /\ [\A p \in Prompt :
                    row[p].status = "failed" /\ row[p].phase = "jev-classifier" /\ row'[p].status = "queued"
                        => p \in replayable']_vars
  <2>1. QueueInv /\ QueueTypeOK /\ SteerShape
    BY <1>1 DEF SteerInv, QueueInv
  <2>2. CASE [Next]_vars
    BY <2>1, <2>2, HandedOver
  <2>3. CASE UNCHANGED <<row, delivered, createdAt>>
    BY <2>1, <2>3 DEF QueueTypeOK
  <2> QED BY <1>1, <2>1, <2>2, <2>3, SteerStepHandsNothing
<1> QED BY <1>1, SteerInvariant, PTL DEF SteerSpec, HandsOverRightly,
   NoTurnForCancelled, NoOvertaking, ClassifierFailureWaits

(* With one dispatch loop and no restart, the running turn is judged by a   *)
(* policy that was set for it, by its delivery or a steer of it; and in     *)
(* every circumstance a refused steer leaves no policy behind:              *)
(* install_provider_turn_policy_with_answer_baseline and                    *)
(* rollback_provider_turn_policy of models.rs under                         *)
(* steer_bound_codex_turn_with_classifier.                                  *)
THEOREM TurnsHaveTheirPolicy == SteerSpec => []PolicyIsRight
<1>1. ASSUME SteerInv PROVE PolicyIsRight
  <2>1. SteerTypeOK /\ RefusedSteerLeavesNoPolicy
    BY <1>1 DEF SteerInv, SteerShape, Leased, QueueInv, SteerTypeOK
  <2>2. PolicyIsOfRunningTurn
    BY <1>1 DEF SteerInv, Alone, AloneInv, TurnPlaced, PolicyIsOfRunningTurn
  <2> QED BY <2>1, <2>2 DEF PolicyIsRight
<1> QED BY <1>1, SteerInvariant, PTL

=============================================================================
