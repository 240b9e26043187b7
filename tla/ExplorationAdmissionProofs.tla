---------------------- MODULE ExplorationAdmissionProofs ----------------------
(***************************************************************************)
(* Proofs about the run registry, for every set of targets and requests:   *)
(* about its queue, module BuildQueue, and about the registry that guards  *)
(* it, module ExplorationAdmission, which EXTENDS BuildQueue.              *)
(*                                                                         *)
(* The queue.  The inductive invariant is the conjunction of its run's     *)
(* invariants: the order of the FIFO is what keeps its entries distinct,   *)
(* and distinct entries are what keeps a granted controller out of the     *)
(* rest of it.  From it follow the order of grants and that the queue      *)
(* implements BuildTurns.                                                  *)
(*                                                                         *)
(* The registry.  The queue's invariant is one part of the inductive       *)
(* invariant; the others say where the task of a request can be while the  *)
(* registry holds, replaced or cancelled the request.  It is strengthened  *)
(* by what a task asleep in admit relies on, to show that no wakeup is     *)
(* lost.                                                                   *)
(***************************************************************************)
EXTENDS ExplorationAdmission, SequenceTheorems, TLAPS

-----------------------------------------------------------------------------
(* The queue *)

QueueOK(k, q, stamp) ==
    /\ q \in KeyQueue
    /\ PlacedIn(k, q, stamp)
    /\ InOrder(q, stamp)
    /\ NewestIn(k, q, stamp)

IInv ==
    /\ TypeOK
    /\ PlacedOnce
    /\ ControllersInOrder
    /\ LatestInteractiveWaits
    /\ StampsDistinct

-----------------------------------------------------------------------------
(* Removing position i of a sequence shifts the later elements by one. *)
LEMMA RemoveAtProperties ==
    ASSUME NEW S, NEW s \in Seq(S), NEW i \in 1 .. Len(s)
    PROVE  /\ RemoveAt(s, i) \in Seq(S)
           /\ Len(RemoveAt(s, i)) = Len(s) - 1
           /\ \A j \in 1 .. Len(s) - 1 :
                RemoveAt(s, i)[j] = IF j < i THEN s[j] ELSE s[j + 1]
<1> DEFINE left == SubSeq(s, 1, i - 1)
           right == SubSeq(s, i + 1, Len(s))
<1>1. /\ left \in Seq(S) /\ Len(left) = i - 1
      /\ \A j \in 1 .. i - 1 : left[j] = s[j]
  BY SubSeqProperties, LenProperties
<1>2. /\ right \in Seq(S) /\ Len(right) = Len(s) - i
      /\ \A j \in 1 .. Len(s) - i : right[j] = s[i + j]
  BY SubSeqProperties, LenProperties
<1>3. /\ left \o right \in Seq(S)
      /\ Len(left \o right) = Len(left) + Len(right)
      /\ \A j \in 1 .. Len(left) + Len(right) :
           (left \o right)[j] = IF j <= Len(left) THEN left[j]
                                ELSE right[j - Len(left)]
  BY <1>1, <1>2, ConcatProperties
<1>4. RemoveAt(s, i) = left \o right
  BY DEF RemoveAt
<1> HIDE DEF left, right
<1>5. Len(s) \in Nat
  BY LenProperties
<1>6. ASSUME NEW j \in 1 .. Len(s) - 1
      PROVE  RemoveAt(s, i)[j] = IF j < i THEN s[j] ELSE s[j + 1]
  <2>1. j \in 1 .. Len(left) + Len(right)
    BY <1>1, <1>2, <1>5
  <2>2. CASE j < i
    BY <2>1, <2>2, <1>1, <1>3, <1>4, <1>5
  <2>3. CASE ~(j < i)
    <3>1. j - (i - 1) \in 1 .. Len(s) - i /\ ~(j <= i - 1)
      BY <2>3, <1>5
    <3>2. RemoveAt(s, i)[j] = right[j - (i - 1)]
      BY <3>1, <2>1, <1>1, <1>3, <1>4
    <3>3. i + (j - (i - 1)) = j + 1
      OBVIOUS
    <3> QED BY <3>1, <3>2, <3>3, <1>2, <2>3
  <2> QED BY <2>2, <2>3
<1>7. RemoveAt(s, i) \in Seq(S) /\ Len(RemoveAt(s, i)) = Len(s) - 1
  BY <1>1, <1>2, <1>3, <1>4, <1>5
<1> QED BY <1>6, <1>7

(* Granting the vacated target to the next request keeps its queue valid.  *)
LEMMA GrantedOK ==
    ASSUME NEW k \in Key, NEW q, NEW stamp \in [Request -> Nat],
           QueueOK(k, q, stamp)
    PROVE  QueueOK(k, Granted(q), stamp)
<1> DEFINE s == q.controllers
           g == Granted(q)
<1>1. s \in Seq(Request) /\ Len(s) \in Nat
  BY LenProperties DEF QueueOK, KeyQueue
<1>2. CASE s # <<>>
  <2>1. /\ g = [q EXCEPT !.running = Head(s), !.controllers = Tail(s)]
        /\ g.running = s[1] /\ g.interactive = q.interactive
        /\ g.controllers = Tail(s)
    BY <1>1, <1>2, HeadTailProperties DEF Granted, QueueOK, KeyQueue
  <2>2. /\ Tail(s) \in Seq(Request) /\ Len(Tail(s)) = Len(s) - 1
        /\ \A i \in 1 .. Len(s) - 1 : Tail(s)[i] = s[i + 1]
    BY <1>1, <1>2, HeadTailProperties, EmptySeq
  <2>3. 1 \in 1 .. Len(s) /\ s[1] \in Request
    BY <1>1, <1>2, EmptySeq, ElementOfSeq
  <2>4. g \in KeyQueue
    BY <2>1, <2>2, <2>3 DEF QueueOK, KeyQueue
  <2>5. \A i \in 1 .. Len(s) - 1 : i + 1 \in 1 .. Len(s) /\ 1 < i + 1
    BY <1>1
  <2>6. PlacedIn(k, g, stamp)
    <3>1. /\ KeyOf[s[1]] = k /\ Controller(s[1]) /\ stamp[s[1]] > 0
      BY <2>3 DEF QueueOK, PlacedIn
    <3>2. ASSUME NEW i \in 1 .. Len(g.controllers)
          PROVE  /\ KeyOf[g.controllers[i]] = k
                 /\ Controller(g.controllers[i])
                 /\ stamp[g.controllers[i]] > 0
                 /\ g.controllers[i] # s[1]
      <4>1. i \in 1 .. Len(s) - 1 /\ g.controllers[i] = s[i + 1]
        BY <2>1, <2>2
      <4>2. stamp[s[1]] < stamp[s[i + 1]] /\ stamp[s[1]] \in Nat
        BY <4>1, <2>3, <2>5 DEF QueueOK, InOrder
      <4> QED BY <4>1, <4>2, <2>5 DEF QueueOK, PlacedIn
    <3>3. q.interactive # None => q.interactive # s[1]
      BY <3>1 DEF QueueOK, PlacedIn, Interactive, Controller
    <3> QED BY <3>1, <3>2, <3>3, <2>1 DEF QueueOK, PlacedIn
  <2>7. InOrder(g, stamp)
    <3> SUFFICES ASSUME NEW i \in 1 .. Len(Tail(s)), NEW j \in 1 .. Len(Tail(s)),
                        i < j
                 PROVE  stamp[Tail(s)[i]] < stamp[Tail(s)[j]]
      BY <2>1 DEF InOrder
    <3>1. i + 1 \in 1 .. Len(s) /\ j + 1 \in 1 .. Len(s) /\ i + 1 < j + 1
      BY <2>2, <1>1
    <3>2. stamp[s[i + 1]] < stamp[s[j + 1]]
      BY <3>1 DEF QueueOK, InOrder
    <3> QED BY <3>2, <2>2
  <2>8. NewestIn(k, g, stamp)
    BY <2>1 DEF QueueOK, NewestIn
  <2> QED BY <2>4, <2>6, <2>7, <2>8 DEF QueueOK
<1>3. CASE s = <<>>
  <2>1. /\ g \in KeyQueue
        /\ g.running = q.interactive /\ g.interactive = None
        /\ g.controllers = s
    BY <1>3 DEF Granted, QueueOK, KeyQueue
  <2>2. Len(s) = 0 /\ 1 .. Len(s) = {}
    BY <1>1, <1>3, EmptySeq
  <2> QED BY <2>1, <2>2 DEF QueueOK, PlacedIn, InOrder, NewestIn
<1> QED BY <1>2, <1>3

(* Starting a target and finishing its running request both end in a grant. *)
LEMMA StartedOK ==
    ASSUME NEW k \in Key, NEW q, NEW stamp \in [Request -> Nat],
           QueueOK(k, q, stamp)
    PROVE  QueueOK(k, Started(q), stamp)
BY GrantedOK DEF Started

LEMMA FinishedOK ==
    ASSUME NEW k \in Key, NEW q, NEW stamp \in [Request -> Nat],
           QueueOK(k, q, stamp), NEW r \in Request
    PROVE  QueueOK(k, Finished(q, r), stamp)
BY GrantedOK DEF Finished

(* Cancelling a request that waits keeps the order of the ones behind it.  *)
LEMMA WithoutPendingOK ==
    ASSUME NEW k \in Key, NEW q, NEW stamp \in [Request -> Nat],
           QueueOK(k, q, stamp), NEW r \in Request
    PROVE  QueueOK(k, WithoutPending(q, r), stamp)
<1> DEFINE s == q.controllers
           w == WithoutPending(q, r)
<1>1. s \in Seq(Request) /\ Len(s) \in Nat
  BY LenProperties DEF QueueOK, KeyQueue
<1>2. CASE q.interactive = r
  <2>1. w = [q EXCEPT !.interactive = None]
    BY <1>2 DEF WithoutPending
  <2> QED BY <2>1 DEF QueueOK, KeyQueue, PlacedIn, InOrder, NewestIn
<1>3. CASE q.interactive # r /\ r \in Range(s)
  <2> DEFINE p == PositionOf(q, r)
             t == RemoveAt(s, p)
  <2>1. p \in 1 .. Len(s)
    <3>1. \E i \in 1 .. Len(s) : s[i] = r
      BY <1>1, <1>3, LenProperties DEF Range
    <3> QED BY <3>1 DEF PositionOf
  <2>2. /\ t \in Seq(Request) /\ Len(t) = Len(s) - 1
        /\ \A j \in 1 .. Len(s) - 1 : t[j] = IF j < p THEN s[j] ELSE s[j + 1]
    BY <1>1, <2>1, RemoveAtProperties
  <2>3. w = [q EXCEPT !.controllers = t]
    BY <1>3 DEF WithoutPending
  <2> HIDE DEF p, t
  <2>4. /\ w \in KeyQueue
        /\ w.running = q.running /\ w.interactive = q.interactive
        /\ w.controllers = t
    BY <2>2, <2>3 DEF QueueOK, KeyQueue
  <2>5. ASSUME NEW j \in 1 .. Len(t)
        PROVE  \E i \in 1 .. Len(s) :
                 t[j] = s[i] /\ (j < p => i = j) /\ (~(j < p) => i = j + 1)
    <3>1. j \in 1 .. Len(s) - 1 /\ p \in Int /\ Len(s) \in Int
      BY <1>1, <2>1, <2>2
    <3>2. j \in 1 .. Len(s) /\ j + 1 \in 1 .. Len(s)
      BY <3>1
    <3>3. t[j] = IF j < p THEN s[j] ELSE s[j + 1]
      BY <3>1, <2>2
    <3>4. CASE j < p
      BY <3>2, <3>3, <3>4
    <3>5. CASE ~(j < p)
      BY <3>2, <3>3, <3>5
    <3> QED BY <3>4, <3>5
  <2>6. PlacedIn(k, w, stamp)
    <3>1. ASSUME NEW j \in 1 .. Len(t)
          PROVE  /\ KeyOf[t[j]] = k /\ Controller(t[j])
                 /\ stamp[t[j]] > 0 /\ t[j] # q.running
      BY <2>5 DEF QueueOK, PlacedIn
    <3> QED BY <3>1, <2>4 DEF QueueOK, PlacedIn
  <2>7. InOrder(w, stamp)
    <3> SUFFICES ASSUME NEW i \in 1 .. Len(t), NEW j \in 1 .. Len(t), i < j
                 PROVE  stamp[t[i]] < stamp[t[j]]
      BY <2>4 DEF InOrder
    <3>1. PICK a \in 1 .. Len(s) :
            t[i] = s[a] /\ (i < p => a = i) /\ (~(i < p) => a = i + 1)
      BY <2>5
    <3>2. PICK b \in 1 .. Len(s) :
            t[j] = s[b] /\ (j < p => b = j) /\ (~(j < p) => b = j + 1)
      BY <2>5
    <3>3. a < b
      <4>1. p \in Int /\ i \in Int /\ j \in Int
        BY <2>1, <2>2, <1>1
      <4>2. (i < p => a = i) /\ (~(i < p) => a = i + 1)
        BY <3>1
      <4>3. (j < p => b = j) /\ (~(j < p) => b = j + 1)
        BY <3>2
      <4> QED BY <4>1, <4>2, <4>3
    <3> QED BY <3>1, <3>2, <3>3 DEF QueueOK, InOrder
  <2>8. NewestIn(k, w, stamp)
    BY <2>4 DEF QueueOK, NewestIn
  <2> QED BY <2>4, <2>6, <2>7, <2>8 DEF QueueOK
<1>4. CASE q.interactive # r /\ r \notin Range(s)
  BY <1>4 DEF WithoutPending
<1> QED BY <1>2, <1>3, <1>4

(* A request stamped above every earlier one joins its target's queue.     *)
LEMMA EnqueuedOK ==
    ASSUME NEW q, NEW stamp \in [Request -> Nat], NEW r \in Request,
           NEW n \in Nat, stamp[r] = 0,
           \A x \in Request : stamp[x] <= n,
           QueueOK(KeyOf[r], q, stamp)
    PROVE  QueueOK(KeyOf[r], Enqueued(q, r), [stamp EXCEPT ![r] = n + 1])
<1> DEFINE k == KeyOf[r]
           new == [stamp EXCEPT ![r] = n + 1]
           s == q.controllers
           e == Enqueued(q, r)
<1> USE BuildQueueAssumption
<1>1. s \in Seq(Request) /\ Len(s) \in Nat /\ r # None
  BY LenProperties DEF QueueOK, KeyQueue
<1>2. /\ new \in [Request -> Nat] /\ new[r] = n + 1
      /\ \A x \in Request : x # r => new[x] = stamp[x]
  OBVIOUS
<1>3. \A i \in 1 .. Len(s) : s[i] \in Request /\ s[i] # r
  <2> SUFFICES ASSUME NEW i \in 1 .. Len(s) PROVE s[i] \in Request /\ s[i] # r
    OBVIOUS
  <2>1. s[i] \in Request
    BY <1>1, ElementOfSeq
  <2>2. stamp[s[i]] > 0
    BY DEF QueueOK, PlacedIn
  <2> QED BY <2>1, <2>2
<1>4. /\ q.running \in Request \cup {None} /\ q.running # r
      /\ q.interactive \in Request \cup {None} /\ q.interactive # r
  BY <1>1 DEF QueueOK, KeyQueue, PlacedIn
<1>5. PlacedIn(k, q, new) /\ InOrder(q, new)
  <2>1. PlacedIn(k, q, new)
    BY <1>2, <1>3, <1>4 DEF QueueOK, PlacedIn
  <2>2. InOrder(q, new)
    BY <1>2, <1>3 DEF QueueOK, InOrder
  <2> QED BY <2>1, <2>2
<1>6. CASE Controller(r)
  <2> DEFINE t == Append(s, r)
  <2>1. /\ t \in Seq(Request) /\ Len(t) = Len(s) + 1
        /\ \A i \in 1 .. Len(s) : t[i] = s[i]
        /\ t[Len(s) + 1] = r
    BY <1>1, AppendProperties
  <2>2. /\ e \in KeyQueue
        /\ e.running = q.running /\ e.interactive = q.interactive
        /\ e.controllers = t
    BY <1>6, <2>1 DEF Enqueued, QueueOK, KeyQueue
  <2> HIDE DEF t
  <2>3. \A i \in 1 .. Len(t) : i \in 1 .. Len(s) \/ i = Len(s) + 1
    BY <2>1, <1>1
  <2>4. PlacedIn(k, e, new)
    <3>1. ASSUME NEW i \in 1 .. Len(t)
          PROVE  /\ KeyOf[t[i]] = k /\ Controller(t[i])
                 /\ new[t[i]] > 0 /\ t[i] # q.running
      <4>1. CASE i \in 1 .. Len(s)
        BY <4>1, <2>1, <1>5 DEF PlacedIn
      <4>2. CASE i = Len(s) + 1
        <5>1. t[i] = r
          BY <4>2, <2>1
        <5>2. new[r] > 0
          BY <1>2
        <5> QED BY <5>1, <5>2, <1>4, <1>6
      <4> QED BY <4>1, <4>2, <2>3
    <3> QED BY <3>1, <2>2, <1>5 DEF PlacedIn
  <2>5. InOrder(e, new)
    <3> SUFFICES ASSUME NEW i \in 1 .. Len(t), NEW j \in 1 .. Len(t), i < j
                 PROVE  new[t[i]] < new[t[j]]
      BY <2>2 DEF InOrder
    <3>1. i \in 1 .. Len(s)
      BY <2>1, <2>3, <1>1
    <3>2. CASE j \in 1 .. Len(s)
      BY <3>1, <3>2, <2>1, <1>5 DEF InOrder
    <3>3. CASE j = Len(s) + 1
      <4>1. t[i] = s[i] /\ t[j] = r /\ s[i] \in Request /\ s[i] # r
        BY <3>1, <3>3, <2>1, <1>3
      <4>2. new[s[i]] \in Nat /\ new[s[i]] <= n
        BY <4>1, <1>2
      <4> QED BY <4>1, <4>2, <1>2
    <3> QED BY <2>3, <3>2, <3>3
  <2>6. NewestIn(k, e, new)
    <3> SUFFICES ASSUME q.interactive # None, NEW x \in Request,
                        KeyOf[x] = k, Interactive(x)
                 PROVE  new[x] <= new[q.interactive]
      BY <2>2 DEF NewestIn
    <3>1. x # r
      BY <1>6 DEF Interactive, Controller
    <3> QED BY <3>1, <1>2, <1>4 DEF QueueOK, NewestIn
  <2> QED BY <2>2, <2>4, <2>5, <2>6 DEF QueueOK
<1>7. CASE ~Controller(r)
  <2>1. Interactive(r)
    BY <1>7 DEF Interactive, Controller, Kinds
  <2>2. /\ e \in KeyQueue
        /\ e.running = q.running /\ e.interactive = r
        /\ e.controllers = s
    BY <1>7 DEF Enqueued, QueueOK, KeyQueue
  <2>3. PlacedIn(k, e, new)
    BY <2>1, <2>2, <1>2, <1>4, <1>5 DEF PlacedIn
  <2>4. InOrder(e, new)
    BY <2>2, <1>5 DEF InOrder
  <2>5. NewestIn(k, e, new)
    <3>1. \A x \in Request : new[x] <= n + 1
      BY <1>2
    <3> QED BY <3>1, <2>2, <1>2 DEF NewestIn
  <2> QED BY <2>2, <2>3, <2>4, <2>5 DEF QueueOK
<1> QED BY <1>6, <1>7

-----------------------------------------------------------------------------
LEMMA InitIInv == QueueInit => IInv
<1> SUFFICES ASSUME QueueInit PROVE IInv
  OBVIOUS
<1>1. /\ EmptyQueue \in KeyQueue /\ EmptyQueue.running = None
      /\ EmptyQueue.interactive = None /\ Len(EmptyQueue.controllers) = 0
  BY EmptySeq DEF EmptyQueue, KeyQueue
<1>2. TypeOK
  BY <1>1 DEF QueueInit, TypeOK
<1>3. \A k \in Key : queue[k] = EmptyQueue
  BY DEF QueueInit
<1>4. PlacedOnce /\ ControllersInOrder /\ LatestInteractiveWaits
  BY <1>1, <1>3 DEF PlacedOnce, PlacedIn, ControllersInOrder, InOrder,
                    LatestInteractiveWaits, NewestIn
<1>5. StampsDistinct
  BY DEF QueueInit, StampsDistinct
<1> QED BY <1>2, <1>4, <1>5 DEF IInv

(* The invariant, target by target. *)
LEMMA IInvByQueue ==
    IInv <=> /\ queue \in [Key -> KeyQueue]
             /\ sequence \in [Request -> Nat]
             /\ nextSequence \in Nat
             /\ StampsDistinct
             /\ \A k \in Key : QueueOK(k, queue[k], sequence)
BY DEF IInv, TypeOK, PlacedOnce, ControllersInOrder, LatestInteractiveWaits,
       QueueOK

(* A step that only rewrites one target's queue. *)
LEMMA QueueStep ==
    ASSUME IInv, NEW k \in Key, NEW q, QueueOK(k, q, sequence),
           queue' = [queue EXCEPT ![k] = q],
           UNCHANGED <<sequence, nextSequence>>
    PROVE  IInv'
<1>1. /\ queue' \in [Key -> KeyQueue]
      /\ \A x \in Key : QueueOK(x, queue'[x], sequence')
  BY IInvByQueue DEF QueueOK
<1>2. TypeOK' /\ StampsDistinct'
  BY <1>1, IInvByQueue DEF TypeOK, StampsDistinct
<1> QED BY <1>1, <1>2 DEF IInv, PlacedOnce, ControllersInOrder,
                          LatestInteractiveWaits, QueueOK

(* A step that stamps a request and rewrites its target's queue.  *)
LEMMA SubmitStep ==
    ASSUME IInv, NEW r \in Request, Stamp(r),
           NEW q, QueueOK(KeyOf[r], q, sequence'),
           queue' = [queue EXCEPT ![KeyOf[r]] = q]
    PROVE  IInv'
<1> DEFINE k == KeyOf[r]
<1> USE BuildQueueAssumption
<1>1. /\ k \in Key /\ sequence[r] = 0
      /\ sequence \in [Request -> Nat] /\ nextSequence \in Nat
      /\ \A x \in Request : sequence[x] <= nextSequence
      /\ \A x \in Key : QueueOK(x, queue[x], sequence)
  BY IInvByQueue DEF Stamp, Unsubmitted, StampsDistinct
<1>2. /\ sequence' = [sequence EXCEPT ![r] = nextSequence + 1]
      /\ nextSequence' = nextSequence + 1
  BY DEF Stamp
<1>3. ASSUME NEW x \in Key, x # k
      PROVE  QueueOK(x, queue[x], sequence')
  <2>1. /\ queue[x] \in KeyQueue /\ queue[x].controllers \in Seq(Request)
        /\ PlacedIn(x, queue[x], sequence) /\ InOrder(queue[x], sequence)
        /\ NewestIn(x, queue[x], sequence)
    BY <1>1 DEF QueueOK, KeyQueue
  <2>2. \A y \in Request : KeyOf[y] = x => sequence'[y] = sequence[y]
    BY <1>1, <1>2, <1>3
  <2>3. \A i \in 1 .. Len(queue[x].controllers) :
           /\ queue[x].controllers[i] \in Request
           /\ KeyOf[queue[x].controllers[i]] = x
    BY <2>1, ElementOfSeq DEF PlacedIn
  <2>4. PlacedIn(x, queue[x], sequence')
    BY <2>1, <2>2, <2>3 DEF PlacedIn, KeyQueue
  <2>5. InOrder(queue[x], sequence')
    BY <2>1, <2>2, <2>3 DEF InOrder
  <2>6. NewestIn(x, queue[x], sequence')
    BY <2>1, <2>2 DEF NewestIn, KeyQueue, PlacedIn
  <2> QED BY <2>1, <2>4, <2>5, <2>6 DEF QueueOK
<1>4. \A x \in Key : QueueOK(x, queue'[x], sequence')
  BY <1>1, <1>3, IInvByQueue
<1>5. TypeOK'
  BY <1>1, <1>2, IInvByQueue DEF TypeOK, QueueOK
<1>6. StampsDistinct'
  BY <1>1, <1>2, IInvByQueue DEF StampsDistinct
<1> QED BY <1>4, <1>5, <1>6 DEF IInv, PlacedOnce, ControllersInOrder,
                                LatestInteractiveWaits, QueueOK

LEMMA NextIInv == IInv /\ [QueueNext]_queueVars => IInv'
<1> SUFFICES ASSUME IInv, [QueueNext]_queueVars PROVE IInv'
  OBVIOUS
<1> USE BuildQueueAssumption
<1>1. ASSUME NEW r \in Request, Submit(r) PROVE IInv'
  <2>1. /\ KeyOf[r] \in Key /\ sequence[r] = 0
        /\ sequence \in [Request -> Nat] /\ nextSequence \in Nat
        /\ \A x \in Request : sequence[x] <= nextSequence
        /\ QueueOK(KeyOf[r], queue[KeyOf[r]], sequence)
        /\ sequence' = [sequence EXCEPT ![r] = nextSequence + 1]
    BY <1>1, IInvByQueue DEF Submit, Stamp, Unsubmitted, StampsDistinct
  <2>2. QueueOK(KeyOf[r], Enqueued(queue[KeyOf[r]], r), sequence')
    BY <2>1, EnqueuedOK
  <2> QED BY <1>1, <2>2, SubmitStep DEF Submit
<1>2. ASSUME NEW r \in Request, Finish(r) PROVE IInv'
  <2>1. KeyOf[r] \in Key /\ QueueOK(KeyOf[r], queue[KeyOf[r]], sequence)
    BY IInvByQueue
  <2>2. QueueOK(KeyOf[r], Finished(queue[KeyOf[r]], r), sequence)
    BY <2>1, FinishedOK, IInvByQueue
  <2> QED BY <1>2, <2>1, <2>2, QueueStep DEF Finish
<1>3. ASSUME NEW r \in Request, RemovePending(r) PROVE IInv'
  <2>1. KeyOf[r] \in Key /\ QueueOK(KeyOf[r], queue[KeyOf[r]], sequence)
    BY IInvByQueue
  <2>2. QueueOK(KeyOf[r], WithoutPending(queue[KeyOf[r]], r), sequence)
    BY <2>1, WithoutPendingOK, IInvByQueue
  <2> QED BY <1>3, <2>1, <2>2, QueueStep DEF RemovePending
<1>4. ASSUME NEW k \in Key, StartNext(k) PROVE IInv'
  <2>1. QueueOK(k, Started(queue[k]), sequence)
    BY StartedOK, IInvByQueue
  <2> QED BY <1>4, <2>1, QueueStep DEF StartNext
<1>5. CASE UNCHANGED queueVars
  BY <1>5 DEF queueVars, IInv, TypeOK, PlacedOnce, ControllersInOrder,
              LatestInteractiveWaits, StampsDistinct
<1> QED BY <1>1, <1>2, <1>3, <1>4, <1>5 DEF QueueNext

(* For every number of targets and requests: the queue keeps its types, its *)
(* stamps, every request in at most one place, controllers in submission    *)
(* order and the newest interactive request in the interactive slot.        *)
THEOREM BuildQueueInvariant == QueueSpec => []IInv
BY InitIInv, NextIInv, PTL DEF QueueSpec

(* No request of any target is ever held twice or by another target. *)
THEOREM RequestsPlacedOnce == QueueSpec => []PlacedOnce
<1>1. IInv => PlacedOnce
  BY DEF IInv
<1> QED BY <1>1, BuildQueueInvariant, PTL

(* Interactive work is latest-wins for any history of calls. *)
THEOREM InteractiveIsLatest == QueueSpec => []LatestInteractiveWaits
<1>1. IInv => LatestInteractiveWaits
  BY DEF IInv
<1> QED BY <1>1, BuildQueueInvariant, PTL

-----------------------------------------------------------------------------
(* BuildQueue implements BuildTurns: each method of the queue is a step of *)
(* the promise, or none.  The proof describes what each method does to the *)
(* set of waiting requests of one target, then reads the statuses off it.  *)

(* StatusOf, of a given queue and stamps. *)
StatusIn(q, stamp, r) ==
    IF stamp[r] = 0 THEN "new"
    ELSE IF q.running = r THEN "running"
    ELSE IF r \in Waiting(q) THEN "waiting"
    ELSE "gone"

(* No waiting controller of q comes before r. *)
FirstIn(q, stamp, r) ==
    \A x \in Waiting(q) \ {r} :
      Controller(x) => Controller(r) /\ stamp[r] < stamp[x]

-----------------------------------------------------------------------------
(* Members of a valid queue are stamped, of its target, and in one place;  *)
(* the interactive slot holds the only interactive request that waits.     *)
LEMMA MembersOK ==
    ASSUME NEW k \in Key, NEW q, NEW stamp \in [Request -> Nat], QueueOK(k, q, stamp)
    PROVE  /\ q.running # None => /\ q.running \in Request /\ KeyOf[q.running] = k
                                  /\ stamp[q.running] > 0
           /\ \A x \in Waiting(q) : /\ x \in Request /\ KeyOf[x] = k
                                    /\ stamp[x] > 0 /\ x # q.running
           /\ \A x \in Waiting(q) : Interactive(x) <=> x = q.interactive
           /\ \A x \in Range(q.controllers) : x \in Request /\ Controller(x)
<1> DEFINE s == q.controllers
<1>1. /\ q \in KeyQueue /\ s \in Seq(Request) /\ Len(s) \in Nat
      /\ q.running \in Request \cup {None}
      /\ q.interactive \in Request \cup {None}
  BY LenProperties DEF QueueOK, KeyQueue
<1>2. ASSUME NEW x \in Range(s)
      PROVE  /\ x \in Request /\ KeyOf[x] = k /\ Controller(x)
             /\ stamp[x] > 0 /\ x # q.running
  <2>1. PICK i \in 1 .. Len(s) : x = s[i]
    BY <1>1, LenProperties DEF Range
  <2> QED BY <2>1, <1>1, ElementOfSeq DEF QueueOK, PlacedIn
<1>3. q.interactive # None =>
        /\ q.interactive \in Request /\ KeyOf[q.interactive] = k
        /\ Interactive(q.interactive)
        /\ stamp[q.interactive] > 0 /\ q.interactive # q.running
  BY <1>1 DEF QueueOK, PlacedIn
<1>4. \A x \in Waiting(q) : x \in Range(s) \/ (x = q.interactive /\ x # None)
  BY DEF Waiting
<1>5. q.running # None => /\ q.running \in Request /\ KeyOf[q.running] = k
                          /\ stamp[q.running] > 0
  BY <1>1 DEF QueueOK, PlacedIn
<1>6. \A x \in Waiting(q) : Interactive(x) <=> x = q.interactive
  <2>1. \A x \in Range(s) : ~Interactive(x) /\ (q.interactive # None => x # q.interactive)
    BY <1>2, <1>3 DEF Interactive, Controller
  <2>2. \A x \in Range(s) : x # None
    BY <1>2, BuildQueueAssumption
  <2> QED BY <2>1, <2>2, <1>3, <1>4
<1> QED BY <1>2, <1>3, <1>4, <1>5, <1>6

(* A grant takes exactly the request whose turn it is. *)
LEMMA GrantTakesFirst ==
    ASSUME NEW k \in Key, NEW q, NEW stamp \in [Request -> Nat], QueueOK(k, q, stamp)
    PROVE  LET g == Granted(q)
           IN  /\ g.running = None => Waiting(q) = {} /\ Waiting(g) = {}
               /\ g.running # None =>
                    /\ g.running \in Waiting(q)
                    /\ FirstIn(q, stamp, g.running)
                    /\ Waiting(g) = Waiting(q) \ {g.running}
<1> DEFINE s == q.controllers
           g == Granted(q)
<1> USE BuildQueueAssumption
<1>1. /\ q \in KeyQueue /\ s \in Seq(Request) /\ Len(s) \in Nat
      /\ q.interactive \in Request \cup {None}
      /\ \A i, j \in 1 .. Len(s) : i < j => stamp[s[i]] < stamp[s[j]]
      /\ \A i \in 1 .. Len(s) : s[i] \in Request /\ Controller(s[i])
      /\ q.interactive # None => Interactive(q.interactive)
  BY LenProperties, ElementOfSeq DEF QueueOK, KeyQueue, PlacedIn, InOrder
<1>2. CASE s # <<>>
  <2>1. /\ g.running = s[1] /\ g.interactive = q.interactive
        /\ g.controllers = Tail(s)
    BY <1>1, <1>2, HeadTailProperties DEF Granted, KeyQueue
  <2>2. 1 \in 1 .. Len(s) /\ s[1] \in Request /\ s[1] \in Range(s) /\ Controller(s[1])
    BY <1>1, <1>2, EmptySeq, LenProperties DEF Range
  <2>3. /\ Tail(s) \in Seq(Request) /\ Len(Tail(s)) = Len(s) - 1
        /\ \A i \in 1 .. Len(s) - 1 : Tail(s)[i] = s[i + 1]
    BY <1>1, <1>2, HeadTailProperties
  <2>4. ASSUME NEW x \in Range(s) \ {s[1]}
        PROVE  x \in Range(Tail(s)) /\ stamp[s[1]] < stamp[x]
    <3>1. PICK i \in 1 .. Len(s) : x = s[i] /\ i # 1
      BY <2>4, <1>1, LenProperties DEF Range
    <3>2. i - 1 \in 1 .. Len(s) - 1 /\ 1 < i /\ (i - 1) + 1 = i
      BY <3>1, <1>1
    <3>3. Tail(s)[i - 1] = x /\ i - 1 \in 1 .. Len(Tail(s))
      BY <3>1, <3>2, <2>3
    <3>4. stamp[s[1]] < stamp[x]
      BY <3>1, <3>2, <2>2, <1>1
    <3> QED BY <3>3, <3>4, <2>3, LenProperties DEF Range
  <2>5. ASSUME NEW x \in Range(Tail(s))
        PROVE  x \in Range(s) \ {s[1]}
    <3>1. PICK i \in 1 .. Len(s) - 1 : x = s[i + 1]
      BY <2>3, LenProperties DEF Range
    <3>2. i + 1 \in 1 .. Len(s) /\ 1 < i + 1
      BY <3>1, <1>1
    <3>3. stamp[s[1]] < stamp[x] /\ stamp[s[1]] \in Nat
      BY <3>1, <3>2, <2>2, <1>1
    <3>4. x \in Range(s)
      BY <3>1, <3>2, <1>1, LenProperties DEF Range
    <3>5. x # s[1]
      BY <3>3
    <3> QED BY <3>4, <3>5
  <2>6. q.interactive # s[1]
    BY <2>2, <1>1 DEF Interactive, Controller
  <2>7. Waiting(g) = Waiting(q) \ {s[1]}
    <3>1. Range(Tail(s)) = Range(s) \ {s[1]}
      BY <2>4, <2>5
    <3> QED BY <3>1, <2>1, <2>6 DEF Waiting
  <2>8. FirstIn(q, stamp, s[1])
    BY <2>2, <2>4, <1>1 DEF FirstIn, Waiting, Interactive, Controller
  <2> QED BY <2>1, <2>2, <2>7, <2>8 DEF Waiting
<1>3. CASE s = <<>>
  <2>1. /\ g.running = q.interactive /\ g.interactive = None /\ g.controllers = <<>>
    BY <1>3, <1>1 DEF Granted, KeyQueue
  <2>2. Range(s) = {}
    BY <1>3 DEF Range
  <2>3. Waiting(q) = {q.interactive} \ {None} /\ Waiting(g) = {}
    BY <2>1, <2>2, <1>3 DEF Waiting
  <2> QED BY <2>1, <2>3 DEF FirstIn
<1> QED BY <1>2, <1>3

(* Removing a request takes it out of the waiting ones and nobody else. *)
LEMMA RemoveTakesOne ==
    ASSUME NEW k \in Key, NEW q, NEW stamp \in [Request -> Nat], QueueOK(k, q, stamp),
           NEW r \in Request
    PROVE  /\ WithoutPending(q, r).running = q.running
           /\ Waiting(WithoutPending(q, r)) = Waiting(q) \ {r}
           /\ r \notin Waiting(q) => WithoutPending(q, r) = q
<1> DEFINE s == q.controllers
           w == WithoutPending(q, r)
<1> USE BuildQueueAssumption
<1>1. /\ q \in KeyQueue /\ s \in Seq(Request) /\ Len(s) \in Nat
      /\ q.interactive \in Request \cup {None}
      /\ \A i, j \in 1 .. Len(s) : i < j => stamp[s[i]] < stamp[s[j]]
      /\ \A i \in 1 .. Len(s) : s[i] \in Request /\ Controller(s[i])
      /\ q.interactive # None => Interactive(q.interactive)
  BY LenProperties, ElementOfSeq DEF QueueOK, KeyQueue, PlacedIn, InOrder
<1>2. \A x \in Range(s) : \E i \in 1 .. Len(s) : x = s[i]
  BY <1>1, LenProperties DEF Range
<1>3. CASE q.interactive = r
  <2>1. w = [q EXCEPT !.interactive = None]
    BY <1>3 DEF WithoutPending
  <2>2. r \notin Range(s)
    BY <1>1, <1>2, <1>3 DEF Interactive, Controller
  <2> QED BY <2>1, <2>2, <1>1, <1>3 DEF Waiting, KeyQueue
<1>4. CASE q.interactive # r /\ r \in Range(s)
  <2> DEFINE p == PositionOf(q, r)
             t == RemoveAt(s, p)
  <2>1. p \in 1 .. Len(s) /\ s[p] = r
    BY <1>2, <1>4 DEF PositionOf
  <2>2. w = [q EXCEPT !.controllers = t]
    BY <1>4 DEF WithoutPending
  <2>3. /\ t \in Seq(Request) /\ Len(t) = Len(s) - 1
        /\ \A j \in 1 .. Len(s) - 1 : t[j] = IF j < p THEN s[j] ELSE s[j + 1]
    <3>1. s \in Seq(Request) /\ p \in 1 .. Len(s)
      BY <1>1, <2>1
    <3> QED BY <3>1, RemoveAtProperties
  <2> HIDE DEF p, t
  <2>4. ASSUME NEW x \in Range(s) \ {r} PROVE x \in Range(t)
    <3>1. PICK i \in 1 .. Len(s) : x = s[i]
      BY <2>4, <1>2
    <3>2. i # p
      BY <3>1, <2>1, <2>4
    <3>3. CASE i < p
      <4>1. i \in 1 .. Len(s) - 1
        BY <3>3, <2>1, <1>1
      <4>2. t[i] = x
        BY <4>1, <3>3, <3>1, <2>3
      <4>3. i \in DOMAIN t
        BY <4>1, <2>3, LenProperties
      <4> QED BY <4>2, <4>3 DEF Range
    <3>4. CASE p < i
      <4>1. i - 1 \in 1 .. Len(s) - 1 /\ ~(i - 1 < p) /\ (i - 1) + 1 = i
        BY <3>4, <3>1, <2>1, <1>1
      <4>2. t[i - 1] = x
        BY <4>1, <3>1, <2>3
      <4>3. i - 1 \in DOMAIN t
        BY <4>1, <2>3, LenProperties
      <4> QED BY <4>2, <4>3 DEF Range
    <3> QED BY <3>2, <3>3, <3>4, <2>1, <1>1
  <2>5. ASSUME NEW x \in Range(t) PROVE x \in Range(s) \ {r}
    <3>1. PICK j \in 1 .. Len(s) - 1 : x = t[j]
      <4>1. DOMAIN t = 1 .. Len(s) - 1
        BY <2>3, LenProperties
      <4> QED BY <2>5, <4>1 DEF Range
    <3>2. PICK i \in 1 .. Len(s) : i # p /\ x = s[i]
      <4>1. CASE j < p
        <5>1. j \in 1 .. Len(s) /\ j # p
          BY <4>1, <2>1, <1>1
        <5>2. x = s[j]
          BY <4>1, <3>1, <2>3
        <5> QED BY <5>1, <5>2
      <4>2. CASE ~(j < p)
        <5>1. j + 1 \in 1 .. Len(s) /\ j + 1 # p /\ x = s[j + 1]
          BY <4>2, <3>1, <2>1, <2>3, <1>1
        <5> QED BY <5>1
      <4> QED BY <4>1, <4>2
    <3>3. s[i] # s[p]
      <4>1. CASE i < p
        BY <4>1, <2>1, <1>1
      <4>2. CASE p < i
        BY <4>2, <2>1, <1>1
      <4>3. i < p \/ p < i
        <5>1. i \in Int /\ p \in Int /\ i # p
          BY <3>2, <2>1
        <5> QED BY <5>1
      <4> QED BY <4>1, <4>2, <4>3
    <3> QED BY <3>2, <3>3, <2>1, <1>1, LenProperties DEF Range
  <2>6. Range(t) = Range(s) \ {r}
    BY <2>4, <2>5
  <2>7. r \in Waiting(q) /\ w.running = q.running /\ w.interactive = q.interactive
        /\ w.controllers = t
    BY <2>2, <1>1, <1>4 DEF Waiting, KeyQueue
  <2> QED BY <2>6, <2>7, <1>4 DEF Waiting
<1>5. CASE q.interactive # r /\ r \notin Range(s)
  BY <1>5 DEF WithoutPending, Waiting
<1> QED BY <1>3, <1>4, <1>5

(* A submission adds the request and drops the interactive one it replaces. *)
LEMMA SubmitAddsOne ==
    ASSUME NEW k \in Key, NEW q, NEW stamp \in [Request -> Nat], QueueOK(k, q, stamp),
           NEW r \in Request, stamp[r] = 0
    PROVE  /\ Enqueued(q, r).running = q.running
           /\ Waiting(Enqueued(q, r)) = (Waiting(q) \ {Superseded(q, r)}) \cup {r}
<1> DEFINE s == q.controllers
<1> USE BuildQueueAssumption
<1>1. /\ q \in KeyQueue /\ s \in Seq(Request) /\ Len(s) \in Nat
      /\ q.interactive \in Request \cup {None}
      /\ q.interactive # None => Interactive(q.interactive)
      /\ \A x \in Range(s) : x \in Request /\ Controller(x)
  BY MembersOK, LenProperties DEF QueueOK, KeyQueue, PlacedIn
<1>2. None \notin Range(s) /\ q.interactive \notin Range(s)
  BY <1>1 DEF Interactive, Controller
<1>3. CASE Controller(r)
  <2>1. /\ Enqueued(q, r) = [q EXCEPT !.controllers = Append(s, r)]
        /\ Superseded(q, r) = None
    BY <1>3 DEF Enqueued, Superseded, Interactive, Controller
  <2>2. Range(Append(s, r)) = Range(s) \cup {r}
    <3>1. /\ Append(s, r) \in Seq(Request) /\ Len(Append(s, r)) = Len(s) + 1
          /\ \A i \in 1 .. Len(s) : Append(s, r)[i] = s[i]
          /\ Append(s, r)[Len(s) + 1] = r
      BY <1>1, AppendProperties
    <3>2. 1 .. Len(s) + 1 = (1 .. Len(s)) \cup {Len(s) + 1}
      BY <1>1
    <3>3. /\ DOMAIN s = 1 .. Len(s)
          /\ DOMAIN Append(s, r) = (1 .. Len(s)) \cup {Len(s) + 1}
      BY <3>1, <3>2, <1>1, LenProperties
    <3> QED BY <3>1, <3>3 DEF Range
  <2> QED BY <2>1, <2>2, <1>1, <1>2 DEF Waiting, KeyQueue
<1>4. CASE ~Controller(r)
  <2>1. /\ Enqueued(q, r) = [q EXCEPT !.interactive = r]
        /\ Superseded(q, r) = q.interactive
    BY <1>4 DEF Enqueued, Superseded, Interactive, Controller, Kinds
  <2>2. /\ Enqueued(q, r).running = q.running /\ Enqueued(q, r).interactive = r
        /\ Enqueued(q, r).controllers = s
    BY <2>1, <1>1 DEF KeyQueue
  <2>3. Waiting(Enqueued(q, r)) = Range(s) \cup {r}
    BY <2>2 DEF Waiting
  <2> QED BY <2>1, <2>2, <2>3, <1>2 DEF Waiting
<1> QED BY <1>3, <1>4

-----------------------------------------------------------------------------
(* The statuses *)

(* Each status is one fact about a valid queue. *)
LEMMA StatusFacts ==
    ASSUME NEW k \in Key, NEW q, NEW stamp \in [Request -> Nat], QueueOK(k, q, stamp),
           NEW r \in Request
    PROVE  /\ StatusIn(q, stamp, r) = "new" <=> stamp[r] = 0
           /\ StatusIn(q, stamp, r) = "running" <=> q.running = r
           /\ StatusIn(q, stamp, r) = "waiting" <=> r \in Waiting(q)
<1>1. /\ q.running = r => stamp[r] > 0
      /\ r \in Waiting(q) => stamp[r] > 0 /\ r # q.running
  BY MembersOK, BuildQueueAssumption
<1> QED BY <1>1 DEF StatusIn

(* A grant on a target makes the request whose turn it is run, or leaves   *)
(* every status as it was but that of the request that ran before.         *)
LEMMA GrantMapsToTurn ==
    ASSUME NEW k \in Key, NEW q, NEW stamp \in [Request -> Nat], QueueOK(k, q, stamp),
           NEW r \in Request
    PROVE  LET n == Granted(q).running
           IN  /\ n = None =>
                    /\ Waiting(q) = {}
                    /\ StatusIn(Granted(q), stamp, r) =
                         IF q.running = r THEN "gone" ELSE StatusIn(q, stamp, r)
               /\ n # None =>
                    /\ n \in Waiting(q) /\ n \in Request /\ KeyOf[n] = k /\ n # q.running
                    /\ FirstIn(q, stamp, n)
                    /\ StatusIn(Granted(q), stamp, r) =
                         IF r = n THEN "running"
                         ELSE IF q.running = r THEN "gone" ELSE StatusIn(q, stamp, r)
<1> USE BuildQueueAssumption
<1>1. /\ q.running = r => stamp[r] > 0
      /\ \A x \in Waiting(q) : x \in Request /\ KeyOf[x] = k /\ stamp[x] > 0 /\ x # q.running
  BY MembersOK
<1>2. CASE Granted(q).running = None
  <2>1. Waiting(q) = {} /\ Waiting(Granted(q)) = {}
    BY <1>2, GrantTakesFirst
  <2> QED BY <1>1, <1>2, <2>1 DEF StatusIn
<1>3. CASE Granted(q).running # None
  <2>1. /\ Granted(q).running \in Waiting(q)
        /\ FirstIn(q, stamp, Granted(q).running)
        /\ Waiting(Granted(q)) = Waiting(q) \ {Granted(q).running}
    BY <1>3, GrantTakesFirst
  <2> QED BY <1>1, <1>3, <2>1 DEF StatusIn
<1> QED BY <1>2, <1>3

(* What FirstIn says of a queue is what Turn says of the statuses. *)
LEMMA FirstIsTurn ==
    ASSUME IInv, NEW r \in Request, r \in Waiting(queue[KeyOf[r]]),
           FirstIn(queue[KeyOf[r]], sequence, r)
    PROVE  Turns!Turn(r)
<1> USE BuildQueueAssumption
<1> DEFINE q == queue[KeyOf[r]]
<1>1. /\ KeyOf[r] \in Key /\ sequence \in [Request -> Nat]
      /\ QueueOK(KeyOf[r], q, sequence)
  BY IInvByQueue
<1>2. StatusOf(r) = "waiting"
  BY <1>1, StatusFacts DEF StatusOf, StatusIn, Unsubmitted
<1>3. ASSUME NEW x \in Request, KeyOf[x] = KeyOf[r], x # r,
             StatusOf(x) = "waiting", KindOf[x] = "controller"
      PROVE  KindOf[r] = "controller" /\ sequence[r] < sequence[x]
  <2>1. x \in Waiting(q)
    BY <1>1, <1>3, StatusFacts DEF StatusOf, StatusIn, Unsubmitted
  <2> QED BY <2>1, <1>3 DEF FirstIn, Controller
<1> QED BY <1>2, <1>3 DEF Turns!Turn, Turns!Peers

(* The statuses before and after a step, of the target's queue. *)
LEMMA StatusBeforeAfter ==
    \A r \in Request :
      /\ StatusOf(r) = StatusIn(queue[KeyOf[r]], sequence, r)
      /\ StatusOf(r)' = StatusIn(queue'[KeyOf[r]], sequence', r)
BY DEF StatusOf, StatusIn, Unsubmitted

(* A step that rewrites one target's queue moves only its own requests. *)
LEMMA OthersKeepStatus ==
    ASSUME IInv, NEW k \in Key, NEW q, queue' = [queue EXCEPT ![k] = q],
           UNCHANGED sequence
    PROVE  \A x \in Request :
             StatusOf(x)' = IF KeyOf[x] = k THEN StatusIn(q, sequence, x) ELSE StatusOf(x)
BY StatusBeforeAfter, IInvByQueue, BuildQueueAssumption

-----------------------------------------------------------------------------
(* The steps *)

LEMMA SubmitArrives ==
    ASSUME IInv, NEW r \in Request, Submit(r)
    PROVE  Turns!Arrive(r)
<1> USE BuildQueueAssumption
<1> DEFINE k == KeyOf[r]
           q == queue[k]
           e == Enqueued(q, r)
<1>1. /\ k \in Key /\ sequence[r] = 0 /\ queue \in [Key -> KeyQueue]
      /\ sequence \in [Request -> Nat] /\ nextSequence \in Nat
      /\ \A x \in Key : QueueOK(x, queue[x], sequence)
      /\ sequence' = [sequence EXCEPT ![r] = nextSequence + 1]
      /\ nextSequence' = nextSequence + 1
      /\ queue' = [queue EXCEPT ![k] = e]
  BY IInvByQueue DEF Submit, Stamp, Unsubmitted
<1>2. /\ q.running # r /\ r \notin Waiting(q)
      /\ \A x \in Waiting(q) : /\ x \in Request /\ KeyOf[x] = k
                               /\ sequence[x] > 0 /\ x # q.running
                               /\ Interactive(x) <=> x = q.interactive
  BY <1>1, MembersOK
<1>3. /\ e.running = q.running
      /\ Waiting(e) = (Waiting(q) \ {Superseded(q, r)}) \cup {r}
  BY <1>1, SubmitAddsOne
<1>4. StatusOf(r) = "new"
  BY <1>1 DEF StatusOf, Unsubmitted
<1>5. ASSUME NEW x \in Request
      PROVE  StatusOf(x)' =
               IF x = r THEN "waiting"
               ELSE IF /\ StatusOf(x) = "waiting"
                       /\ x \in Turns!Peers(r)
                       /\ KindOf[r] = "interactive" /\ KindOf[x] = "interactive"
                 THEN "gone" ELSE StatusOf(x)
  <2>1. CASE x = r
    <3>1. queue'[KeyOf[x]] = e /\ sequence'[x] # 0
      BY <2>1, <1>1
    <3> QED BY <3>1, <2>1, <1>2, <1>3, StatusBeforeAfter DEF StatusIn
  <2>2. CASE x # r /\ KeyOf[x] # k
    <3>1. queue'[KeyOf[x]] = queue[KeyOf[x]] /\ sequence'[x] = sequence[x]
      BY <2>2, <1>1
    <3>2. StatusOf(x)' = StatusOf(x)
      BY <3>1, StatusBeforeAfter DEF StatusIn
    <3> QED BY <3>2, <2>2 DEF Turns!Peers
  <2>3. CASE x # r /\ KeyOf[x] = k
    <3>1. /\ StatusOf(x)' = StatusIn(e, sequence', x)
          /\ StatusOf(x) = StatusIn(q, sequence, x)
          /\ sequence'[x] = sequence[x]
      BY <2>3, <1>1, StatusBeforeAfter
    <3>2. StatusOf(x) = "waiting" <=> x \in Waiting(q)
      BY <3>1, <1>1, StatusFacts
    <3>3. x \in Turns!Peers(r)
      BY <2>3 DEF Turns!Peers
    <3>4. CASE x \in Waiting(q) /\ Interactive(r) /\ Interactive(x)
      <4>1. x = Superseded(q, r)
        BY <3>4, <1>2 DEF Superseded
      <4>2. sequence[x] # 0 /\ e.running # x /\ x \notin Waiting(e)
        BY <4>1, <3>4, <2>3, <1>1, <1>2, <1>3
      <4>3. StatusOf(x)' = "gone"
        BY <4>2, <3>1 DEF StatusIn
      <4> QED BY <4>3, <3>2, <3>3, <3>4, <2>3 DEF Interactive
    <3>5. CASE ~(x \in Waiting(q) /\ Interactive(r) /\ Interactive(x))
      <4>1. x \in Waiting(e) <=> x \in Waiting(q)
        <5>1. x \in Waiting(q) => x # Superseded(q, r)
          BY <3>5, <1>2 DEF Superseded
        <5> QED BY <5>1, <1>3, <2>3
      <4>2. StatusOf(x)' = StatusOf(x)
        BY <4>1, <3>1, <1>3 DEF StatusIn
      <4> QED BY <4>2, <3>2, <3>3, <3>5, <2>3 DEF Interactive
    <3> QED BY <3>4, <3>5
  <2> QED BY <2>1, <2>2, <2>3
<1> QED BY <1>1, <1>4, <1>5 DEF Turns!Arrive

(* start_next on an idle target is a start, or nothing when nobody waits. *)
LEMMA StartNextStarts ==
    ASSUME IInv, NEW k \in Key, StartNext(k)
    PROVE  (\E r \in Request : Turns!Start(r)) \/ UNCHANGED Turns!vars
<1> USE BuildQueueAssumption
<1> DEFINE q == queue[k]
           n == Granted(q).running
<1>1. /\ QueueOK(k, q, sequence) /\ sequence \in [Request -> Nat]
      /\ queue' = [queue EXCEPT ![k] = Started(q)]
      /\ UNCHANGED <<sequence, nextSequence>>
      /\ queue \in [Key -> KeyQueue] /\ q.running \in Request \cup {None}
  BY IInvByQueue DEF StartNext, KeyQueue
<1>2. ASSUME NEW x \in Request
      PROVE  StatusOf(x)' = IF KeyOf[x] = k THEN StatusIn(Started(q), sequence, x)
                            ELSE StatusOf(x)
  BY <1>1, OthersKeepStatus
<1>3. \A x \in Request : KeyOf[x] = k => StatusOf(x) = StatusIn(q, sequence, x)
  BY StatusBeforeAfter
<1>4. CASE q.running # None \/ n = None
  <2>1. ASSUME NEW x \in Request PROVE StatusOf(x)' = StatusOf(x)
    <3>1. CASE q.running # None
      BY <3>1, <1>2, <1>3 DEF Started
    <3>2. CASE q.running = None /\ n = None
      <4>1. StatusIn(Granted(q), sequence, x) = StatusIn(q, sequence, x)
        BY <3>2, <1>1, GrantMapsToTurn
      <4> QED BY <4>1, <3>2, <1>2, <1>3 DEF Started
    <3> QED BY <3>1, <3>2, <1>4
  <2> QED BY <2>1, <1>1 DEF Turns!vars
<1>5. CASE q.running = None /\ n # None
  <2>1. /\ n \in Waiting(q) /\ n \in Request /\ KeyOf[n] = k
        /\ FirstIn(q, sequence, n)
    <3>1. n \in Waiting(q) /\ FirstIn(q, sequence, n)
      BY <1>5, <1>1, GrantTakesFirst
    <3> QED BY <3>1, <1>1, MembersOK
  <2>2. Turns!Turn(n)
    BY <2>1, FirstIsTurn
  <2>3. Turns!Idle(k)
    <3> SUFFICES ASSUME NEW x \in Request, KeyOf[x] = k PROVE StatusOf(x) # "running"
      BY DEF Turns!Idle
    <3>1. StatusIn(q, sequence, x) # "running"
      BY <1>5, <1>1, StatusFacts
    <3> QED BY <3>1, <1>3
  <2>4. ASSUME NEW x \in Request
        PROVE  StatusOf(x)' = IF x = n THEN "running" ELSE StatusOf(x)
    <3>1. KeyOf[x] = k => StatusIn(Granted(q), sequence, x) =
                            IF x = n THEN "running" ELSE StatusIn(q, sequence, x)
      BY <1>5, <1>1, GrantMapsToTurn
    <3> QED BY <3>1, <2>1, <1>2, <1>3, <1>5 DEF Started
  <2>5. Turns!Start(n)
    BY <2>1, <2>2, <2>3, <2>4, <1>1 DEF Turns!Start
  <2> QED BY <2>1, <2>5
<1> QED BY <1>4, <1>5

(* finish by the owner is a departure with its hand-over; by anybody else, *)
(* nothing.                                                                *)
LEMMA FinishLeaves ==
    ASSUME IInv, NEW r \in Request, Finish(r)
    PROVE  Turns!Leave(r) \/ UNCHANGED Turns!vars
<1> USE BuildQueueAssumption
<1> DEFINE k == KeyOf[r]
           q == queue[k]
           n == Granted(q).running
<1>1. /\ k \in Key /\ QueueOK(k, q, sequence) /\ sequence \in [Request -> Nat]
      /\ queue' = [queue EXCEPT ![k] = Finished(q, r)]
      /\ UNCHANGED <<sequence, nextSequence>>
      /\ queue \in [Key -> KeyQueue]
  BY IInvByQueue DEF Finish
<1>2. ASSUME NEW x \in Request
      PROVE  StatusOf(x)' = IF KeyOf[x] = k THEN StatusIn(Finished(q, r), sequence, x)
                            ELSE StatusOf(x)
  BY <1>1, OthersKeepStatus
<1>3. \A x \in Request : KeyOf[x] = k => StatusOf(x) = StatusIn(q, sequence, x)
  BY StatusBeforeAfter
<1>4. CASE q.running # r
  <2>1. \A x \in Request : StatusOf(x)' = StatusOf(x)
    BY <1>4, <1>2, <1>3 DEF Finished
  <2> QED BY <2>1, <1>1 DEF Turns!vars
<1>5. CASE q.running = r
  <2>1. StatusOf(r) = "running"
    BY <1>5, <1>1, <1>3, StatusFacts
  <2>2. Finished(q, r) = Granted(q)
    BY <1>5 DEF Finished
  <2>3. CASE n = None
    <3>1. ASSUME NEW x \in Request
          PROVE  /\ StatusOf(x)' = IF x = r THEN "gone" ELSE StatusOf(x)
                 /\ KeyOf[x] = k => StatusOf(x) # "waiting"
      <4>1. /\ Waiting(q) = {}
            /\ StatusIn(Granted(q), sequence, x) =
                 IF x = r THEN "gone" ELSE StatusIn(q, sequence, x)
        BY <2>3, <1>1, <1>5, GrantMapsToTurn
      <4>2. StatusIn(q, sequence, x) # "waiting"
        BY <4>1, <1>1, StatusFacts
      <4> QED BY <4>1, <4>2, <2>2, <1>2, <1>3
    <3> QED BY <2>1, <3>1, <1>1 DEF Turns!Leave, Turns!Peers
  <2>4. CASE n # None
    <3>1. /\ n \in Waiting(q) /\ n \in Request /\ KeyOf[n] = k /\ n # r
          /\ FirstIn(q, sequence, n)
      BY <2>4, <1>1, <1>5, GrantMapsToTurn
    <3>2. Turns!Turn(n)
      BY <3>1, FirstIsTurn
    <3>3. ASSUME NEW x \in Request
          PROVE  StatusOf(x)' = IF x = n THEN "running"
                                ELSE IF x = r THEN "gone" ELSE StatusOf(x)
      <4>1. StatusIn(Granted(q), sequence, x) =
              IF x = n THEN "running"
              ELSE IF x = r THEN "gone" ELSE StatusIn(q, sequence, x)
        BY <2>4, <1>1, <1>5, GrantMapsToTurn
      <4> QED BY <4>1, <3>1, <2>2, <1>2, <1>3
    <3>4. n \in Turns!Peers(r)
      BY <3>1 DEF Turns!Peers
    <3> QED BY <2>1, <3>1, <3>2, <3>3, <3>4, <1>1 DEF Turns!Leave
  <2> QED BY <2>3, <2>4
<1> QED BY <1>4, <1>5

(* remove_pending of a waiting request is its withdrawal, else nothing. *)
LEMMA RemoveWithdraws ==
    ASSUME IInv, NEW r \in Request, RemovePending(r)
    PROVE  Turns!Withdraw(r) \/ UNCHANGED Turns!vars
<1> USE BuildQueueAssumption
<1> DEFINE k == KeyOf[r]
           q == queue[k]
           w == WithoutPending(q, r)
<1>1. /\ k \in Key /\ QueueOK(k, q, sequence) /\ sequence \in [Request -> Nat]
      /\ queue' = [queue EXCEPT ![k] = w]
      /\ UNCHANGED <<sequence, nextSequence>>
  BY IInvByQueue DEF RemovePending
<1>2. \A x \in Request :
        StatusOf(x)' = IF KeyOf[x] = k THEN StatusIn(w, sequence, x) ELSE StatusOf(x)
  BY <1>1, OthersKeepStatus
<1>3. \A x \in Request : KeyOf[x] = k => StatusOf(x) = StatusIn(q, sequence, x)
  BY StatusBeforeAfter
<1>4. /\ w.running = q.running /\ Waiting(w) = Waiting(q) \ {r}
      /\ r \notin Waiting(q) => w = q
  BY <1>1, RemoveTakesOne
<1>5. CASE r \notin Waiting(q)
  BY <1>1, <1>2, <1>3, <1>4, <1>5 DEF Turns!vars
<1>6. CASE r \in Waiting(q)
  <2>1. StatusOf(r) = "waiting" /\ sequence[r] # 0 /\ q.running # r
    BY <1>1, <1>3, <1>6, StatusFacts, MembersOK
  <2>2. ASSUME NEW x \in Request
        PROVE  StatusOf(x)' = IF x = r THEN "gone" ELSE StatusOf(x)
    BY <2>1, <1>2, <1>3, <1>4 DEF StatusIn
  <2> QED BY <2>1, <2>2, <1>1 DEF Turns!Withdraw
<1> QED BY <1>5, <1>6

-----------------------------------------------------------------------------
LEMMA InitMapsToInit == QueueInit => Turns!Init
BY DEF QueueInit, Turns!Init, StatusOf, Unsubmitted

LEMMA StepMapsToStep == IInv /\ [QueueNext]_queueVars => [Turns!Next]_(Turns!vars)
<1> SUFFICES ASSUME IInv, [QueueNext]_queueVars PROVE Turns!Next \/ UNCHANGED Turns!vars
  OBVIOUS
<1>1. ASSUME NEW r \in Request, Submit(r) PROVE Turns!Next
  BY <1>1, SubmitArrives DEF Turns!Next
<1>2. ASSUME NEW r \in Request, Finish(r) PROVE Turns!Next \/ UNCHANGED Turns!vars
  BY <1>2, FinishLeaves DEF Turns!Next
<1>3. ASSUME NEW r \in Request, RemovePending(r)
      PROVE  Turns!Next \/ UNCHANGED Turns!vars
  BY <1>3, RemoveWithdraws DEF Turns!Next
<1>4. ASSUME NEW k \in Key, StartNext(k) PROVE Turns!Next \/ UNCHANGED Turns!vars
  BY <1>4, StartNextStarts DEF Turns!Next
<1>5. CASE UNCHANGED queueVars
  BY <1>5 DEF queueVars, Turns!vars, StatusOf, Unsubmitted
<1> QED BY <1>1, <1>2, <1>3, <1>4, <1>5 DEF QueueNext

(* The queue implements its promise, for every set of targets and requests: *)
(* one build per target, controllers first in first out and before          *)
(* interactive work, the newest interactive request in place of the older,  *)
(* and a hand-over that no call can come between.                           *)
THEOREM QueueImplementsTurns == QueueSpec => ImplementsTurns
BY InitMapsToInit, StepMapsToStep, BuildQueueInvariant, PTL
   DEF QueueSpec, ImplementsTurns, Turns!Spec

(* Controllers start first in first out, and interactive work only when no *)
(* controller waits: in any step of any client, for every number of        *)
(* targets and requests.                                                   *)
THEOREM GrantsAreOrdered == QueueSpec => GrantOrder
<1> DEFINE Ordered(k, r) ==
             r # queue[k].running /\ r # None =>
               /\ \A s \in Range(queue[k].controllers) \ {r} :
                    Controller(r) /\ sequence[r] < sequence[s]
               /\ r \in Waiting(queue[k])
<1>1. ASSUME IInv, [QueueNext]_queueVars, NEW k \in Key
      PROVE  Ordered(k, queue'[k].running)
  <2> DEFINE q == queue[k]
  <2>1. /\ QueueOK(k, q, sequence) /\ sequence \in [Request -> Nat]
        /\ queue \in [Key -> KeyQueue]
    BY <1>1, IInvByQueue
  <2>2. Ordered(k, q.running)
    OBVIOUS
  <2>3. Ordered(k, Granted(q).running)
    <3> SUFFICES ASSUME Granted(q).running # None PROVE Ordered(k, Granted(q).running)
      OBVIOUS
    <3>1. Granted(q).running \in Waiting(q) /\ FirstIn(q, sequence, Granted(q).running)
      BY <2>1, GrantTakesFirst
    <3>2. \A s \in Range(q.controllers) : s \in Waiting(q) /\ Controller(s)
      BY <2>1, MembersOK DEF Waiting
    <3> QED BY <3>1, <3>2 DEF FirstIn
  <2>4. ASSUME NEW r \in Request, Submit(r) PROVE Ordered(k, queue'[k].running)
    <3>1. queue'[k].running = q.running
      <4>1. queue' = [queue EXCEPT ![KeyOf[r]] = Enqueued(queue[KeyOf[r]], r)]
        BY <2>4 DEF Submit
      <4>2. Enqueued(q, r).running = q.running
        BY <2>1 DEF Enqueued, KeyQueue
      <4> QED BY <4>1, <4>2, <2>1
    <3> QED BY <3>1, <2>2
  <2>5. ASSUME NEW r \in Request, Finish(r) PROVE Ordered(k, queue'[k].running)
    <3>1. queue'[k] = q \/ queue'[k] = Granted(q)
      BY <2>5, <2>1 DEF Finish, Finished
    <3> QED BY <3>1, <2>2, <2>3
  <2>6. ASSUME NEW r \in Request, RemovePending(r)
        PROVE  Ordered(k, queue'[k].running)
    <3>1. queue'[k].running = q.running
      <4>1. WithoutPending(q, r).running = q.running
        BY <2>1, RemoveTakesOne
      <4> QED BY <4>1, <2>6, <2>1 DEF RemovePending
    <3> QED BY <3>1, <2>2
  <2>7. ASSUME NEW x \in Key, StartNext(x) PROVE Ordered(k, queue'[k].running)
    <3>1. queue'[k] = q \/ queue'[k] = Granted(q)
      BY <2>7, <2>1 DEF StartNext, Started
    <3> QED BY <3>1, <2>2, <2>3
  <2>8. CASE UNCHANGED queueVars
    BY <2>8, <2>2 DEF queueVars
  <2> HIDE DEF Ordered
  <2> QED BY <1>1, <2>4, <2>5, <2>6, <2>7, <2>8 DEF QueueNext
<1>2. IInv /\ [QueueNext]_queueVars =>
        [\A k \in Key : Ordered(k, queue'[k].running)]_queueVars
  BY <1>1
<1> QED BY <1>2, BuildQueueInvariant, PTL DEF QueueSpec, GrantOrder

-----------------------------------------------------------------------------
(* Who a queue operation may move *)

(* A grant takes the next owner from the waiting requests and leaves the   *)
(* target idle only when nobody waits.                                     *)
LEMMA GrantedMembers ==
    ASSUME NEW q \in KeyQueue
    PROVE  /\ Granted(q).running \in Waiting(q) \cup {None}
           /\ Waiting(Granted(q)) \subseteq Waiting(q)
           /\ Granted(q).running = None => Waiting(Granted(q)) = {}
<1> DEFINE s == q.controllers
<1>1. s \in Seq(Request) /\ Len(s) \in Nat /\ q.interactive \in Request \cup {None}
  BY LenProperties DEF KeyQueue
<1>2. CASE s # <<>>
  <2>1. /\ Granted(q).running = s[1] /\ Granted(q).interactive = q.interactive
        /\ Granted(q).controllers = Tail(s)
    BY <1>1, <1>2, HeadTailProperties DEF Granted, KeyQueue
  <2>2. 1 \in 1 .. Len(s) /\ s[1] \in Request /\ s[1] \in Range(s)
    BY <1>1, <1>2, EmptySeq, LenProperties, ElementOfSeq DEF Range
  <2>3. Range(Tail(s)) \subseteq Range(s)
    <3>1. /\ Tail(s) \in Seq(Request) /\ Len(Tail(s)) = Len(s) - 1
          /\ \A i \in 1 .. Len(Tail(s)) : Tail(s)[i] = s[i + 1]
      BY <1>1, <1>2, HeadTailProperties
    <3> QED BY <3>1, <1>1, LenProperties DEF Range
  <2> QED BY <2>1, <2>2, <2>3, BuildQueueAssumption DEF Waiting
<1>3. CASE s = <<>>
  <2>1. /\ Granted(q).running = q.interactive /\ Granted(q).interactive = None
        /\ Granted(q).controllers = <<>>
    BY <1>3 DEF Granted, KeyQueue
  <2>2. Range(s) = {}
    BY <1>3 DEF Range
  <2> QED BY <2>1, <2>2, <1>1, <1>3 DEF Waiting
<1> QED BY <1>2, <1>3

(* Removing a request that has not started takes it, and nobody else, out  *)
(* of the queue, and never touches the owner.                              *)
LEMMA WithoutPendingMembers ==
    ASSUME NEW k \in Key, NEW q, NEW stamp \in [Request -> Nat],
           QueueOK(k, q, stamp), NEW r \in Request
    PROVE  /\ WithoutPending(q, r).running = q.running
           /\ Waiting(WithoutPending(q, r)) \subseteq Waiting(q) \ {r}
<1> DEFINE s == q.controllers
           w == WithoutPending(q, r)
<1>1. /\ q \in KeyQueue /\ s \in Seq(Request) /\ Len(s) \in Nat
      /\ q.interactive # None => Interactive(q.interactive)
      /\ \A i \in 1 .. Len(s) : Controller(s[i]) /\ s[i] \in Request
      /\ \A i, j \in 1 .. Len(s) : i < j => stamp[s[i]] < stamp[s[j]]
  BY LenProperties, ElementOfSeq DEF QueueOK, KeyQueue, PlacedIn, InOrder
<1>2. \A i, j \in 1 .. Len(s) : s[i] = s[j] => i = j
  BY <1>1
<1>3. \A x \in Range(s) : \E i \in 1 .. Len(s) : x = s[i]
  BY <1>1, LenProperties DEF Range
<1>4. CASE q.interactive = r
  <2>1. w = [q EXCEPT !.interactive = None]
    BY <1>4 DEF WithoutPending
  <2>2. r \notin Range(s)
    BY <1>1, <1>3, <1>4, BuildQueueAssumption DEF Interactive, Controller
  <2> QED BY <2>1, <2>2, <1>1 DEF Waiting, KeyQueue
<1>5. CASE q.interactive # r /\ r \in Range(s)
  <2> DEFINE p == PositionOf(q, r)
             t == RemoveAt(s, p)
  <2>1. p \in 1 .. Len(s) /\ s[p] = r
    BY <1>3, <1>5 DEF PositionOf
  <2>2. w = [q EXCEPT !.controllers = t]
    BY <1>5 DEF WithoutPending
  <2>3. /\ t \in Seq(Request) /\ Len(t) = Len(s) - 1
        /\ \A j \in 1 .. Len(s) - 1 : t[j] = IF j < p THEN s[j] ELSE s[j + 1]
    <3>1. s \in Seq(Request) /\ p \in 1 .. Len(s)
      BY <1>1, <2>1
    <3> QED BY <3>1, RemoveAtProperties
  <2> HIDE DEF p, t
  <2>4. ASSUME NEW x \in Range(t) PROVE x \in Range(s) \ {r}
    <3>1. PICK j \in 1 .. Len(s) - 1 : x = t[j]
      BY <2>3, LenProperties DEF Range
    <3>2. PICK i \in 1 .. Len(s) : i # p /\ x = s[i]
      <4>1. CASE j < p
        <5>1. j \in 1 .. Len(s) /\ j # p /\ x = s[j]
          BY <4>1, <3>1, <2>1, <2>3, <1>1
        <5> QED BY <5>1
      <4>2. CASE ~(j < p)
        <5>1. j + 1 \in 1 .. Len(s) /\ j + 1 # p /\ x = s[j + 1]
          BY <4>2, <3>1, <2>1, <2>3, <1>1
        <5> QED BY <5>1
      <4> QED BY <4>1, <4>2
    <3> QED BY <3>2, <2>1, <1>1, <1>2, LenProperties DEF Range
  <2> QED BY <2>2, <2>4, <1>1, <1>5 DEF Waiting, KeyQueue
<1>6. CASE q.interactive # r /\ r \notin Range(s)
  BY <1>6 DEF WithoutPending, Waiting
<1> QED BY <1>4, <1>5, <1>6

(* A submission adds the request and drops the interactive one it          *)
(* supersedes, nobody else.                                                *)
LEMMA EnqueuedMembers ==
    ASSUME NEW k \in Key, NEW q, NEW stamp \in [Request -> Nat],
           QueueOK(k, q, stamp), NEW r \in Request, stamp[r] = 0
    PROVE  /\ Enqueued(q, r).running = q.running
           /\ Waiting(Enqueued(q, r)) \subseteq (Waiting(q) \ Replaced(q, r)) \cup {r}
           /\ Replaced(q, r) \subseteq Waiting(q)
<1> DEFINE s == q.controllers
<1>1. /\ q \in KeyQueue /\ s \in Seq(Request) /\ Len(s) \in Nat
      /\ q.interactive \in Request \cup {None}
      /\ q.interactive # None => Interactive(q.interactive)
      /\ \A i \in 1 .. Len(s) : Controller(s[i])
  BY LenProperties DEF QueueOK, KeyQueue, PlacedIn
<1>2. \A x \in Range(s) : Controller(x)
  BY <1>1, LenProperties DEF Range
<1>3. CASE Controller(r)
  <2>1. /\ Enqueued(q, r) = [q EXCEPT !.controllers = Append(s, r)]
        /\ Replaced(q, r) = {}
    BY <1>3 DEF Enqueued, Replaced, Superseded, Interactive, Controller
  <2>2. ASSUME NEW x \in Range(Append(s, r)) PROVE x \in Range(s) \cup {r}
    <3>1. /\ Append(s, r) \in Seq(Request) /\ Len(Append(s, r)) = Len(s) + 1
          /\ \A i \in 1 .. Len(s) : Append(s, r)[i] = s[i]
          /\ Append(s, r)[Len(s) + 1] = r
      BY <1>1, AppendProperties
    <3>2. PICK i \in 1 .. Len(s) + 1 : x = Append(s, r)[i]
      BY <3>1, LenProperties DEF Range
    <3> QED BY <3>1, <3>2, <1>1, LenProperties DEF Range
  <2> QED BY <2>1, <2>2, <1>1 DEF Waiting, KeyQueue
<1>4. CASE ~Controller(r)
  <2>1. /\ Enqueued(q, r) = [q EXCEPT !.interactive = r] /\ Interactive(r)
        /\ Replaced(q, r) = {q.interactive} \ {None}
    BY <1>4, BuildQueueAssumption
       DEF Enqueued, Replaced, Superseded, Interactive, Controller, Kinds
  <2>2. q.interactive \notin Range(s) \/ q.interactive = None
    BY <1>1, <1>2 DEF Interactive, Controller
  <2>3. None \notin Range(s)
    BY <1>1, BuildQueueAssumption, ElementOfSeq, LenProperties DEF Range
  <2> QED BY <2>1, <2>2, <2>3, <1>1, BuildQueueAssumption DEF Waiting, KeyQueue
<1> QED BY <1>3, <1>4

-----------------------------------------------------------------------------
(* The inductive invariant *)

(* Where a request is, seen from its task, from its target's queue, from    *)
(* the superseded set and from whoever cancels it.                          *)
Placed(r) ==
    /\ pc[r] = "idle" <=> sequence[r] = 0
    /\ pc[r] \in {"run", "giveBack"} => IsRunning(r)
    /\ IsRunning(r) => pc[r] \in (InAdmit \cup {"run", "giveBack"})
    /\ r \in Waiting(QueueOf(r)) => pc[r] \in InAdmit
    /\ pc[r] \in InAdmit \cup Giving \cup {"idle"} => verdict[r] = "none"

Replacement(r) ==
    r \in superseded =>
      /\ pc[r] \in InAdmit
      /\ ~IsRunning(r) /\ r \notin Waiting(QueueOf(r))
      /\ stopFound[r] \in {"none", "nothing"}

Cancellation(r) ==
    /\ stopPc[r] = "idle" => stopFound[r] = "none"
    /\ stopPc[r] = "mark" \/ r \in cancelled \/ sawCancelled[r] =>
         stopFound[r] \in {"running", "removed"}
    /\ stopFound[r] \in {"running", "removed"} =>
         r \notin Waiting(QueueOf(r)) /\ pc[r] # "idle"
    /\ stopFound[r] = "removed" => ~IsRunning(r) /\ verdict[r] \in {"none", "cancelled"}

TaskOK(r) == Placed(r) /\ Replacement(r) /\ Cancellation(r)

AdmissionInv ==
    /\ IInv
    /\ AdmissionTypeOK
    /\ \A r \in Request : TaskOK(r)
    /\ NoIdleTargetWithWork

-----------------------------------------------------------------------------
(* Frames *)

(* The owner of a target never waits for it. *)
LEMMA OwnerDoesNotWait ==
    ASSUME NEW k \in Key, NEW q, NEW stamp, QueueOK(k, q, stamp), q.running # None
    PROVE  q.running \notin Waiting(q)
<1>1. q.controllers \in Seq(Request)
  BY DEF QueueOK, KeyQueue
<1>2. q.running \notin Range(q.controllers)
  BY <1>1, LenProperties DEF QueueOK, PlacedIn, Range
<1> QED BY <1>2 DEF QueueOK, PlacedIn, Waiting

(* What a step may do to a request that is not its own: grant it the target *)
(* it waits for, or take it out of the queue; never take the target away.   *)
MovesFairly(x) ==
    LET q == queue[KeyOf[x]]
        p == queue'[KeyOf[x]]
    IN  /\ q.running = x => p.running = x
        /\ p.running = x => q.running = x \/ x \in Waiting(q)
        /\ x \in Waiting(p) => x \in Waiting(q)

Undisturbed(x) ==
    /\ MovesFairly(x)
    /\ pc'[x] = pc[x] /\ verdict'[x] = verdict[x] /\ sequence'[x] = sequence[x]
    /\ stopPc'[x] = stopPc[x] /\ stopFound'[x] = stopFound[x]
    /\ sawCancelled'[x] = sawCancelled[x]
    /\ x \in cancelled' => x \in cancelled
    /\ x \in superseded' => x \in superseded

(* A request another task's step left undisturbed keeps its invariant. *)
LEMMA UndisturbedOK ==
    ASSUME NEW x \in Request, TaskOK(x), Undisturbed(x)
    PROVE  TaskOK(x)'
<1>1. Placed(x)'
  BY DEF TaskOK, Placed, Undisturbed, MovesFairly, IsRunning, QueueOf, InAdmit, Giving
<1>2. Replacement(x)'
  BY DEF TaskOK, Replacement, Undisturbed, MovesFairly, IsRunning, QueueOf
<1>3. Cancellation(x)'
  BY DEF TaskOK, Placed, Cancellation, Undisturbed, MovesFairly, IsRunning, QueueOf
<1> QED BY <1>1, <1>2, <1>3 DEF TaskOK

(* A step that leaves every queue alone. *)
LEMMA SameQueue ==
    ASSUME AdmissionInv, UNCHANGED queueVars
    PROVE  /\ IInv' /\ NoIdleTargetWithWork'
           /\ \A x \in Request : MovesFairly(x)
           /\ \A x \in Request : IsRunning(x)' <=> IsRunning(x)
           /\ \A x \in Request :
                x \in Waiting(QueueOf(x))' <=> x \in Waiting(QueueOf(x))
<1>1. queue' = queue /\ sequence' = sequence /\ nextSequence' = nextSequence
  BY DEF queueVars
<1>2. IInv'
  BY <1>1, NextIInv DEF AdmissionInv, queueVars
<1>3. NoIdleTargetWithWork'
  BY <1>1 DEF AdmissionInv, NoIdleTargetWithWork
<1> QED BY <1>1, <1>2, <1>3 DEF MovesFairly, IsRunning, QueueOf

(* A step that rewrites the queue of r's target without adding anyone to    *)
(* it.  The owner stays unless it is r.                                     *)
Served(q, p, r) ==
    /\ p.running \in {q.running, None} \cup Waiting(q)
    /\ p.running = q.running \/ q.running \in {r, None}
    /\ Waiting(p) \subseteq Waiting(q)
    /\ p.running = None => Waiting(p) = {}

LEMMA ServedQueue ==
    ASSUME AdmissionInv, NEW r \in Request, NEW p,
           QueueOK(KeyOf[r], p, sequence), Served(QueueOf(r), p, r),
           queue' = [queue EXCEPT ![KeyOf[r]] = p],
           UNCHANGED <<sequence, nextSequence>>
    PROVE  /\ IInv' /\ NoIdleTargetWithWork'
           /\ queue'[KeyOf[r]] = p
           /\ \A x \in Request : x # r => MovesFairly(x)
<1> USE BuildQueueAssumption
<1>1. /\ KeyOf[r] \in Key /\ queue \in [Key -> KeyQueue]
      /\ queue'[KeyOf[r]] = p
      /\ \A k \in Key : k # KeyOf[r] => queue'[k] = queue[k]
  BY DEF AdmissionInv, AdmissionTypeOK, TypeOK
<1>2. IInv'
  BY <1>1, QueueStep DEF AdmissionInv
<1>3. NoIdleTargetWithWork'
  BY <1>1 DEF AdmissionInv, NoIdleTargetWithWork, Served, QueueOf
<1>4. ASSUME NEW x \in Request, x # r PROVE MovesFairly(x)
  <2>1. CASE KeyOf[x] = KeyOf[r]
    BY <2>1, <1>1, <1>4 DEF MovesFairly, Served, QueueOf
  <2>2. CASE KeyOf[x] # KeyOf[r]
    BY <2>2, <1>1 DEF MovesFairly
  <2> QED BY <2>1, <2>2
<1> QED BY <1>1, <1>2, <1>3, <1>4

(* finish hands the target of its owner to a waiting request.              *)
LEMMA FinishServes ==
    ASSUME AdmissionInv, NEW r \in Request, IsRunning(r), Finish(r)
    PROVE  /\ IInv' /\ NoIdleTargetWithWork'
           /\ \A x \in Request : x # r => MovesFairly(x)
           /\ ~IsRunning(r)' /\ r \notin Waiting(QueueOf(r))'
<1> DEFINE k == KeyOf[r]
           q == queue[k]
           p == Granted(q)
<1> USE BuildQueueAssumption
<1>1. /\ k \in Key /\ q \in KeyQueue /\ QueueOK(k, q, sequence)
      /\ sequence \in [Request -> Nat] /\ q.running = r /\ r # None
  BY IInvByQueue DEF AdmissionInv, IsRunning, QueueOf
<1>2. r \notin Waiting(q)
  BY <1>1, OwnerDoesNotWait
<1>3. QueueOK(k, p, sequence)
  BY <1>1, GrantedOK
<1>4. Served(QueueOf(r), p, r) /\ p.running # r /\ r \notin Waiting(p)
  BY <1>1, <1>2, GrantedMembers DEF Served, QueueOf
<1>5. queue' = [queue EXCEPT ![k] = p] /\ UNCHANGED <<sequence, nextSequence>>
  BY <1>1 DEF Finish, Finished
<1> HIDE DEF p
<1>6. /\ IInv' /\ NoIdleTargetWithWork' /\ queue'[k] = p
      /\ \A x \in Request : x # r => MovesFairly(x)
  BY <1>3, <1>4, <1>5, ServedQueue
<1> QED BY <1>4, <1>6 DEF IsRunning, QueueOf

(* cancel takes a request that has not started out of its target's queue.  *)
LEMMA LookupServes ==
    ASSUME AdmissionInv, NEW r \in Request, CancelLookup(r)
    PROVE  /\ IInv' /\ NoIdleTargetWithWork'
           /\ \A x \in Request : x # r => MovesFairly(x)
           /\ IsRunning(r)' <=> IsRunning(r)
           /\ r \notin Waiting(QueueOf(r))'
<1> DEFINE k == KeyOf[r]
           q == queue[k]
           p == AfterCancel(q, r)
<1> USE BuildQueueAssumption
<1>1. /\ k \in Key /\ q \in KeyQueue /\ QueueOK(k, q, sequence)
      /\ sequence \in [Request -> Nat] /\ r # None
      /\ q.running = None => Waiting(q) = {}
  BY IInvByQueue DEF AdmissionInv, NoIdleTargetWithWork
<1>2. QueueOK(k, p, sequence)
  BY <1>1, WithoutPendingOK DEF AfterCancel
<1>3. p.running = q.running /\ Waiting(p) \subseteq Waiting(q) \ {r}
  BY <1>1, WithoutPendingMembers, OwnerDoesNotWait DEF AfterCancel
<1>4. Served(QueueOf(r), p, r)
  BY <1>1, <1>3 DEF Served, QueueOf
<1>5. queue' = [queue EXCEPT ![k] = p] /\ UNCHANGED <<sequence, nextSequence>>
  BY DEF CancelLookup
<1> HIDE DEF p
<1>6. /\ IInv' /\ NoIdleTargetWithWork' /\ queue'[k] = p
      /\ \A x \in Request : x # r => MovesFairly(x)
  BY <1>2, <1>4, <1>5, ServedQueue
<1> QED BY <1>3, <1>6 DEF IsRunning, QueueOf

(* A submission serves its target: an idle one is given to the request at  *)
(* once, a busy one keeps its owner, and only a waiting interactive request *)
(* is replaced.                                                            *)
LEMMA SubmitServes ==
    ASSUME AdmissionInv, NEW r \in Request, AdmitSubmit(r)
    PROVE  /\ IInv' /\ NoIdleTargetWithWork'
           /\ \A x \in Request : x # r => MovesFairly(x)
           /\ r \notin Waiting(QueueOf(r))
           /\ \A x \in Replaced(QueueOf(r), r) :
                /\ x \in Request \ {r} /\ x \in Waiting(QueueOf(x))
                /\ ~IsRunning(x)' /\ x \notin Waiting(QueueOf(x))'
<1> DEFINE k == KeyOf[r]
           q == queue[k]
           e == Enqueued(q, r)
           p == AfterSubmit(q, r)
           R == Replaced(q, r)
<1> USE BuildQueueAssumption
<1>1. /\ k \in Key /\ q \in KeyQueue /\ QueueOK(k, q, sequence)
      /\ sequence \in [Request -> Nat] /\ nextSequence \in Nat /\ r # None
      /\ \A x \in Request : sequence[x] <= nextSequence
      /\ q.running = None => Waiting(q) = {}
      /\ IInv /\ queue \in [Key -> KeyQueue]
  BY IInvByQueue DEF AdmissionInv, NoIdleTargetWithWork, StampsDistinct
<1>2. /\ Stamp(r) /\ sequence[r] = 0
      /\ sequence' = [sequence EXCEPT ![r] = nextSequence + 1]
      /\ queue' = [queue EXCEPT ![k] = p]
  BY DEF AdmitSubmit, Stamp, Unsubmitted
<1>3. QueueOK(k, e, sequence')
  BY <1>1, <1>2, EnqueuedOK
<1>4. sequence' \in [Request -> Nat]
  BY <1>1, <1>2
<1>5. QueueOK(k, p, sequence')
  BY <1>1, <1>3, <1>4, StartedOK DEF AfterSubmit
<1>6. /\ e.running = q.running /\ R \subseteq Waiting(q)
      /\ Waiting(e) \subseteq (Waiting(q) \ R) \cup {r}
  BY <1>1, <1>2, EnqueuedMembers
<1>7. r \notin Waiting(q) /\ q.running # r
  <2>1. pc[r] \notin InAdmit \cup {"run", "giveBack"}
    BY DEF AdmitSubmit, Goto, InAdmit
  <2>2. TaskOK(r)
    BY DEF AdmissionInv
  <2> QED BY <2>1, <2>2 DEF TaskOK, Placed, IsRunning, QueueOf
<1>8. \A x \in R : x \in Request /\ KeyOf[x] = k /\ x # q.running
  <2>1. R \subseteq {q.interactive} \ {None}
    BY DEF Replaced, Superseded
  <2> QED BY <2>1, <1>1 DEF QueueOK, PlacedIn, KeyQueue
<1>9. /\ p.running = q.running \/ (q.running = None /\ p.running = r)
      /\ Waiting(p) \subseteq (Waiting(q) \ R) \cup {r}
      /\ p.running = None => Waiting(p) = {}
  <2>1. CASE q.running = None
    <3>1. p = Granted(e) /\ e \in KeyQueue /\ Waiting(e) \subseteq {r}
      BY <2>1, <1>1, <1>3, <1>6 DEF AfterSubmit, Started, QueueOK
    <3>2. /\ Granted(e).running \in Waiting(e) \cup {None}
          /\ Waiting(Granted(e)) \subseteq Waiting(e)
          /\ Granted(e).running = None => Waiting(Granted(e)) = {}
      BY <3>1, GrantedMembers
    <3> QED BY <3>1, <3>2, <2>1, <1>1, <1>6
  <2>2. CASE q.running # None
    BY <2>2, <1>6 DEF AfterSubmit, Started
  <2> QED BY <2>1, <2>2
<1> HIDE DEF p, e, R
<1>10. IInv'
  BY <1>1, <1>2, <1>5, SubmitStep
<1>11. queue'[k] = p /\ \A y \in Key : y # k => queue'[y] = queue[y]
  BY <1>1, <1>2
<1>12. NoIdleTargetWithWork'
  BY <1>9, <1>11 DEF AdmissionInv, NoIdleTargetWithWork
<1>13. ASSUME NEW x \in Request, x # r PROVE MovesFairly(x)
  <2>1. CASE KeyOf[x] = k
    BY <2>1, <1>9, <1>11, <1>13 DEF MovesFairly
  <2>2. CASE KeyOf[x] # k
    BY <2>2, <1>11 DEF MovesFairly
  <2> QED BY <2>1, <2>2
<1>14. ASSUME NEW x \in R
       PROVE  /\ x \in Request \ {r} /\ x \in Waiting(QueueOf(x))
              /\ ~IsRunning(x)' /\ x \notin Waiting(QueueOf(x))'
  <2>1. x \in Request /\ x # r /\ KeyOf[x] = k /\ x \in Waiting(q)
    BY <1>6, <1>7, <1>8
  <2>2. p.running # x /\ x \notin Waiting(p)
    BY <2>1, <1>8, <1>9
  <2> QED BY <2>1, <2>2, <1>11 DEF IsRunning, QueueOf
<1> QED BY <1>7, <1>10, <1>12, <1>13, <1>14 DEF QueueOf, R

-----------------------------------------------------------------------------
(* Every step keeps the types. *)
LEMMA TypesKept ==
    ASSUME AdmissionInv, NEW r \in Request, IInv',
           \/ AdmitSubmit(r) \/ AdmitStep(r) \/ FinishStep(r)
           \/ CancelLookup(r) \/ CancelStep(r)
    PROVE  AdmissionTypeOK'
<1>1. AdmissionTypeOK /\ TypeOK'
  BY DEF AdmissionInv, IInv
<1> USE DEF AdmissionTypeOK, PcStates, InAdmit, Giving, Verdicts, Findings
<1>2. CASE AdmitSubmit(r)
  <2>1. Replaced(QueueOf(r), r) \subseteq Request
    BY <1>1, BuildQueueAssumption
       DEF Replaced, Superseded, QueueOf, TypeOK, KeyQueue
  <2> QED BY <1>1, <1>2, <2>1 DEF AdmitSubmit, Goto, stopVars
<1>3. CASE AdmitStep(r)
  <2>1. CASE AdmitAnnounce(r)
    BY <1>1, <2>1 DEF AdmitAnnounce, Goto, NotifyWaiters, stopVars
  <2>2. CASE AdmitArm(r)
    BY <1>1, <2>2 DEF AdmitArm, Goto, registryVars, stopVars
  <2>3. CASE AdmitCheckSuperseded(r)
    BY <1>1, <2>3 DEF AdmitCheckSuperseded, Goto, TakeSuperseded, Return, DropFuture, stopVars
  <2>4. CASE AdmitCheckCancelled(r)
    BY <1>1, <2>4 DEF AdmitCheckCancelled, Goto, registryVars, stopVars
  <2>5. CASE AdmitCancelled(r)
    BY <1>1, <2>5 DEF AdmitCancelled, Goto, DropFuture, ForgetSawCancelled, CancelledExit, stopVars
  <2>6. CASE AdmitGranted(r)
    BY <1>1, <2>6 DEF AdmitGranted, Goto, DropFuture, Return, stopVars
  <2>7. CASE AdmitSleep(r)
    BY <1>1, <2>7 DEF AdmitSleep, Goto, registryVars, stopVars
  <2>8. CASE AdmitWake(r)
    BY <1>1, <2>8 DEF AdmitWake, Goto, DropFuture, stopVars
  <2>9. CASE AdmitGiveBack(r)
    BY <1>1, <2>9 DEF AdmitGiveBack, Goto, registryVars, stopVars
  <2>10. CASE AdmitGiveBackNotify(r)
    BY <1>1, <2>10 DEF AdmitGiveBackNotify, Goto, NotifyWaiters, stopVars
  <2>11. CASE AdmitForget(r)
    BY <1>1, <2>11 DEF AdmitForget, Goto, Return, stopVars
  <2> QED BY <1>3, <2>1, <2>2, <2>3, <2>4, <2>5, <2>6,
           <2>7, <2>8, <2>9, <2>10, <2>11 DEF AdmitStep
<1>4. CASE FinishStep(r)
  BY <1>1, <1>4 DEF FinishStep, RunFinish, RunFinishNotify, Goto, NotifyWaiters,
                    registryVars, stopVars
<1>5. CASE CancelLookup(r)
  BY <1>1, <1>5 DEF CancelLookup, CancelFinding, StopGoto, registryVars, taskVars
<1>6. CASE CancelStep(r)
  BY <1>1, <1>6 DEF CancelStep, CancelMark, CancelNotify, Marked, StopGoto,
                    NotifyWaiters, taskVars
<1> QED BY <1>2, <1>3, <1>4, <1>5, <1>6

-----------------------------------------------------------------------------
(* Every step keeps what is known of the request whose task takes it, and   *)
(* leaves the others undisturbed.                                           *)

(* The steps that only read the queue. *)
ReadingStep(r) ==
    \/ AdmitAnnounce(r)
    \/ AdmitArm(r)
    \/ AdmitCheckSuperseded(r)
    \/ AdmitCheckCancelled(r)
    \/ AdmitCancelled(r)
    \/ AdmitGranted(r)
    \/ AdmitSleep(r)
    \/ AdmitWake(r)
    \/ AdmitGiveBackNotify(r)
    \/ AdmitForget(r)
    \/ RunFinishNotify(r)
    \/ CancelMark(r)
    \/ CancelNotify(r)

LEMMA ReadingStepOK ==
    ASSUME AdmissionInv, NEW r \in Request, ReadingStep(r)
    PROVE  /\ IInv' /\ NoIdleTargetWithWork' /\ TaskOK(r)'
           /\ \A x \in Request : x # r => Undisturbed(x)
<1> DEFINE Here == IsRunning(r)
           Waits == r \in Waiting(QueueOf(r))
<1>1. UNCHANGED queueVars
  BY DEF ReadingStep,
         AdmitAnnounce, AdmitArm, AdmitCheckSuperseded,
         AdmitCheckCancelled, AdmitCancelled, AdmitGranted, AdmitSleep,
         AdmitWake, AdmitGiveBackNotify, AdmitForget, RunFinishNotify,
         CancelMark, CancelNotify
<1>2. /\ IInv' /\ NoIdleTargetWithWork'
      /\ \A x \in Request : MovesFairly(x)
      /\ IsRunning(r)' <=> Here
      /\ r \in Waiting(QueueOf(r))' <=> Waits
  BY <1>1, SameQueue
<1>3. sequence' = sequence
  BY <1>1 DEF queueVars
<1>4. /\ AdmissionTypeOK /\ TaskOK(r)
  BY DEF AdmissionInv
<1>5. Here => ~Waits
  <2>1. KeyOf[r] \in Key /\ r # None /\ QueueOK(KeyOf[r], QueueOf(r), sequence)
    BY IInvByQueue, BuildQueueAssumption DEF AdmissionInv, QueueOf
  <2> QED BY <2>1, OwnerDoesNotWait DEF IsRunning, QueueOf
<1> HIDE DEF Here, Waits
<1>6. ASSUME NEW x \in Request, x # r PROVE Undisturbed(x)
  <2>1. CASE AdmitAnnounce(r)
    BY <1>2, <1>3, <1>4, <1>6, <2>1
       DEF AdmitAnnounce, Goto, NotifyWaiters, stopVars,
           Undisturbed, AdmissionTypeOK
  <2>2. CASE AdmitArm(r)
    BY <1>2, <1>3, <1>4, <1>6, <2>2
       DEF AdmitArm, Goto, registryVars, stopVars,
           Undisturbed, AdmissionTypeOK
  <2>3. CASE AdmitCheckSuperseded(r)
    BY <1>2, <1>3, <1>4, <1>6, <2>3
       DEF AdmitCheckSuperseded, Goto, TakeSuperseded, Return, DropFuture, stopVars,
           Undisturbed, AdmissionTypeOK
  <2>4. CASE AdmitCheckCancelled(r)
    BY <1>2, <1>3, <1>4, <1>6, <2>4
       DEF AdmitCheckCancelled, Goto, registryVars, stopVars,
           Undisturbed, AdmissionTypeOK
  <2>5. CASE AdmitCancelled(r)
    BY <1>2, <1>3, <1>4, <1>6, <2>5
       DEF AdmitCancelled, Goto, DropFuture, ForgetSawCancelled, CancelledExit, stopVars,
           Undisturbed, AdmissionTypeOK
  <2>6. CASE AdmitGranted(r)
    BY <1>2, <1>3, <1>4, <1>6, <2>6
       DEF AdmitGranted, Goto, DropFuture, Return, stopVars,
           Undisturbed, AdmissionTypeOK
  <2>7. CASE AdmitSleep(r)
    BY <1>2, <1>3, <1>4, <1>6, <2>7
       DEF AdmitSleep, Goto, registryVars, stopVars,
           Undisturbed, AdmissionTypeOK
  <2>8. CASE AdmitWake(r)
    BY <1>2, <1>3, <1>4, <1>6, <2>8
       DEF AdmitWake, Goto, DropFuture, stopVars,
           Undisturbed, AdmissionTypeOK
  <2>9. CASE AdmitGiveBackNotify(r)
    BY <1>2, <1>3, <1>4, <1>6, <2>9
       DEF AdmitGiveBackNotify, Goto, NotifyWaiters, stopVars,
           Undisturbed, AdmissionTypeOK
  <2>10. CASE AdmitForget(r)
    BY <1>2, <1>3, <1>4, <1>6, <2>10
       DEF AdmitForget, Goto, Return, stopVars,
           Undisturbed, AdmissionTypeOK
  <2>11. CASE RunFinishNotify(r)
    BY <1>2, <1>3, <1>4, <1>6, <2>11
       DEF RunFinishNotify, Goto, NotifyWaiters, stopVars,
           Undisturbed, AdmissionTypeOK
  <2>12. CASE CancelMark(r)
    BY <1>2, <1>3, <1>4, <1>6, <2>12
       DEF CancelMark, StopGoto, Marked, taskVars,
           Undisturbed, AdmissionTypeOK
  <2>13. CASE CancelNotify(r)
    BY <1>2, <1>3, <1>4, <1>6, <2>13
       DEF CancelNotify, StopGoto, NotifyWaiters, taskVars,
           Undisturbed, AdmissionTypeOK
  <2> QED BY <2>1, <2>2, <2>3, <2>4, <2>5, <2>6, <2>7, <2>8, <2>9, <2>10,
          <2>11, <2>12, <2>13 DEF ReadingStep
<1>7. TaskOK(r)'
  <2>1. CASE AdmitAnnounce(r)
    BY <1>2, <1>3, <1>4, <1>5, <2>1
       DEF AdmitAnnounce, Goto, NotifyWaiters, stopVars, Here, Waits,
           TaskOK, Placed, Replacement, Cancellation, AdmissionTypeOK, InAdmit, Giving
  <2>2. CASE AdmitArm(r)
    BY <1>2, <1>3, <1>4, <1>5, <2>2
       DEF AdmitArm, Goto, registryVars, stopVars, Here, Waits,
           TaskOK, Placed, Replacement, Cancellation, AdmissionTypeOK, InAdmit, Giving
  <2>3. CASE AdmitCheckSuperseded(r)
    BY <1>2, <1>3, <1>4, <1>5, <2>3
       DEF AdmitCheckSuperseded, Goto, TakeSuperseded, Return, DropFuture, stopVars, Here, Waits,
           TaskOK, Placed, Replacement, Cancellation, AdmissionTypeOK, InAdmit, Giving
  <2>4. CASE AdmitCheckCancelled(r)
    BY <1>2, <1>3, <1>4, <1>5, <2>4
       DEF AdmitCheckCancelled, Goto, registryVars, stopVars, Here, Waits,
           TaskOK, Placed, Replacement, Cancellation, AdmissionTypeOK, InAdmit, Giving
  <2>5. CASE AdmitCancelled(r)
    BY <1>2, <1>3, <1>4, <1>5, <2>5
       DEF AdmitCancelled, Goto, DropFuture, ForgetSawCancelled, CancelledExit, stopVars, Here, Waits,
           TaskOK, Placed, Replacement, Cancellation, AdmissionTypeOK, InAdmit, Giving
  <2>6. CASE AdmitGranted(r)
    BY <1>2, <1>3, <1>4, <1>5, <2>6
       DEF AdmitGranted, Goto, DropFuture, Return, stopVars, Here, Waits,
           TaskOK, Placed, Replacement, Cancellation, AdmissionTypeOK, InAdmit, Giving
  <2>7. CASE AdmitSleep(r)
    BY <1>2, <1>3, <1>4, <1>5, <2>7
       DEF AdmitSleep, Goto, registryVars, stopVars, Here, Waits,
           TaskOK, Placed, Replacement, Cancellation, AdmissionTypeOK, InAdmit, Giving
  <2>8. CASE AdmitWake(r)
    BY <1>2, <1>3, <1>4, <1>5, <2>8
       DEF AdmitWake, Goto, DropFuture, stopVars, Here, Waits,
           TaskOK, Placed, Replacement, Cancellation, AdmissionTypeOK, InAdmit, Giving
  <2>9. CASE AdmitGiveBackNotify(r)
    BY <1>2, <1>3, <1>4, <1>5, <2>9
       DEF AdmitGiveBackNotify, Goto, NotifyWaiters, stopVars, Here, Waits,
           TaskOK, Placed, Replacement, Cancellation, AdmissionTypeOK, InAdmit, Giving
  <2>10. CASE AdmitForget(r)
    BY <1>2, <1>3, <1>4, <1>5, <2>10
       DEF AdmitForget, Goto, Return, stopVars, Here, Waits,
           TaskOK, Placed, Replacement, Cancellation, AdmissionTypeOK, InAdmit, Giving
  <2>11. CASE RunFinishNotify(r)
    BY <1>2, <1>3, <1>4, <1>5, <2>11
       DEF RunFinishNotify, Goto, NotifyWaiters, stopVars, Here, Waits,
           TaskOK, Placed, Replacement, Cancellation, AdmissionTypeOK, InAdmit, Giving
  <2>12. CASE CancelMark(r)
    BY <1>2, <1>3, <1>4, <1>5, <2>12
       DEF CancelMark, StopGoto, Marked, taskVars, Here, Waits,
           TaskOK, Placed, Replacement, Cancellation, AdmissionTypeOK, InAdmit, Giving
  <2>13. CASE CancelNotify(r)
    BY <1>2, <1>3, <1>4, <1>5, <2>13
       DEF CancelNotify, StopGoto, NotifyWaiters, taskVars, Here, Waits,
           TaskOK, Placed, Replacement, Cancellation, AdmissionTypeOK, InAdmit, Giving
  <2> QED BY <2>1, <2>2, <2>3, <2>4, <2>5, <2>6, <2>7, <2>8, <2>9, <2>10,
          <2>11, <2>12, <2>13 DEF ReadingStep
<1> QED BY <1>2, <1>6, <1>7

(* The steps that rewrite a queue: submit, the two callers of finish, and   *)
(* cancel.                                                                 *)
LEMMA SubmitOK ==
    ASSUME AdmissionInv, NEW r \in Request, AdmitSubmit(r)
    PROVE  /\ IInv' /\ NoIdleTargetWithWork'
           /\ \A x \in Request : TaskOK(x)'
<1> DEFINE R == Replaced(QueueOf(r), r)
<1>1. /\ IInv' /\ NoIdleTargetWithWork'
      /\ \A x \in Request : x # r => MovesFairly(x)
      /\ r \notin Waiting(QueueOf(r))
      /\ \A x \in R : /\ x \in Request \ {r} /\ x \in Waiting(QueueOf(x))
                      /\ ~IsRunning(x)' /\ x \notin Waiting(QueueOf(x))'
  BY SubmitServes
<1>2. /\ AdmissionTypeOK /\ TypeOK /\ \A x \in Request : TaskOK(x)
  BY DEF AdmissionInv, AdmissionTypeOK
<1>3. superseded' = superseded \cup R
  BY DEF AdmitSubmit
<1> HIDE DEF R
<1>4. ASSUME NEW x \in Request, x # r, x \notin R PROVE TaskOK(x)'
  <2>1. Undisturbed(x)
    BY <1>1, <1>2, <1>3, <1>4
       DEF AdmitSubmit, Goto, Stamp, stopVars, Undisturbed, AdmissionTypeOK, TypeOK
  <2> QED BY <2>1, <1>2, UndisturbedOK
<1>5. ASSUME NEW x \in R PROVE TaskOK(x)'
  <2>1. /\ x \in Request /\ x # r /\ x \in Waiting(QueueOf(x)) /\ TaskOK(x)
        /\ ~IsRunning(x)' /\ x \notin Waiting(QueueOf(x))'
    BY <1>1, <1>2
  <2>2. /\ pc'[x] = pc[x] /\ sequence'[x] = sequence[x]
        /\ UNCHANGED <<cancelled, sawCancelled, verdict, stopPc, stopFound>>
    BY <2>1, <1>2 DEF AdmitSubmit, Goto, Stamp, stopVars, AdmissionTypeOK, TypeOK
  <2>3. stopFound[x] \in {"none", "nothing"} /\ pc[x] \in InAdmit
    BY <2>1, <1>2 DEF TaskOK, Placed, Cancellation, AdmissionTypeOK, Findings
  <2> QED BY <2>1, <2>2, <2>3
          DEF TaskOK, Placed, Replacement, Cancellation, InAdmit, Giving
<1>6. TaskOK(r)'
  <2>1. /\ pc[r] = "idle" /\ pc'[r] = "announce" /\ sequence'[r] # 0
        /\ UNCHANGED <<cancelled, sawCancelled, verdict, stopPc, stopFound>>
    BY <1>2 DEF AdmitSubmit, Goto, Stamp, stopVars, AdmissionTypeOK, TypeOK
  <2>2. r \notin superseded'
    BY <1>1, <1>2, <1>3, <2>1 DEF TaskOK, Replacement, InAdmit
  <2> QED BY <2>1, <2>2, <1>2
          DEF TaskOK, Placed, Replacement, Cancellation, InAdmit, Giving
<1> QED BY <1>1, <1>4, <1>5, <1>6

LEMMA FinishingOK ==
    ASSUME AdmissionInv, NEW r \in Request, AdmitGiveBack(r) \/ RunFinish(r)
    PROVE  /\ IInv' /\ NoIdleTargetWithWork' /\ TaskOK(r)'
           /\ \A x \in Request : x # r => Undisturbed(x)
<1>1. /\ pc[r] \in {"run", "giveBack"} /\ Finish(r)
      /\ pc' = [pc EXCEPT ![r] = IF pc[r] = "run" THEN "finishNotify"
                                                  ELSE "giveBackNotify"]
      /\ UNCHANGED <<registryVars, sawCancelled, verdict, stopVars>>
  BY DEF AdmitGiveBack, RunFinish, Goto
<1>2. AdmissionTypeOK /\ TaskOK(r)
  BY DEF AdmissionInv
<1>3. IsRunning(r)
  BY <1>1, <1>2 DEF TaskOK, Placed
<1>4. /\ IInv' /\ NoIdleTargetWithWork'
      /\ \A x \in Request : x # r => MovesFairly(x)
      /\ ~IsRunning(r)' /\ r \notin Waiting(QueueOf(r))'
  BY <1>1, <1>3, FinishServes
<1>5. sequence' = sequence
  BY <1>1 DEF Finish
<1>6. ASSUME NEW x \in Request, x # r PROVE Undisturbed(x)
  BY <1>1, <1>2, <1>4, <1>5, <1>6
     DEF Undisturbed, registryVars, stopVars, AdmissionTypeOK
<1>7. TaskOK(r)'
  BY <1>1, <1>2, <1>4, <1>5
     DEF TaskOK, Placed, Replacement, Cancellation, registryVars, stopVars,
         AdmissionTypeOK, InAdmit, Giving
<1> QED BY <1>4, <1>6, <1>7

LEMMA LookupOK ==
    ASSUME AdmissionInv, NEW r \in Request, CancelLookup(r)
    PROVE  /\ IInv' /\ NoIdleTargetWithWork' /\ TaskOK(r)'
           /\ \A x \in Request : x # r => Undisturbed(x)
<1>1. /\ IInv' /\ NoIdleTargetWithWork'
      /\ \A x \in Request : x # r => MovesFairly(x)
      /\ IsRunning(r)' <=> IsRunning(r)
      /\ r \notin Waiting(QueueOf(r))'
  BY LookupServes
<1>2. AdmissionTypeOK /\ TaskOK(r)
  BY DEF AdmissionInv
<1>3. /\ stopPc[r] = "idle" /\ stopFound'[r] = CancelFinding(r)
      /\ stopPc'[r] = IF CancelFinding(r) = "nothing" THEN "notify" ELSE "mark"
      /\ \A x \in Request : x # r => stopPc'[x] = stopPc[x] /\ stopFound'[x] = stopFound[x]
      /\ UNCHANGED <<sequence, superseded, cancelled, pc, sawCancelled, verdict>>
  BY <1>2 DEF CancelLookup, StopGoto, registryVars, taskVars, AdmissionTypeOK
<1>4. ASSUME NEW x \in Request, x # r PROVE Undisturbed(x)
  BY <1>1, <1>3, <1>4 DEF Undisturbed
<1>5. TaskOK(r)'
  BY <1>1, <1>2, <1>3
     DEF CancelFinding, TaskOK, Placed, Replacement, Cancellation, InAdmit, Giving
<1> QED BY <1>1, <1>4, <1>5

-----------------------------------------------------------------------------
LEMMA AdmissionInit == Init => AdmissionInv
<1> SUFFICES ASSUME Init PROVE AdmissionInv
  OBVIOUS
<1> USE BuildQueueAssumption
<1>1. IInv
  BY InitIInv DEF Init
<1>2. \A k \in Key : queue[k].running = None /\ Waiting(queue[k]) = {}
  <2>1. EmptyQueue.running = None /\ Waiting(EmptyQueue) = {}
    BY DEF EmptyQueue, Waiting, Range
  <2> QED BY <2>1 DEF Init, QueueInit
<1>3. AdmissionTypeOK
  BY <1>1 DEF Init, IInv, AdmissionTypeOK, PcStates, Verdicts, Findings
<1>4. ASSUME NEW r \in Request PROVE TaskOK(r)
  <2>1. KeyOf[r] \in Key /\ r # None /\ ~IsRunning(r) /\ r \notin Waiting(QueueOf(r))
    BY <1>2 DEF IsRunning, QueueOf
  <2> QED BY <2>1 DEF Init, QueueInit, TaskOK, Placed, Replacement, Cancellation,
                      InAdmit, Giving
<1> QED BY <1>1, <1>2, <1>3, <1>4 DEF AdmissionInv, NoIdleTargetWithWork

LEMMA AdmissionStep == AdmissionInv /\ [Next]_vars => AdmissionInv'
<1> SUFFICES ASSUME AdmissionInv, [Next]_vars PROVE AdmissionInv'
  OBVIOUS
<1>1. ASSUME NEW r \in Request, AdmitSubmit(r) PROVE AdmissionInv'
  BY <1>1, SubmitOK, TypesKept DEF AdmissionInv
<1>2. ASSUME NEW r \in Request,
             ReadingStep(r) \/ AdmitGiveBack(r) \/ RunFinish(r) \/ CancelLookup(r)
      PROVE  AdmissionInv'
  <2>1. /\ IInv' /\ NoIdleTargetWithWork' /\ TaskOK(r)'
        /\ \A x \in Request : x # r => Undisturbed(x)
    BY <1>2, ReadingStepOK, FinishingOK, LookupOK
  <2>2. \A x \in Request : TaskOK(x)'
    BY <2>1, UndisturbedOK DEF AdmissionInv
  <2>3. AdmissionTypeOK'
    BY <1>2, <2>1, TypesKept DEF ReadingStep, AdmitStep, FinishStep, CancelStep
  <2> QED BY <2>1, <2>2, <2>3 DEF AdmissionInv
<1>3. CASE UNCHANGED vars
  <2>1. IInv' /\ NoIdleTargetWithWork'
    BY <1>3, SameQueue DEF vars, queueVars
  <2>2. AdmissionTypeOK'
    BY <1>3, <2>1 DEF vars, registryVars, taskVars, stopVars, AdmissionInv,
                      AdmissionTypeOK, IInv
  <2>3. ASSUME NEW x \in Request PROVE TaskOK(x)'
    <3>1. Undisturbed(x)
      BY <1>3, SameQueue DEF vars, registryVars, taskVars, stopVars, queueVars,
                             Undisturbed
    <3> QED BY <3>1, UndisturbedOK DEF AdmissionInv
  <2> QED BY <2>1, <2>2, <2>3 DEF AdmissionInv
<1> QED BY <1>1, <1>2, <1>3
        DEF Next, AdmitStep, FinishStep, CancelStep, ReadingStep

(* For every set of requests and targets, whatever is submitted, cancelled  *)
(* and finished in whatever order: the registry and its tasks stay in       *)
(* agreement about who builds, who waits, who was replaced and who was      *)
(* cancelled.                                                              *)
THEOREM AdmissionInvariant == Spec => []AdmissionInv
BY AdmissionInit, AdmissionStep, PTL DEF Spec

(* Two runs of one thread never build at the same time: a run that admit    *)
(* let through owns its target until its own finish.                        *)
THEOREM RunnersOwnTheirTargets == Spec => []RunnerOwnsTarget
<1>1. AdmissionInv => RunnerOwnsTarget
  BY DEF AdmissionInv, TaskOK, Placed, RunnerOwnsTarget
<1> QED BY <1>1, AdmissionInvariant, PTL

(* No target is ever stuck behind an owner whose task is gone, or left idle *)
(* while a request waits for it.                                           *)
THEOREM TargetsAreServed == Spec => [](OwnerIsAlive /\ NoIdleTargetWithWork)
<1>1. AdmissionInv => OwnerIsAlive /\ NoIdleTargetWithWork
  BY DEF AdmissionInv, TaskOK, Placed, OwnerIsAlive
<1> QED BY <1>1, AdmissionInvariant, PTL

(* A replaced request is out of the queue and nobody's cancellation is      *)
(* recorded for it.                                                        *)
THEOREM SupersessionIsFinal == Spec => []SupersededIsFinal
<1>1. AdmissionInv => SupersededIsFinal
  BY DEF AdmissionInv, TaskOK, Replacement, Cancellation, AdmissionTypeOK,
         SupersededIsFinal
<1> QED BY <1>1, AdmissionInvariant, PTL

(* A stop that removed a request before it started wins over every later    *)
(* grant: that request never builds.                                       *)
THEOREM RemovalWins == Spec => []RemovedNeverRuns
<1>1. AdmissionInv => RemovedNeverRuns
  BY DEF AdmissionInv, TaskOK, Cancellation, RemovedNeverRuns
<1> QED BY <1>1, AdmissionInvariant, PTL

-----------------------------------------------------------------------------
(* No wakeup is lost in admit.  A task that has read the superseded set,   *)
(* the tombstones or the queue is alerted when what it read changes        *)
(* afterwards: its Notified future has fired, or the task that made the    *)
(* change has not called notify_waiters yet.  The second half says that    *)
(* nobody in admit is forgotten: who is not in the queue any more was      *)
(* replaced or is being cancelled.                                         *)

InQueue(x) == IsRunning(x) \/ x \in Waiting(QueueOf(x))

Accounted(x) ==
    pc[x] \in InAdmit =>
      InQueue(x) \/ x \in superseded \/ x \in cancelled \/ stopPc[x] = "mark"

Alerted(x) == woken[x] \/ NotifyPending

(* What admit has read so far in this turn of its loop still holds. *)
Alert(x) ==
    /\ pc[x] \in {"checkCancelled", "checkRunning", "await"} =>
         x \notin superseded \/ Alerted(x)
    /\ pc[x] \in {"checkRunning", "await"} =>
         x \notin cancelled \/ sawCancelled[x] \/ Alerted(x)
    /\ pc[x] = "await" => ~sawCancelled[x] /\ (~IsRunning(x) \/ Alerted(x))

WakeupInv ==
    /\ AdmissionInv
    /\ \A x \in Request : Accounted(x) /\ Alert(x)

(* A step of the task of r, or of the task that cancels r. *)
StepOf(r) ==
    \/ ReadingStep(r)
    \/ AdmitSubmit(r) \/ AdmitGiveBack(r) \/ RunFinish(r) \/ CancelLookup(r)

-----------------------------------------------------------------------------
(* Nobody leaves a queue unseen *)

(* A submission puts the request in its queue, and who leaves is replaced. *)
LEMMA SubmitKeepsMembers ==
    ASSUME AdmissionInv, NEW r \in Request, AdmitSubmit(r)
    PROVE  /\ InQueue(r)'
           /\ \A x \in Request : InQueue(x) => InQueue(x)' \/ x \in superseded'
<1> USE BuildQueueAssumption
<1> DEFINE k == KeyOf[r]
           q == queue[k]
           e == Enqueued(q, r)
           p == AfterSubmit(q, r)
<1>1. /\ k \in Key /\ QueueOK(k, q, sequence) /\ q \in KeyQueue
      /\ sequence \in [Request -> Nat] /\ nextSequence \in Nat
      /\ \A x \in Request : sequence[x] <= nextSequence
      /\ queue \in [Key -> KeyQueue] /\ IInv
  BY IInvByQueue DEF AdmissionInv, StampsDistinct
<1>2. /\ Stamp(r) /\ sequence[r] = 0
      /\ sequence' = [sequence EXCEPT ![r] = nextSequence + 1]
      /\ queue' = [queue EXCEPT ![k] = p]
      /\ superseded' = superseded \cup Replaced(q, r)
  BY DEF AdmitSubmit, Stamp, Unsubmitted, QueueOf
<1>3. QueueOK(k, e, sequence') /\ sequence' \in [Request -> Nat]
  <2>1. QueueOK(k, e, sequence')
    BY <1>1, <1>2, EnqueuedOK
  <2> QED BY <2>1, <1>1, <1>2
<1>4. /\ e.running = q.running
      /\ Waiting(e) = (Waiting(q) \ {Superseded(q, r)}) \cup {r}
  BY <1>1, <1>2, SubmitAddsOne
<1>5. \A x \in Request :
        e.running = x \/ x \in Waiting(e) => p.running = x \/ x \in Waiting(p)
  <2>1. CASE q.running # None
    BY <2>1 DEF AfterSubmit, Started, Enqueued
  <2>2. CASE q.running = None
    <3>1. p = Granted(e) /\ e.running = None
      BY <2>2, <1>4 DEF AfterSubmit, Started
    <3>2. /\ Granted(e).running = None => Waiting(e) = {}
          /\ Granted(e).running # None =>
               Waiting(Granted(e)) = Waiting(e) \ {Granted(e).running}
      BY <1>3, GrantTakesFirst
    <3> QED BY <3>1, <3>2
  <2> QED BY <2>1, <2>2
<1> HIDE DEF p, e
<1>6. queue'[k] = p /\ \A y \in Key : y # k => queue'[y] = queue[y]
  BY <1>1, <1>2
<1>7. ASSUME NEW x \in Request, InQueue(x) PROVE InQueue(x)' \/ x \in superseded'
  <2>1. CASE KeyOf[x] = k
    <3>1. q.running = x \/ x \in Waiting(q)
      BY <2>1, <1>7 DEF InQueue, IsRunning, QueueOf
    <3>2. x = Superseded(q, r) => x \in superseded'
      BY <1>2 DEF Replaced
    <3> QED BY <2>1, <3>1, <3>2, <1>4, <1>5, <1>6 DEF InQueue, IsRunning, QueueOf
  <2>2. CASE KeyOf[x] # k
    BY <2>2, <1>6, <1>7 DEF InQueue, IsRunning, QueueOf
  <2> QED BY <2>1, <2>2
<1>8. InQueue(r)'
  BY <1>4, <1>5, <1>6 DEF InQueue, IsRunning, QueueOf
<1> QED BY <1>7, <1>8

(* finish by the owner lets nobody go but the owner. *)
LEMMA FinishKeepsMembers ==
    ASSUME AdmissionInv, NEW r \in Request, IsRunning(r), Finish(r)
    PROVE  \A x \in Request : x # r /\ InQueue(x) => InQueue(x)'
<1> USE BuildQueueAssumption
<1> DEFINE k == KeyOf[r]
           q == queue[k]
           p == Granted(q)
<1>1. /\ k \in Key /\ QueueOK(k, q, sequence) /\ sequence \in [Request -> Nat]
      /\ queue \in [Key -> KeyQueue] /\ q.running = r
  BY IInvByQueue DEF AdmissionInv, IsRunning, QueueOf
<1>2. queue' = [queue EXCEPT ![k] = p]
  BY <1>1 DEF Finish, Finished
<1>3. /\ p.running = None => Waiting(q) = {}
      /\ p.running # None => Waiting(p) = Waiting(q) \ {p.running}
  BY <1>1, GrantTakesFirst
<1> HIDE DEF p
<1>4. queue'[k] = p /\ \A y \in Key : y # k => queue'[y] = queue[y]
  BY <1>1, <1>2
<1>5. ASSUME NEW x \in Request, x # r, InQueue(x) PROVE InQueue(x)'
  <2>1. CASE KeyOf[x] = k
    <3>1. x \in Waiting(q)
      BY <2>1, <1>1, <1>5 DEF InQueue, IsRunning, QueueOf
    <3> QED BY <2>1, <3>1, <1>3, <1>4 DEF InQueue, IsRunning, QueueOf
  <2>2. CASE KeyOf[x] # k
    BY <2>2, <1>4, <1>5 DEF InQueue, IsRunning, QueueOf
  <2> QED BY <2>1, <2>2
<1> QED BY <1>5

(* cancel lets nobody go but the request it goes on to mark, and grants     *)
(* nothing.                                                                *)
LEMMA LookupKeepsMembers ==
    ASSUME AdmissionInv, NEW r \in Request, CancelLookup(r)
    PROVE  \A x \in Request :
             /\ InQueue(x) => InQueue(x)' \/ stopPc'[x] = "mark"
             /\ IsRunning(x)' <=> IsRunning(x)
<1> USE BuildQueueAssumption
<1> DEFINE k == KeyOf[r]
           q == queue[k]
           p == AfterCancel(q, r)
<1>1. /\ k \in Key /\ QueueOK(k, q, sequence) /\ sequence \in [Request -> Nat]
      /\ queue \in [Key -> KeyQueue]
  BY IInvByQueue DEF AdmissionInv
<1>2. queue' = [queue EXCEPT ![k] = p]
  BY DEF CancelLookup
<1>3. p.running = q.running /\ Waiting(q) \ {r} \subseteq Waiting(p)
  BY <1>1, RemoveTakesOne DEF AfterCancel
<1> HIDE DEF p
<1>4. queue'[k] = p /\ \A y \in Key : y # k => queue'[y] = queue[y]
  BY <1>1, <1>2
<1>5. ASSUME NEW x \in Request PROVE IsRunning(x)' <=> IsRunning(x)
  BY <1>3, <1>4 DEF IsRunning, QueueOf
<1>6. r \in Waiting(QueueOf(r)) => stopPc'[r] = "mark"
  <2>1. stopPc' = [stopPc EXCEPT ![r] = IF CancelFinding(r) = "nothing"
                                        THEN "notify" ELSE "mark"]
    BY DEF CancelLookup, StopGoto
  <2>2. r \in Waiting(QueueOf(r)) => CancelFinding(r) # "nothing"
    BY DEF CancelFinding
  <2> QED BY <2>1, <2>2 DEF AdmissionInv, AdmissionTypeOK
<1>7. ASSUME NEW x \in Request, InQueue(x) PROVE InQueue(x)' \/ stopPc'[x] = "mark"
  <2>1. CASE IsRunning(x)
    BY <2>1, <1>5 DEF InQueue
  <2>2. CASE x \in Waiting(QueueOf(x)) /\ x # r
    <3>1. x \in Waiting(QueueOf(x))'
      BY <2>2, <1>3, <1>4 DEF QueueOf
    <3> QED BY <3>1 DEF InQueue
  <2>3. CASE x \in Waiting(QueueOf(x)) /\ x = r
    BY <2>3, <1>6
  <2> QED BY <2>1, <2>2, <2>3, <1>7 DEF InQueue
<1> QED BY <1>5, <1>7

-----------------------------------------------------------------------------
(* Every change that a reader could have missed rings *)

(* A step rings, or leaves every future and every pending ring as it was. *)
Quiet ==
    /\ \A x \in Request :
         pc[x] \in Armed /\ pc'[x] \in Armed => woken'[x] = woken[x]
    /\ \A x \in Request :
         pc[x] \in {"announce", "finishNotify", "giveBackNotify"} => pc'[x] = pc[x]
    /\ \A x \in Request :
         stopPc[x] \in {"mark", "notify"} => stopPc'[x] \in {"mark", "notify"}

LEMMA RingOrQuiet ==
    ASSUME AdmissionTypeOK, NEW r \in Request, StepOf(r)
    PROVE  NotifyWaiters \/ Quiet
<1> USE DEF AdmissionTypeOK, Goto, StopGoto, DropFuture, registryVars, taskVars,
            stopVars, Armed, Quiet
<1>1. CASE AdmitAnnounce(r) \/ AdmitGiveBackNotify(r) \/ RunFinishNotify(r)
           \/ CancelNotify(r)
  BY <1>1 DEF AdmitAnnounce, AdmitGiveBackNotify, RunFinishNotify, CancelNotify
<1>2. CASE AdmitArm(r) \/ AdmitCheckCancelled(r) \/ AdmitSleep(r) \/ AdmitForget(r)
  BY <1>2 DEF AdmitArm, AdmitCheckCancelled, AdmitSleep, AdmitForget
<1>3. CASE AdmitCheckSuperseded(r)
  BY <1>3 DEF AdmitCheckSuperseded
<1>4. CASE AdmitCancelled(r) \/ AdmitGranted(r) \/ AdmitWake(r)
  BY <1>4 DEF AdmitCancelled, CancelledExit, AdmitGranted, AdmitWake
<1>5. CASE AdmitSubmit(r) \/ AdmitGiveBack(r) \/ RunFinish(r)
  BY <1>5 DEF AdmitSubmit, AdmitGiveBack, RunFinish
<1>6. CASE CancelLookup(r) \/ CancelMark(r)
  BY <1>6 DEF CancelLookup, CancelMark
<1> QED BY <1>1, <1>2, <1>3, <1>4, <1>5, <1>6 DEF StepOf, ReadingStep

(* So an alerted task stays alerted for as long as its future exists. *)
LEMMA AlertLasts ==
    ASSUME AdmissionTypeOK, NEW r \in Request, StepOf(r),
           NEW x \in Request, pc[x] \in Armed, pc'[x] \in Armed, Alerted(x)
    PROVE  Alerted(x)'
<1>1. CASE NotifyWaiters
  BY <1>1 DEF NotifyWaiters, Alerted
<1>2. CASE Quiet
  BY <1>2 DEF Quiet, Alerted, NotifyPending
<1> QED BY <1>1, <1>2, RingOrQuiet

(* Replacing, marking and granting are announced, by the task that did it. *)
LEMMA NewsRings ==
    ASSUME AdmissionInv, NEW r \in Request, StepOf(r)
    PROVE  \/ NotifyPending'
           \/ /\ superseded' \subseteq superseded /\ cancelled' \subseteq cancelled
              /\ \A x \in Request : IsRunning(x)' => IsRunning(x)
<1> USE DEF Goto, StopGoto, registryVars
<1>1. AdmissionTypeOK
  BY DEF AdmissionInv
<1>2. CASE AdmitSubmit(r) \/ AdmitGiveBack(r) \/ RunFinish(r)
  <2>1. pc'[r] \in {"announce", "finishNotify", "giveBackNotify"}
    BY <1>1, <1>2 DEF AdmitSubmit, AdmitGiveBack, RunFinish, AdmissionTypeOK
  <2> QED BY <2>1 DEF NotifyPending
<1>3. CASE CancelMark(r)
  <2>1. stopPc'[r] = "notify"
    BY <1>1, <1>3 DEF CancelMark, AdmissionTypeOK
  <2> QED BY <2>1 DEF NotifyPending
<1>4. CASE CancelLookup(r)
  BY <1>4, LookupKeepsMembers DEF CancelLookup
<1>5. CASE ReadingStep(r) /\ ~CancelMark(r)
  <2>1. UNCHANGED queueVars
    BY <1>5 DEF ReadingStep, AdmitAnnounce, AdmitArm, AdmitCheckSuperseded,
                AdmitCheckCancelled, AdmitCancelled, AdmitGranted, AdmitSleep,
                AdmitWake, AdmitGiveBackNotify, AdmitForget, RunFinishNotify,
                CancelNotify
  <2>2. superseded' \subseteq superseded /\ cancelled' \subseteq cancelled
    BY <1>5 DEF ReadingStep, AdmitAnnounce, AdmitArm, AdmitCheckSuperseded,
                TakeSuperseded, AdmitCheckCancelled, AdmitCancelled, AdmitGranted,
                AdmitSleep, AdmitWake, AdmitGiveBackNotify, AdmitForget,
                RunFinishNotify, CancelNotify
  <2> QED BY <2>1, <2>2, SameQueue
<1> QED BY <1>2, <1>3, <1>4, <1>5 DEF StepOf

(* Within a turn of the loop a task moves on only past what it has read. *)
LEMMA TurnMoves ==
    ASSUME AdmissionTypeOK, NEW r \in Request, StepOf(r), NEW x \in Request,
           pc'[x] \in {"checkCancelled", "checkRunning", "await"}
    PROVE  \/ pc'[x] = pc[x] /\ sawCancelled'[x] = sawCancelled[x]
           \/ pc'[x] = "checkCancelled" /\ x \notin superseded'
           \/ /\ pc[x] = "checkCancelled" /\ pc'[x] = "checkRunning"
              /\ sawCancelled'[x] = (x \in cancelled')
           \/ /\ pc[x] = "checkRunning" /\ pc'[x] = "await"
              /\ ~sawCancelled'[x] /\ ~IsRunning(x)'
              /\ sawCancelled'[x] = sawCancelled[x]
<1> USE DEF AdmissionTypeOK, Goto, StopGoto, registryVars, taskVars, stopVars
<1>1. CASE AdmitAnnounce(r) \/ AdmitGiveBackNotify(r) \/ RunFinishNotify(r)
           \/ AdmitArm(r) \/ AdmitForget(r) \/ AdmitGranted(r) \/ AdmitWake(r)
  BY <1>1 DEF AdmitAnnounce, AdmitGiveBackNotify, RunFinishNotify, AdmitArm,
              AdmitForget, AdmitGranted, AdmitWake
<1>2. CASE AdmitCheckSuperseded(r)
  BY <1>2 DEF AdmitCheckSuperseded, TakeSuperseded
<1>3. CASE AdmitCheckCancelled(r)
  BY <1>3 DEF AdmitCheckCancelled
<1>4. CASE AdmitCancelled(r)
  BY <1>4 DEF AdmitCancelled, CancelledExit, ForgetSawCancelled
<1>5. CASE AdmitSleep(r)
  BY <1>5 DEF AdmitSleep, queueVars, IsRunning, QueueOf
<1>6. CASE AdmitSubmit(r) \/ AdmitGiveBack(r) \/ RunFinish(r)
  BY <1>6 DEF AdmitSubmit, AdmitGiveBack, RunFinish
<1>7. CASE CancelLookup(r) \/ CancelMark(r) \/ CancelNotify(r)
  BY <1>7 DEF CancelLookup, CancelMark, CancelNotify
<1> QED BY <1>1, <1>2, <1>3, <1>4, <1>5, <1>6, <1>7 DEF StepOf, ReadingStep

LEMMA AlertKept ==
    ASSUME AdmissionInv, NEW r \in Request, StepOf(r), NEW x \in Request, Alert(x)
    PROVE  Alert(x)'
<1>1. AdmissionTypeOK
  BY DEF AdmissionInv
<1>2. CASE pc'[x] \in {"checkCancelled", "checkRunning", "await"}
  <2>1. \/ Alerted(x)'
        \/ /\ superseded' \subseteq superseded /\ cancelled' \subseteq cancelled
           /\ IsRunning(x)' => IsRunning(x)
    BY NewsRings DEF Alerted
  <2>2. pc[x] \in Armed /\ Alerted(x) => Alerted(x)'
    BY <1>1, <1>2, AlertLasts DEF Armed
  <2>3. CASE pc'[x] = pc[x] /\ sawCancelled'[x] = sawCancelled[x]
    BY <1>2, <2>1, <2>2, <2>3 DEF Alert, Armed
  <2>4. CASE pc'[x] = "checkCancelled" /\ x \notin superseded'
    BY <2>4 DEF Alert
  <2>5. CASE /\ pc[x] = "checkCancelled" /\ pc'[x] = "checkRunning"
             /\ sawCancelled'[x] = (x \in cancelled')
    BY <2>1, <2>2, <2>5 DEF Alert, Armed
  <2>6. CASE /\ pc[x] = "checkRunning" /\ pc'[x] = "await"
             /\ ~sawCancelled'[x] /\ ~IsRunning(x)'
             /\ sawCancelled'[x] = sawCancelled[x]
    BY <2>1, <2>2, <2>6 DEF Alert, Armed
  <2> QED BY <1>1, <1>2, <2>3, <2>4, <2>5, <2>6, TurnMoves
<1>3. CASE pc'[x] \notin {"checkCancelled", "checkRunning", "await"}
  BY <1>3 DEF Alert
<1> QED BY <1>2, <1>3

(* Nobody in admit is forgotten. *)
LEMMA AccountedKept ==
    ASSUME AdmissionInv, NEW r \in Request, StepOf(r), NEW x \in Request, Accounted(x)
    PROVE  Accounted(x)'
<1> USE DEF Goto, StopGoto, registryVars, taskVars, stopVars
<1>1. AdmissionTypeOK /\ TaskOK(r)
  BY DEF AdmissionInv
<1>2. CASE AdmitSubmit(r)
  <2>1. /\ x # r => pc'[x] = pc[x]
        /\ superseded \subseteq superseded' /\ cancelled' = cancelled
        /\ stopPc' = stopPc
    BY <1>1, <1>2 DEF AdmitSubmit, AdmissionTypeOK
  <2>2. InQueue(r)' /\ (InQueue(x) => InQueue(x)' \/ x \in superseded')
    BY <1>2, SubmitKeepsMembers
  <2> QED BY <2>1, <2>2 DEF Accounted
<1>3. CASE AdmitGiveBack(r) \/ RunFinish(r)
  <2>1. /\ IF x = r THEN pc'[x] \notin InAdmit ELSE pc'[x] = pc[x]
        /\ UNCHANGED <<superseded, cancelled, stopPc>>
        /\ Finish(r) /\ pc[r] \in {"run", "giveBack"}
    BY <1>1, <1>3 DEF AdmitGiveBack, RunFinish, AdmissionTypeOK, InAdmit
  <2>2. IsRunning(r)
    BY <1>1, <2>1 DEF TaskOK, Placed
  <2>3. x # r /\ InQueue(x) => InQueue(x)'
    BY <2>1, <2>2, FinishKeepsMembers
  <2> QED BY <2>1, <2>3 DEF Accounted
<1>4. CASE CancelLookup(r)
  <2>1. /\ UNCHANGED <<superseded, cancelled, pc>>
        /\ stopPc[x] = "mark" => stopPc'[x] = "mark"
    BY <1>1, <1>4 DEF CancelLookup, AdmissionTypeOK
  <2>2. InQueue(x) => InQueue(x)' \/ stopPc'[x] = "mark"
    BY <1>4, LookupKeepsMembers
  <2> QED BY <2>1, <2>2 DEF Accounted
<1>5. CASE ReadingStep(r)
  <2>1. UNCHANGED queueVars
    BY <1>5 DEF ReadingStep, AdmitAnnounce, AdmitArm, AdmitCheckSuperseded,
                AdmitCheckCancelled, AdmitCancelled, AdmitGranted, AdmitSleep,
                AdmitWake, AdmitGiveBackNotify, AdmitForget, RunFinishNotify,
                CancelMark, CancelNotify
  <2>2. InQueue(x)' <=> InQueue(x)
    BY <2>1, SameQueue DEF InQueue
  <2>3. CASE CancelMark(r) \/ CancelNotify(r)
    BY <1>1, <2>2, <2>3
       DEF CancelMark, CancelNotify, Marked, Accounted, AdmissionTypeOK
  <2>4. CASE AdmitCheckSuperseded(r)
    BY <1>1, <2>2, <2>4
       DEF AdmitCheckSuperseded, TakeSuperseded, Accounted, AdmissionTypeOK, InAdmit
  <2>5. CASE AdmitForget(r)
    BY <1>1, <2>2, <2>5 DEF AdmitForget, Accounted, AdmissionTypeOK, InAdmit
  <2>6. CASE AdmitAnnounce(r) \/ AdmitGiveBackNotify(r) \/ RunFinishNotify(r)
             \/ AdmitArm(r) \/ AdmitCheckCancelled(r)
    BY <1>1, <2>2, <2>6
       DEF AdmitAnnounce, AdmitGiveBackNotify, RunFinishNotify, AdmitArm,
           AdmitCheckCancelled, Accounted, AdmissionTypeOK, InAdmit
  <2>7. CASE AdmitCancelled(r) \/ AdmitGranted(r) \/ AdmitSleep(r) \/ AdmitWake(r)
    BY <1>1, <2>2, <2>7
       DEF AdmitCancelled, CancelledExit, AdmitGranted, AdmitSleep, AdmitWake,
           Accounted, AdmissionTypeOK, InAdmit
  <2> QED BY <1>5, <2>3, <2>4, <2>5, <2>6, <2>7 DEF ReadingStep
<1> QED BY <1>2, <1>3, <1>4, <1>5 DEF StepOf

-----------------------------------------------------------------------------
LEMMA WakeupInit == Init => WakeupInv
BY AdmissionInit DEF Init, WakeupInv, Accounted, Alert, InAdmit

LEMMA WakeupStep == WakeupInv /\ [Next]_vars => WakeupInv'
<1> SUFFICES ASSUME WakeupInv, [Next]_vars PROVE WakeupInv'
  OBVIOUS
<1>1. AdmissionInv /\ AdmissionInv'
  BY AdmissionStep DEF WakeupInv
<1>2. ASSUME NEW r \in Request, StepOf(r) PROVE WakeupInv'
  BY <1>1, <1>2, AlertKept, AccountedKept DEF WakeupInv
<1>3. CASE UNCHANGED vars
  BY <1>1, <1>3
     DEF vars, registryVars, taskVars, stopVars, WakeupInv, Accounted, Alert,
         Alerted, NotifyPending, InQueue, IsRunning, QueueOf
<1> QED BY <1>2, <1>3
        DEF Next, AdmitStep, FinishStep, CancelStep, StepOf, ReadingStep

(* A task that sleeps in admit with nothing on its way to wake it is one    *)
(* whose turn has not come: whatever was granted, replaced or cancelled     *)
(* between its reads and its sleep has reached it.                          *)
THEOREM NoWakeupIsLost == Spec => []NoLostWakeup
<1>1. WakeupInv => NoLostWakeup
  <2> SUFFICES ASSUME WakeupInv, NEW x \in Request,
                      pc[x] = "await", ~woken[x], ~NotifyPending
               PROVE  x \in Waiting(QueueOf(x))
    BY DEF NoLostWakeup
  <2>1. Accounted(x) /\ Alert(x) /\ ~Alerted(x)
    BY DEF WakeupInv, Alerted
  <2>2. stopPc[x] # "mark"
    BY DEF NotifyPending
  <2> QED BY <2>1, <2>2 DEF Accounted, Alert, InQueue, InAdmit
<1> QED BY <1>1, WakeupInit, WakeupStep, PTL DEF Spec

=============================================================================
