-------------------------- MODULE MergeQueueProofs --------------------------
(***************************************************************************)
(* The merge queue for every set of pull requests and every bound: type    *)
(* correctness, that a busy loop works on the front entry and drops none   *)
(* (until a reset), that a release is meant for the entry it frees (when   *)
(* numbers identify pull requests), and that none is released twice.       *)
(***************************************************************************)
EXTENDS MergeQueue, SequenceTheorems, TLAPS

\* Entries are numbered in the order they arrive.
Numbered ==
    /\ Len(merge_queue) <= arrivals
    /\ \A i \in 1..Len(merge_queue) : merge_queue[i].no < arrivals
    /\ \A i, j \in 1..Len(merge_queue) : i < j => merge_queue[i].no < merge_queue[j].no
    /\ \A n \in released \cup attempted : n < arrivals

\* A completion signal is about a pull request that is closed.
NoticesTrue ==
    /\ \A p \in PR : p \in open => notices[p] = 0 /\ p \notin polled
    /\ \A p \in PR : p \notin polled => notices[p] <= 1

Inv == TypeOK /\ Numbered /\ NoticesTrue

\* What is left of a queue when its front is taken out.
LEMMA TailFacts ==
  ASSUME NEW q \in Seq(Item), q # <<>>
  PROVE  /\ Tail(q) \in Seq(Item) /\ Len(q) \in Nat /\ Len(q) >= 1
         /\ Len(Tail(q)) = Len(q) - 1
         /\ \A i \in 1..Len(Tail(q)) : i + 1 \in 1..Len(q) /\ Tail(q)[i] = q[i + 1]
         /\ Head(q) = q[1] /\ Head(q) \in Item
  <1>1. Len(q) \in Nat /\ Len(q) # 0
    BY EmptySeq, LenProperties
  <1>2. Tail(q) \in Seq(Item) /\ Len(Tail(q)) = Len(q) - 1
        /\ \A i \in 1..Len(Tail(q)) : Tail(q)[i] = q[i + 1]
        /\ Head(q) \in Item
    BY HeadTailProperties
  <1> QED
    BY <1>1, <1>2

\* The head of the loop leaves the queue alone.
LEMMA LoopHeadInv ==
  ASSUME Inv, NEW q \in Seq(Item),
         \A i \in 1..Len(q) : q[i].no < arrivals,
         LoopHead(q)
  PROVE  /\ released' \subseteq 0..(MaxArrivals - 1)
         /\ attempted' \subseteq 0..(MaxArrivals - 1)
         /\ \A n \in released' \cup attempted' : n < arrivals
         /\ loop' \in {"resolving", "idle"} /\ item' \in Item
         /\ attempted \subseteq attempted'
         /\ released' \subseteq released
         /\ loop' = "resolving" => /\ q # <<>> /\ item' = Head(q)
                                   /\ item'.no \in attempted'
  <1>1. CASE q # <<>> /\ item' = Head(q) /\ released' = released \ {Head(q).no}
             /\ attempted' = attempted \cup {Head(q).no} /\ loop' = "resolving"
    <2>1. Head(q) \in Item /\ Head(q) = q[1] /\ 1 \in 1..Len(q)
      BY <1>1, TailFacts
    <2>2. Head(q).no \in Nat /\ Head(q).no < arrivals /\ arrivals \in 0..MaxArrivals
          /\ MaxArrivals \in Nat
      BY <2>1, MergeAssumption DEF Item, Inv, TypeOK
    <2>3. Head(q).no \in 0..(MaxArrivals - 1)
      BY <2>2
    <2>4. released' \subseteq released /\ attempted' = attempted \cup {Head(q).no}
      BY <1>1
    <2>5. /\ released' \subseteq 0..(MaxArrivals - 1)
          /\ attempted' \subseteq 0..(MaxArrivals - 1)
      BY <2>3, <2>4 DEF Inv, TypeOK
    <2>6. \A n \in released' \cup attempted' : n < arrivals
      BY <2>2, <2>4 DEF Inv, Numbered
    <2> QED
      BY <1>1, <2>1, <2>4, <2>5, <2>6
  <1>2. CASE q = <<>> /\ loop' = "idle" /\ UNCHANGED <<item, released, attempted>>
    BY <1>2 DEF Inv, TypeOK, Numbered
  <1> QED
    BY <1>1, <1>2 DEF LoopHead

\* A pop, in a queue or (after a reset) on an empty one.
LEMMA PopInv ==
  ASSUME Inv, Pop
  PROVE  Inv'
  <1> USE MergeAssumption
  <1>1. UNCHANGED <<outside, arrivals, wiped, due, suspended>> /\ arrivals \in Nat
        /\ merge_queue \in Seq(Item)
    BY DEF Pop, Inv, TypeOK
  <1>2. CASE merge_queue # <<>> /\ merge_queue' = Tail(merge_queue)
             /\ LoopHead(Tail(merge_queue))
    <2> DEFINE q == Tail(merge_queue)
    <2>1. /\ q \in Seq(Item) /\ Len(q) = Len(merge_queue) - 1 /\ Len(merge_queue) \in Nat
          /\ \A i \in 1..Len(q) : i + 1 \in 1..Len(merge_queue) /\ q[i] = merge_queue[i + 1]
      BY <1>1, <1>2, TailFacts
    <2> HIDE DEF q
    <2>2. \A i \in 1..Len(q) : q[i].no < arrivals
      BY <2>1 DEF Inv, Numbered
    <2>3. ASSUME NEW i \in 1..Len(q), NEW j \in 1..Len(q), i < j
          PROVE  q[i].no < q[j].no
      <3>1. /\ i + 1 \in 1..Len(merge_queue) /\ q[i] = merge_queue[i + 1]
            /\ j + 1 \in 1..Len(merge_queue) /\ q[j] = merge_queue[j + 1]
        BY <2>1
      <3>2. i + 1 < j + 1
        BY <2>1, <2>3
      <3>3. merge_queue[i + 1].no < merge_queue[j + 1].no
        BY <3>1, <3>2 DEF Inv, Numbered
      <3> QED
        BY <3>1, <3>3
    <2>4. LoopHead(q) /\ merge_queue' = q
      BY <1>2 DEF q
    <2>5. /\ released' \subseteq 0..(MaxArrivals - 1)
          /\ attempted' \subseteq 0..(MaxArrivals - 1)
          /\ \A n \in released' \cup attempted' : n < arrivals
          /\ loop' \in {"resolving", "idle"} /\ item' \in Item
      BY <2>1, <2>2, <2>4, LoopHeadInv
    <2>6. Numbered'
      <3>1. Len(q) <= arrivals
        BY <1>1, <2>1 DEF Inv, Numbered
      <3>2. merge_queue' = q /\ arrivals' = arrivals
        BY <1>1, <2>4
      <3> QED
        BY <2>2, <2>3, <2>5, <3>1, <3>2 DEF Numbered
    <2>7. Len(q) <= MaxArrivals
      BY <2>1 DEF Inv, TypeOK
    <2>8. TypeOK'
      BY <1>1, <2>1, <2>4, <2>5, <2>7 DEF TypeOK, Inv, outside
    <2> QED
      BY <1>1, <2>6, <2>8 DEF Inv, NoticesTrue, outside
  <1>3. CASE merge_queue = <<>> /\ loop' = "dead"
             /\ UNCHANGED <<merge_queue, item, released, attempted>>
    BY <1>1, <1>3 DEF Inv, TypeOK, Numbered, NoticesTrue, outside
  <1> QED
    BY <1>2, <1>3 DEF Pop

\* A merge is appended behind the others.
LEMMA EnqueueInv ==
  ASSUME Inv, NEW p \in PR, EnqueueMerge(p)
  PROVE  Inv'
  <1> USE MergeAssumption
  <1> DEFINE new == [no |-> arrivals, pr |-> p]
  <1>1. /\ merge_queue \in Seq(Item) /\ new \in Item /\ arrivals \in Nat
        /\ arrivals < MaxArrivals /\ arrivals' = arrivals + 1
        /\ merge_queue' = Append(merge_queue, new)
        /\ UNCHANGED <<open, polled, notices, released, loop, item, attempted, wiped, due, suspended>>
        /\ conflicts' \subseteq PR
    BY DEF EnqueueMerge, Inv, TypeOK, Item
  <1>2. new.no = arrivals
    OBVIOUS
  <1> HIDE DEF new
  <1>3. /\ merge_queue' \in Seq(Item) /\ Len(merge_queue') = Len(merge_queue) + 1
        /\ Len(merge_queue) \in Nat
        /\ \A i \in 1..Len(merge_queue) : merge_queue'[i] = merge_queue[i]
        /\ merge_queue'[Len(merge_queue) + 1] = new
    BY <1>1, AppendProperties, LenProperties
  <1>4. \A i \in 1..Len(merge_queue') : i \in 1..Len(merge_queue) \/ i = Len(merge_queue) + 1
    BY <1>3
  <1>5. \A i \in 1..Len(merge_queue') : merge_queue'[i].no < arrivals'
    <2> TAKE i \in 1..Len(merge_queue')
    <2>1. CASE i \in 1..Len(merge_queue)
      <3>1. merge_queue[i].no < arrivals /\ merge_queue[i] \in Item
        BY <1>1, <2>1, ElementOfSeq DEF Inv, Numbered
      <3>2. merge_queue'[i] = merge_queue[i]
        BY <1>3, <2>1
      <3>3. merge_queue[i].no \in Int
        BY <3>1, MergeAssumption DEF Item
      <3> QED
        BY <1>1, <3>1, <3>2, <3>3
    <2>2. CASE i = Len(merge_queue) + 1
      BY <1>1, <1>2, <1>3, <2>2
    <2> QED
      BY <1>4, <2>1, <2>2
  <1>6. \A i, j \in 1..Len(merge_queue') : i < j => merge_queue'[i].no < merge_queue'[j].no
    <2> TAKE i, j \in 1..Len(merge_queue')
    <2> HAVE i < j
    <2>1. i \in 1..Len(merge_queue)
      BY <1>3
    <2>2. CASE j \in 1..Len(merge_queue)
      BY <1>3, <2>1, <2>2 DEF Inv, Numbered
    <2>3. CASE j = Len(merge_queue) + 1
      BY <1>2, <1>3, <2>1, <2>3 DEF Inv, Numbered
    <2> QED
      BY <1>4, <2>2, <2>3
  <1>7. \A n \in released' \cup attempted' : n < arrivals'
    BY <1>1 DEF Inv, TypeOK, Numbered
  <1>8. Numbered'
    BY <1>1, <1>3, <1>5, <1>6, <1>7 DEF Numbered, Inv
  <1>9. TypeOK'
    BY <1>1, <1>3 DEF TypeOK, Inv, Numbered
  <1> QED
    BY <1>1, <1>8, <1>9 DEF Inv, NoticesTrue

\* A completion signal releases the front entry or nothing.
LEMMA PrMergeCompletedInv ==
  ASSUME Inv, NEW p \in PR, PrMergeCompleted(p)
  PROVE  Inv'
  <1> USE MergeAssumption
  <1>1. /\ notices' \in [PR -> 0..2]
        /\ \A r \in PR : notices'[r] <= notices[r] /\ notices'[r] \in Nat
    BY DEF PrMergeCompleted, Inv, TypeOK
  <1>2. \A n \in released' : n \in released \/ (merge_queue # <<>> /\ n = Head(merge_queue).no)
    BY DEF PrMergeCompleted
  <1>3. merge_queue # <<>> =>
          Head(merge_queue).no \in 0..(MaxArrivals - 1) /\ Head(merge_queue).no < arrivals
    <2> SUFFICES ASSUME merge_queue # <<>>
                 PROVE  Head(merge_queue).no \in 0..(MaxArrivals - 1)
                        /\ Head(merge_queue).no < arrivals
      OBVIOUS
    <2>1. merge_queue \in Seq(Item) /\ arrivals \in 0..MaxArrivals
      BY DEF Inv, TypeOK
    <2>2. Head(merge_queue) = merge_queue[1] /\ Head(merge_queue) \in Item
          /\ 1 \in 1..Len(merge_queue)
      BY <2>1, TailFacts
    <2> QED
      BY <2>1, <2>2 DEF Inv, Numbered, Item
  <1>4. released' \subseteq 0..(MaxArrivals - 1) /\ \A n \in released' : n < arrivals
    BY <1>2, <1>3 DEF Inv, TypeOK, Numbered
  <1>5. TypeOK' /\ Numbered'
    BY <1>1, <1>4 DEF PrMergeCompleted, Inv, TypeOK, Numbered
  <1>6. NoticesTrue'
    BY <1>1 DEF PrMergeCompleted, Inv, TypeOK, NoticesTrue
  <1> QED
    BY <1>5, <1>6 DEF Inv

LEMMA NextInv ==
  ASSUME Inv, [Next]_vars
  PROVE  Inv'
  <1> USE MergeAssumption
  <1>1. ASSUME NEW p \in PR, Conflict(p)
        PROVE  Inv'
    BY <1>1 DEF Conflict, Inv, TypeOK, Numbered, NoticesTrue, inside
  <1>2. ASSUME NEW p \in PR, Close(p)
        PROVE  Inv'
    BY <1>2 DEF Close, Inv, TypeOK, Numbered, NoticesTrue, inside
  <1>3. ASSUME NEW p \in PR, Poll(p)
        PROVE  Inv'
    BY <1>3 DEF Poll, Inv, TypeOK, Numbered, NoticesTrue, inside
  <1>4. CASE ResetState
    <2>1. merge_queue' = <<>> /\ merge_queue' \in Seq(Item) /\ Len(merge_queue') = 0
      BY <1>4 DEF ResetState
    <2> QED
      BY <1>4, <2>1 DEF ResetState, Inv, TypeOK, Numbered, NoticesTrue, outside
  <1>5. CASE Take
    <2>1. merge_queue \in Seq(Item) /\ \A i \in 1..Len(merge_queue) : merge_queue[i].no < arrivals
      BY DEF Inv, TypeOK, Numbered
    <2>2. /\ released' \subseteq 0..(MaxArrivals - 1)
          /\ attempted' \subseteq 0..(MaxArrivals - 1)
          /\ \A n \in released' \cup attempted' : n < arrivals
          /\ loop' \in {"resolving", "idle"} /\ item' \in Item
      BY <1>5, <2>1, LoopHeadInv DEF Take
    <2> QED
      BY <1>5, <2>2 DEF Take, Inv, TypeOK, Numbered, NoticesTrue, outside
  <1>6. CASE Resolved
    BY <1>6 DEF Resolved, Inv, TypeOK, Numbered, NoticesTrue, outside
  <1>7. CASE Released \/ WaitTimeout
    BY <1>7, PopInv DEF Released, WaitTimeout
  <1>8. CASE HistoryGrows \/ LockTraffic
    BY <1>8 DEF HistoryGrows, LockTraffic, Inv, TypeOK, Numbered, NoticesTrue, inside, outside
  <1>9. CASE ContinueAsNew
    BY <1>9 DEF ContinueAsNew, Inv, TypeOK, Numbered, NoticesTrue, outside
  <1>10. CASE UNCHANGED vars
    BY <1>10 DEF vars, inside, outside, Inv, TypeOK, Numbered, NoticesTrue
  <1> QED
    BY <1>1, <1>2, <1>3, <1>4, <1>5, <1>6, <1>7, <1>8, <1>9, <1>10, EnqueueInv,
       PrMergeCompletedInv DEF Next

LEMMA InitInv == Init => Inv
  <1> USE MergeAssumption
  <1> SUFFICES ASSUME Init PROVE Inv
    OBVIOUS
  <1>1. NoItem \in Item
    BY DEF NoItem, Item
  <1>2. merge_queue = <<>> /\ merge_queue \in Seq(Item) /\ Len(merge_queue) = 0
    BY DEF Init
  <1>3. TypeOK
    <2>1. 0 \in 0..MaxArrivals /\ 0 <= MaxArrivals
      OBVIOUS
    <2>2. notices \in [PR -> 0..2] /\ open \subseteq PR
      BY DEF Init
    <2>3. merge_queue \in Seq(Item) /\ Len(merge_queue) <= MaxArrivals
      BY <1>2, <2>1
    <2>4. /\ polled = {} /\ conflicts = {} /\ released = {} /\ attempted = {} /\ arrivals = 0
          /\ loop = "idle" /\ item = NoItem /\ wiped = FALSE /\ due = FALSE /\ suspended = FALSE
      BY DEF Init
    <2> QED
      BY <1>1, <2>1, <2>2, <2>3, <2>4 DEF TypeOK
  <1>4. Numbered /\ NoticesTrue
    BY <1>2 DEF Init, Numbered, NoticesTrue
  <1> QED
    BY <1>3, <1>4 DEF Inv

\* Type correctness of the merge queue, resets included.
THEOREM TypeCorrect == Spec => []TypeOK
  <1>1. Inv => TypeOK
    BY DEF Inv
  <1> QED
    BY <1>1, InitInv, NextInv, PTL DEF Spec

-----------------------------------------------------------------------------
(* Until a reset: the busy loop works  on the front entry.                 *)

FrontIsItem ==
    loop \in {"resolving", "waiting"} => merge_queue # <<>> /\ Head(merge_queue) = item

NoneDropped == \A n \in 0..(arrivals - 1) : n \in attempted \cup Queued

\* The item of a busy loop was started, and no entry is dropped unstarted.
Orderly ==
    /\ FrontIsItem
    /\ loop \in {"resolving", "waiting"} => item.no \in attempted
    /\ loop # "dead"
    /\ NoneDropped

\* The entries left by a pop are those there were but the front.
LEMMA QueuedTail ==
  ASSUME Inv, merge_queue # <<>>, merge_queue' = Tail(merge_queue)
  PROVE  Queued \subseteq Queued' \cup {Head(merge_queue).no}
  <1>1. /\ merge_queue \in Seq(Item) /\ Len(merge_queue) \in Nat
        /\ Len(Tail(merge_queue)) = Len(merge_queue) - 1
        /\ \A i \in 1..Len(Tail(merge_queue)) : Tail(merge_queue)[i] = merge_queue[i + 1]
        /\ Head(merge_queue) = merge_queue[1]
        /\ Tail(merge_queue) \in Seq(Item)
    BY TailFacts DEF Inv, TypeOK
  <1>2. DOMAIN merge_queue = 1..Len(merge_queue)
        /\ DOMAIN Tail(merge_queue) = 1..Len(Tail(merge_queue))
    BY <1>1, LenProperties
  <1>3. ASSUME NEW i \in 1..Len(merge_queue), i # 1
        PROVE  merge_queue[i].no \in Queued'
    <2>1. i - 1 \in 1..Len(Tail(merge_queue)) /\ (i - 1) + 1 = i
      BY <1>1, <1>3
    <2>2. Tail(merge_queue)[i - 1] = merge_queue[i]
      BY <1>1, <2>1
    <2>3. Queued' = {Tail(merge_queue)[k].no : k \in DOMAIN Tail(merge_queue)}
      BY DEF Queued
    <2> QED
      BY <1>2, <2>1, <2>2, <2>3
  <1> QED
    BY <1>1, <1>2, <1>3 DEF Queued

LEMMA PopOrderly ==
  ASSUME Inv, Orderly, loop = "waiting", Pop
  PROVE  Orderly'
  <1>1. merge_queue # <<>> /\ Head(merge_queue) = item /\ item.no \in attempted
    BY DEF Orderly, FrontIsItem
  <1>2. merge_queue' = Tail(merge_queue) /\ LoopHead(Tail(merge_queue)) /\ arrivals' = arrivals
    BY <1>1 DEF Pop
  <1>3. /\ Tail(merge_queue) \in Seq(Item)
        /\ \A i \in 1..Len(Tail(merge_queue)) :
             i + 1 \in 1..Len(merge_queue) /\ Tail(merge_queue)[i] = merge_queue[i + 1]
    BY <1>1, TailFacts DEF Inv, TypeOK
  <1>4. \A i \in 1..Len(Tail(merge_queue)) : Tail(merge_queue)[i].no < arrivals
    BY <1>3 DEF Inv, Numbered
  <1>5. /\ loop' \in {"resolving", "idle"} /\ attempted \subseteq attempted'
        /\ loop' = "resolving" => /\ Tail(merge_queue) # <<>> /\ item' = Head(Tail(merge_queue))
                                  /\ item'.no \in attempted'
    BY <1>2, <1>3, <1>4, LoopHeadInv
  <1>6. Queued \subseteq Queued' \cup {item.no}
    BY <1>1, <1>2, QueuedTail
  <1>7. NoneDropped'
    BY <1>1, <1>2, <1>5, <1>6 DEF Orderly, NoneDropped
  <1> QED
    BY <1>2, <1>5, <1>7 DEF Orderly, FrontIsItem

LEMMA EnqueueOrderly ==
  ASSUME Inv, Orderly, NEW p \in PR, EnqueueMerge(p)
  PROVE  Orderly'
  <1> DEFINE new == [no |-> arrivals, pr |-> p]
  <1>1. /\ merge_queue \in Seq(Item) /\ new \in Item /\ arrivals \in Nat
        /\ arrivals' = arrivals + 1 /\ merge_queue' = Append(merge_queue, new)
        /\ UNCHANGED <<loop, item, attempted, wiped>> /\ new.no = arrivals
    BY DEF EnqueueMerge, Inv, TypeOK, Item
  <1> HIDE DEF new
  <1>2. /\ merge_queue' \in Seq(Item) /\ Len(merge_queue') = Len(merge_queue) + 1
        /\ Len(merge_queue) \in Nat
        /\ \A i \in 1..Len(merge_queue) : merge_queue'[i] = merge_queue[i]
        /\ merge_queue'[Len(merge_queue) + 1] = new
        /\ DOMAIN merge_queue' = 1..(Len(merge_queue) + 1)
        /\ DOMAIN merge_queue = 1..Len(merge_queue)
    BY <1>1, AppendProperties, LenProperties
  <1>3. Queued' = {merge_queue'[k].no : k \in DOMAIN merge_queue'}
    BY DEF Queued
  <1>4. Queued \subseteq Queued' /\ arrivals \in Queued'
    <2>1. ASSUME NEW i \in DOMAIN merge_queue
          PROVE  merge_queue[i].no \in Queued'
      BY <1>2, <1>3, <2>1
    <2>2. Len(merge_queue) + 1 \in DOMAIN merge_queue'
      BY <1>2
    <2> QED
      BY <1>1, <1>2, <1>3, <2>1, <2>2 DEF Queued
  <1>5. NoneDropped'
    <2> SUFFICES ASSUME NEW n \in 0..(arrivals' - 1)
                 PROVE  n \in attempted' \cup Queued'
      BY DEF NoneDropped
    <2>1. n \in 0..(arrivals - 1) \/ n = arrivals
      BY <1>1
    <2> QED
      BY <1>1, <1>4, <2>1 DEF Orderly, NoneDropped
  <1>6. merge_queue # <<>> => merge_queue' # <<>> /\ Head(merge_queue') = Head(merge_queue)
    <2> SUFFICES ASSUME merge_queue # <<>>
                 PROVE  merge_queue' # <<>> /\ Head(merge_queue') = Head(merge_queue)
      OBVIOUS
    <2>1. Head(merge_queue) = merge_queue[1] /\ 1 \in 1..Len(merge_queue)
      BY <1>1, TailFacts
    <2>2. merge_queue' # <<>>
      BY <1>2, EmptySeq
    <2>3. Head(merge_queue') = merge_queue'[1]
      BY <1>2, <2>2, TailFacts
    <2> QED
      BY <1>2, <2>1, <2>2, <2>3
  <1> QED
    BY <1>1, <1>5, <1>6 DEF Orderly, FrontIsItem

LEMMA TakeOrderly ==
  ASSUME Inv, Orderly, Take
  PROVE  Orderly'
  <1>1. merge_queue \in Seq(Item) /\ \A i \in 1..Len(merge_queue) : merge_queue[i].no < arrivals
    BY DEF Inv, TypeOK, Numbered
  <1>2. LoopHead(merge_queue) /\ UNCHANGED <<merge_queue, arrivals>>
    BY DEF Take
  <1>3. /\ loop' \in {"resolving", "idle"} /\ attempted \subseteq attempted'
        /\ loop' = "resolving" => /\ merge_queue # <<>> /\ item' = Head(merge_queue)
                                  /\ item'.no \in attempted'
    BY <1>1, <1>2, LoopHeadInv
  <1>4. NoneDropped'
    BY <1>2, <1>3 DEF Orderly, NoneDropped, Queued
  <1> QED
    BY <1>2, <1>3, <1>4 DEF Orderly, FrontIsItem

LEMMA NextOrderly ==
  ASSUME Inv, Orderly, ~wiped', [Next]_vars
  PROVE  Orderly'
  <1>1. CASE UNCHANGED inside
    BY <1>1 DEF inside, Orderly, FrontIsItem, NoneDropped, Queued
  <1>2. ASSUME NEW p \in PR, PrMergeCompleted(p)
        PROVE  Orderly'
    BY <1>2 DEF PrMergeCompleted, Orderly, FrontIsItem, NoneDropped, Queued
  <1>3. CASE Resolved
    BY <1>3 DEF Resolved, Orderly, FrontIsItem, NoneDropped, Queued
  <1>4. CASE Released \/ WaitTimeout
    BY <1>4, PopOrderly DEF Released, WaitTimeout
  <1>5. CASE ContinueAsNew
    BY <1>5 DEF ContinueAsNew, Orderly, FrontIsItem, NoneDropped, Queued
  <1>6. CASE ResetState
    <2>1. merge_queue = <<>> /\ merge_queue' = merge_queue
      BY <1>6 DEF ResetState
    <2>2. QED
      BY <1>6, <2>1 DEF ResetState, Orderly, FrontIsItem, NoneDropped, Queued
  <1> QED
    BY <1>1, <1>2, <1>3, <1>4, <1>5, <1>6, EnqueueOrderly, TakeOrderly
       DEF Next, Conflict, Close, Poll, HistoryGrows, LockTraffic, vars

LEMMA InitOrderly == Init => Orderly
  BY DEF Init, Orderly, FrontIsItem, NoneDropped

LEMMA OrderlyInductive ==
  Inv /\ (~wiped => Orderly) /\ [Next]_vars => (Inv /\ (~wiped => Orderly))'
  <1> SUFFICES ASSUME Inv, ~wiped => Orderly, [Next]_vars
               PROVE  Inv' /\ (~wiped' => Orderly')
    OBVIOUS
  <1>1. wiped => wiped'
    BY DEF Next, Conflict, Close, Poll, EnqueueMerge, PrMergeCompleted, ResetState, Take,
       Resolved, Released, WaitTimeout, Pop, HistoryGrows, LockTraffic, ContinueAsNew, vars, inside
  <1>2. QED
    BY <1>1, NextInv, NextOrderly

\* Unless an administrator throws entries away, a busy loop's item is the front
\* entry: pop(0) takes out what was processed and the gate covers what is in flight.
THEOREM LoopOwnsFront == Spec => []BusyMeansFront
  <1>1. (~wiped => Orderly) => BusyMeansFront
    BY DEF Orderly, FrontIsItem, BusyMeansFront
  <1>2. Init => Inv /\ (~wiped => Orderly)
    BY InitInv, InitOrderly
  <1> QED
    BY <1>1, <1>2, OrderlyInductive, PTL DEF Spec

\* Nor is an enqueued merge dropped before its resolution was started.
THEOREM NoMergeDropped == Spec => []NothingDropped
  <1>1. (~wiped => Orderly) => NothingDropped
    BY DEF Orderly, NoneDropped, NothingDropped
  <1>2. Init => Inv /\ (~wiped => Orderly)
    BY InitInv, InitOrderly
  <1> QED
    BY <1>1, <1>2, OrderlyInductive, PTL DEF Spec

-----------------------------------------------------------------------------
(* A release is meant for a pull request of that number.                   *)

LEMMA PopOwn ==
  ASSUME Inv, OnlyItsNumber, Pop
  PROVE  OnlyItsNumber'
  <1>1. open' = open
    BY DEF Pop, outside
  <1>2. CASE merge_queue # <<>> /\ merge_queue' = Tail(merge_queue)
             /\ LoopHead(Tail(merge_queue))
    <2>1. /\ Tail(merge_queue) \in Seq(Item)
          /\ \A i \in 1..Len(Tail(merge_queue)) :
               i + 1 \in 1..Len(merge_queue) /\ Tail(merge_queue)[i] = merge_queue[i + 1]
      BY <1>2, TailFacts DEF Inv, TypeOK
    <2>2. \A i \in 1..Len(Tail(merge_queue)) : Tail(merge_queue)[i].no < arrivals
      BY <2>1 DEF Inv, Numbered
    <2>3. released' \subseteq released
      BY <1>2, <2>1, <2>2, LoopHeadInv
    <2>4. DOMAIN merge_queue = 1..Len(merge_queue)
          /\ DOMAIN Tail(merge_queue) = 1..Len(Tail(merge_queue))
      BY <2>1, LenProperties DEF Inv, TypeOK
    <2> QED
      BY <1>1, <1>2, <2>1, <2>3, <2>4 DEF OnlyItsNumber
  <1>3. CASE merge_queue = <<>> /\ UNCHANGED <<merge_queue, released>>
    BY <1>1, <1>3 DEF OnlyItsNumber
  <1> QED
    BY <1>2, <1>3 DEF Pop

LEMMA EnqueueOwn ==
  ASSUME Inv, OnlyItsNumber, NEW p \in PR, EnqueueMerge(p)
  PROVE  OnlyItsNumber'
  <1> DEFINE new == [no |-> arrivals, pr |-> p]
  <1>1. /\ merge_queue \in Seq(Item) /\ new \in Item /\ arrivals \in Nat
        /\ merge_queue' = Append(merge_queue, new)
        /\ UNCHANGED <<open, released>> /\ new.no = arrivals
    BY DEF EnqueueMerge, Inv, TypeOK, Item
  <1>2. arrivals \notin released
    BY <1>1 DEF Inv, Numbered
  <1> HIDE DEF new
  <1>3. /\ \A i \in 1..Len(merge_queue) : merge_queue'[i] = merge_queue[i]
        /\ merge_queue'[Len(merge_queue) + 1] = new
        /\ Len(merge_queue) \in Nat
        /\ DOMAIN merge_queue' = 1..(Len(merge_queue) + 1)
        /\ DOMAIN merge_queue = 1..Len(merge_queue)
    BY <1>1, AppendProperties, LenProperties
  <1>4. ASSUME NEW i \in DOMAIN merge_queue', merge_queue'[i].no \in released
        PROVE  \E r \in PR \ open : Number[r] = Number[merge_queue'[i].pr]
    <2>1. i \in 1..Len(merge_queue) \/ i = Len(merge_queue) + 1
      BY <1>3
    <2> QED
      BY <1>1, <1>2, <1>3, <1>4, <2>1 DEF OnlyItsNumber
  <1> QED
    BY <1>1, <1>4 DEF OnlyItsNumber

LEMMA PrMergeCompletedOwn ==
  ASSUME Inv, OnlyItsNumber, NEW p \in PR, PrMergeCompleted(p)
  PROVE  OnlyItsNumber'
  <1>1. UNCHANGED <<open, merge_queue>> /\ p \notin open
    BY DEF PrMergeCompleted, Inv, NoticesTrue
  <1>2. CASE merge_queue # <<>> /\ Number[Head(merge_queue).pr] = Number[p]
    <2>1. /\ Head(merge_queue) = merge_queue[1] /\ Head(merge_queue) \in Item
          /\ 1 \in 1..Len(merge_queue) /\ Len(merge_queue) \in Nat
      BY <1>2, TailFacts DEF Inv, TypeOK
    <2>3. DOMAIN merge_queue = 1..Len(merge_queue)
      BY LenProperties DEF Inv, TypeOK
    <2>4. ASSUME NEW i \in 1..Len(merge_queue), merge_queue[i].no = Head(merge_queue).no
          PROVE  i = 1
      <3>1. ~(1 < i)
        <4>1. ASSUME NEW k \in 1..Len(merge_queue)
              PROVE  merge_queue[k].no \in Nat
          <5>1. merge_queue[k] \in Item
            BY ElementOfSeq DEF Inv, TypeOK
          <5> QED
            BY <5>1 DEF Item
        <4> QED
          BY <2>1, <2>4, <4>1 DEF Inv, Numbered
      <3> QED
        BY <2>4, <3>1
    <2>5. released' = released \cup {Head(merge_queue).no}
      BY <1>2 DEF PrMergeCompleted
    <2>6. ASSUME NEW i \in 1..Len(merge_queue), merge_queue[i].no \in released'
          PROVE  \E r \in PR \ open : Number[r] = Number[merge_queue[i].pr]
      <3>1. CASE merge_queue[i].no \in released
        BY <2>3, <2>6, <3>1 DEF OnlyItsNumber
      <3>2. CASE merge_queue[i].no = Head(merge_queue).no
        BY <1>1, <1>2, <2>1, <2>4, <2>6, <3>2
      <3> QED
        BY <2>5, <2>6, <3>1, <3>2
    <2> QED
      BY <1>1, <2>3, <2>6 DEF OnlyItsNumber
  <1>3. CASE ~(merge_queue # <<>> /\ Number[Head(merge_queue).pr] = Number[p])
    <2>1. released' = released
      BY <1>3 DEF PrMergeCompleted
    <2> QED
      BY <1>1, <2>1 DEF OnlyItsNumber
  <1> QED
    BY <1>2, <1>3

\* Whatever numbers the pull requests of a tenant's repositories have: a wait that was
\* ended by pr_merge_completed was ended by a pull request with the number of the
\* entry's own that is merged or closed.
THEOREM ReleasesAreMeant == Spec => []OnlyItsNumber
  <1>1. Init => OnlyItsNumber
    BY DEF Init, OnlyItsNumber
  <1>2. ASSUME Inv, OnlyItsNumber, [Next]_vars
        PROVE  OnlyItsNumber'
    <2>1. CASE UNCHANGED <<merge_queue, released>> /\ open' \subseteq open
      BY <1>2, <2>1 DEF OnlyItsNumber
    <2>2. CASE ResetState
      BY <2>2 DEF ResetState, OnlyItsNumber
    <2>3. CASE Take
      <3>1. \A i \in 1..Len(merge_queue) : merge_queue[i].no < arrivals
        BY <1>2 DEF Inv, Numbered
      <3>2. released' \subseteq released
        BY <1>2, <2>3, <3>1, LoopHeadInv DEF Take, Inv, TypeOK
      <3> QED
        BY <1>2, <2>3, <3>2 DEF Take, OnlyItsNumber, outside
    <2>4. CASE Released \/ WaitTimeout
      BY <1>2, <2>4, PopOwn DEF Released, WaitTimeout
    <2> QED
      BY <1>2, <2>1, <2>2, <2>3, <2>4, EnqueueOwn, PrMergeCompletedOwn
         DEF Next, Conflict, Close, Poll, Resolved, HistoryGrows, LockTraffic,
             ContinueAsNew, vars, inside, outside
  <1>3. Inv /\ OnlyItsNumber /\ [Next]_vars => (Inv /\ OnlyItsNumber)'
    BY <1>2, NextInv
  <1> QED
    BY <1>1, <1>3, InitInv, PTL DEF Spec

-----------------------------------------------------------------------------
(* No entry is resolved twice, resets included.                            *)

\* Only the entry at the front may have been started, and none has while the loop
\* waits for one.
BehindUntouched ==
    /\ \A i \in 1..Len(merge_queue) : i > 1 => merge_queue[i].no \notin attempted
    /\ loop = "idle" => \A i \in 1..Len(merge_queue) : merge_queue[i].no \notin attempted

\* The loop starts the front of q: the entries behind it stay untouched.
LEMMA LoopHeadOnce ==
  ASSUME Inv, NEW q \in Seq(Item), LoopHead(q),
         \A i \in 1..Len(q) : q[i].no \notin attempted,
         \A i \in 1..Len(q) : q[i].no < arrivals,
         \A i, j \in 1..Len(q) : i < j => q[i].no < q[j].no
  PROVE  /\ \A i \in 1..Len(q) : i > 1 => q[i].no \notin attempted'
         /\ loop' = "idle" => q = <<>>
         /\ loop' = "resolving" => item'.no \notin attempted
  <1>1. CASE q = <<>>
    BY <1>1, LenProperties DEF LoopHead
  <1>2. CASE q # <<>>
    <2>1. Head(q) = q[1] /\ 1 \in 1..Len(q) /\ Len(q) \in Nat
      BY <1>2, TailFacts
    <2>2. item' = q[1] /\ attempted' = attempted \cup {q[1].no} /\ loop' = "resolving"
      BY <1>2, <2>1 DEF LoopHead
    <2>3. \A i \in 1..Len(q) : i > 1 => q[i].no \notin attempted'
      <3> SUFFICES ASSUME NEW i \in 1..Len(q), i > 1 PROVE q[i].no # q[1].no
        BY <2>2
      <3>1. q[1] \in Item /\ q[i] \in Item
        BY <2>1, ElementOfSeq
      <3>2. q[1].no < q[i].no
        BY <2>1
      <3>3. QED BY <3>1, <3>2 DEF Item
    <2>4. QED BY <2>1, <2>2, <2>3
  <1>3. QED BY <1>1, <1>2

LEMMA BehindUntouchedStep ==
  ASSUME Inv, BehindUntouched, [Next]_vars
  PROVE  /\ BehindUntouched'
         /\ loop' = "resolving" /\ loop # "resolving" => item'.no \notin attempted
  <1>0. merge_queue \in Seq(Item) /\ Len(merge_queue) \in Nat
    BY LenProperties DEF Inv, TypeOK
  <1>1. CASE UNCHANGED <<merge_queue, attempted, loop>>
    BY <1>1 DEF BehindUntouched
  <1>2. CASE ResetState
    BY <1>2, LenProperties DEF ResetState, BehindUntouched
  <1>3. CASE Resolved
    BY <1>3 DEF Resolved, BehindUntouched
  <1>4. CASE ContinueAsNew
    BY <1>4, LenProperties DEF ContinueAsNew, SafePoint, BehindUntouched
  <1>5. ASSUME NEW p \in PR, EnqueueMerge(p)
        PROVE  BehindUntouched' /\ loop' = loop
    <2>1. /\ Len(merge_queue') = Len(merge_queue) + 1
          /\ \A i \in 1..Len(merge_queue) : merge_queue'[i] = merge_queue[i]
          /\ merge_queue'[Len(merge_queue) + 1].no = arrivals
      BY <1>0, <1>5, AppendProperties DEF EnqueueMerge, Inv, TypeOK, Item
    <2>2. arrivals \notin attempted
      BY DEF Inv, TypeOK, Numbered
    <2>3. ASSUME NEW i \in 1..Len(merge_queue')
          PROVE  i \in 1..Len(merge_queue) \/ i = Len(merge_queue) + 1
      BY <1>0, <2>1
    <2>4. QED BY <1>0, <1>5, <2>1, <2>2, <2>3 DEF EnqueueMerge, BehindUntouched
  <1>6. CASE Take
    <2>1. /\ \A i \in 1..Len(merge_queue) : merge_queue[i].no \notin attempted
          /\ \A i \in 1..Len(merge_queue) : merge_queue[i].no < arrivals
          /\ \A i, j \in 1..Len(merge_queue) : i < j => merge_queue[i].no < merge_queue[j].no
      BY <1>6 DEF Take, BehindUntouched, Inv, Numbered
    <2>2. /\ LoopHead(merge_queue) /\ merge_queue' = merge_queue /\ merge_queue # <<>>
      BY <1>6 DEF Take
    <2>3. /\ \A i \in 1..Len(merge_queue) : i > 1 => merge_queue[i].no \notin attempted'
          /\ loop' = "idle" => merge_queue = <<>>
          /\ loop' = "resolving" => item'.no \notin attempted
      BY <1>0, <2>1, <2>2, LoopHeadOnce
    <2>4. QED BY <2>2, <2>3 DEF BehindUntouched
  <1>7. CASE Pop /\ merge_queue # <<>>
    <2> DEFINE q == Tail(merge_queue)
    <2>1. /\ q \in Seq(Item) /\ Len(q) = Len(merge_queue) - 1
          /\ \A i \in 1..Len(q) : i + 1 \in 1..Len(merge_queue) /\ q[i] = merge_queue[i + 1]
      BY <1>0, <1>7, TailFacts
    <2>2. merge_queue' = q /\ LoopHead(q)
      BY <1>7 DEF Pop
    <2> HIDE DEF q
    <2>3. /\ \A i \in 1..Len(q) : q[i].no \notin attempted
          /\ \A i \in 1..Len(q) : q[i].no < arrivals
      <3> SUFFICES ASSUME NEW i \in 1..Len(q) PROVE q[i].no \notin attempted /\ q[i].no < arrivals
        OBVIOUS
      <3>1. i + 1 > 1 /\ i + 1 \in 1..Len(merge_queue) /\ q[i] = merge_queue[i + 1]
        BY <2>1
      <3>2. QED BY <3>1 DEF BehindUntouched, Inv, Numbered
    <2>4. \A i, j \in 1..Len(q) : i < j => q[i].no < q[j].no
      <3> SUFFICES ASSUME NEW i \in 1..Len(q), NEW j \in 1..Len(q), i < j PROVE q[i].no < q[j].no
        OBVIOUS
      <3>1. i + 1 < j + 1 /\ i + 1 \in 1..Len(merge_queue) /\ j + 1 \in 1..Len(merge_queue)
        BY <2>1
      <3>2. QED BY <2>1, <3>1 DEF Inv, Numbered
    <2>5. /\ \A i \in 1..Len(q) : i > 1 => q[i].no \notin attempted'
          /\ loop' = "idle" => q = <<>>
          /\ loop' = "resolving" => item'.no \notin attempted
      BY <2>1, <2>2, <2>3, <2>4, LoopHeadOnce
    <2>6. q = <<>> => 1..Len(q) = {}
      BY LenProperties
    <2>7. BehindUntouched'
      BY <2>2, <2>5, <2>6 DEF BehindUntouched
    <2>8. QED BY <2>5, <2>7
  <1>8. CASE Pop /\ merge_queue = <<>>
    BY <1>8, LenProperties DEF Pop, BehindUntouched
  <1>9. QED
    BY <1>1, <1>2, <1>3, <1>4, <1>5, <1>6, <1>7, <1>8
    DEF Next, Conflict, Close, Poll, PrMergeCompleted, Released, WaitTimeout, HistoryGrows,
        LockTraffic, Resolved, vars, inside, outside

\* No queued merge has its conflict resolved (rebased and force-pushed) a second
\* time: not after a time-out, not across a history reset, and not even when an
\* administrator's reset_state makes the loop pop an entry it never worked on.
THEOREM NeverResolvedTwice == Spec => ResolvedOnce
  <1>1. Init => Inv /\ BehindUntouched
    BY InitInv, LenProperties DEF Init, BehindUntouched
  <1>2. Inv /\ BehindUntouched /\ [Next]_vars => (Inv /\ BehindUntouched)'
    BY NextInv, BehindUntouchedStep
  <1>3. Inv /\ BehindUntouched /\ [Next]_vars =>
          [loop' = "resolving" /\ loop # "resolving" => item'.no \notin attempted]_vars
    BY BehindUntouchedStep
  <1>4. QED BY <1>1, <1>2, <1>3, PTL DEF Spec, ResolvedOnce
=============================================================================
