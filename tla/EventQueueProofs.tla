-------------------------- MODULE EventQueueProofs --------------------------
(***************************************************************************)
(* Proofs about EventQueue, for every set of events and publishers and     *)
(* without a bound on what they publish: the queue loses no wakeup, loses, *)
(* repeats and reorders no critical event, and implements EventFeed.       *)
(***************************************************************************)
EXTENDS EventQueue, SequenceTheorems, TLAPS

-----------------------------------------------------------------------------
(* Lemmas about sequences of entries.                                      *)

LEMMA EntryAt ==
  ASSUME NEW s \in Seq(Entry), NEW i \in 1..Len(s)
  PROVE  s[i] \in Entry /\ s[i].no \in Nat /\ s[i].event \in Event
<1>1. s[i] \in Entry
  BY ElementOfSeq
<1>2. QED
  BY <1>1 DEF Entry

(* Appending an entry numbered after the log keeps the numbering.          *)
LEMMA AppendNumbered ==
  ASSUME NEW s \in Seq(Entry), NEW accepted \in Seq(Critical),
         Numbered(s, accepted), LastNo(s) = Len(accepted),
         NEW e \in Event, NEW after \in Seq(Critical),
         after = IF e \in Progress THEN accepted ELSE Append(accepted, e)
  PROVE  LET t == Append(s, [event |-> e, no |-> Len(after)])
         IN  Numbered(t, after) /\ LastNo(t) = Len(after)
<1> DEFINE x == [event |-> e, no |-> Len(after)]
           t == Append(s, x)
<1>1. x \in Entry /\ t \in Seq(Entry) /\ Len(t) = Len(s) + 1 /\ t # <<>>
  BY DEF Entry
<1>2. t[Len(t)] = x /\ \A i \in 1..Len(s) : t[i] = s[i]
  BY <1>1
<1>3. x.event = e /\ x.no = Len(after)
  OBVIOUS
<1> HIDE DEF x, t
<1>4. LastNo(t) = Len(after)
  BY <1>1, <1>2, <1>3 DEF LastNo
<1>5. ASSUME NEW i \in 1..Len(t)
      PROVE  IF t[i].event \in Progress
             THEN t[i].no = Predecessor(t, i)
             ELSE /\ t[i].no = Predecessor(t, i) + 1
                  /\ t[i].no <= Len(after)
                  /\ t[i].event = after[t[i].no]
  <2>1. CASE i \in 1..Len(s)
    <3>1. Predecessor(t, i) = Predecessor(s, i) /\ t[i] = s[i]
      BY <1>2, <2>1 DEF Predecessor
    <3>2. s[i].no \in Nat
      BY <2>1, EntryAt
    <3>3. \A n \in 1..Len(accepted) : n <= Len(after) /\ after[n] = accepted[n]
      OBVIOUS
    <3>4. Predecessor(s, i) \in Nat
      <4>1. CASE i = 1
        BY <4>1 DEF Predecessor
      <4>2. CASE i # 1
        <5>1. i - 1 \in 1..Len(s)
          BY <2>1, <4>2
        <5>2. QED
          BY <4>2, <5>1, EntryAt DEF Predecessor
      <4>3. QED
        BY <4>1, <4>2
    <3>5. QED
      BY <2>1, <3>1, <3>2, <3>3, <3>4 DEF Numbered
  <2>2. CASE i = Len(t)
    <3>1. Predecessor(t, i) = LastNo(s)
      BY <1>1, <1>2, <2>2 DEF Predecessor, LastNo
    <3>2. Predecessor(t, i) = Len(accepted)
      BY <3>1
    <3>3. CASE e \in Progress
      BY <1>2, <1>3, <2>2, <3>2, <3>3
    <3>4. CASE e \notin Progress
      <4>1. after = Append(accepted, e) /\ Len(after) = Len(accepted) + 1
        BY <3>4
      <4>2. after[Len(after)] = e
        BY <4>1
      <4>3. QED
        BY <1>2, <1>3, <2>2, <3>2, <3>4, <4>1, <4>2
    <3>5. QED
      BY <3>3, <3>4
  <2>3. Len(s) \in Nat
    BY LenProperties
  <2>4. i \in 1..Len(s) \/ i = Len(t)
    BY <1>1, <2>3
  <2>5. QED
    BY <2>1, <2>2, <2>4
<1>6. Numbered(t, after)
  BY <1>5 DEF Numbered
<1>7. QED
  BY <1>4, <1>6 DEF t, x

(* Replacing a final snapshot by a snapshot keeps the numbering.           *)
LEMMA ReplaceNumbered ==
  ASSUME NEW s \in Seq(Entry), NEW accepted \in Seq(Critical),
         Numbered(s, accepted), LastNo(s) = Len(accepted),
         s # <<>>, s[Len(s)].event \in Progress,
         NEW e \in Progress, Progress \subseteq Event
  PROVE  LET t == [s EXCEPT ![Len(s)] = [event |-> e, no |-> Len(accepted)]]
         IN  Numbered(t, accepted) /\ LastNo(t) = Len(accepted)
<1> DEFINE x == [event |-> e, no |-> Len(accepted)]
           t == [s EXCEPT ![Len(s)] = x]
<1>1. x \in Entry
  BY DEF Entry
<1>2. Len(s) \in Nat \ {0}
  OBVIOUS
<1>3. t \in Seq(Entry) /\ Len(t) = Len(s) /\ t # <<>>
  BY <1>1, <1>2
<1>4. t[Len(t)] = x /\ \A i \in 1..Len(s) : i # Len(s) => t[i] = s[i]
  BY <1>2, <1>3
<1> x.event = e /\ x.no = Len(accepted)
  OBVIOUS
<1> HIDE DEF x, t
<1>5. LastNo(t) = Len(accepted)
  BY <1>3, <1>4 DEF LastNo
<1>6. Predecessor(s, Len(s)) = Len(accepted)
  BY <1>2 DEF Numbered, LastNo
<1>7. \A i \in 1..Len(t) : Predecessor(t, i) = Predecessor(s, i)
  BY <1>2, <1>3, <1>4 DEF Predecessor
<1>8. Numbered(t, accepted)
  BY <1>2, <1>3, <1>4, <1>6, <1>7 DEF Numbered
<1>9. QED
  BY <1>5, <1>8 DEF t, x

(* What appending to the list and changing its last entry do to the trail. *)
LEMMA TrailAppend ==
  ASSUME NEW d \in Seq(Entry), NEW s \in Seq(Entry), NEW x \in Entry
  PROVE  d \o Append(s, x) = Append(d \o s, x)
OBVIOUS

LEMMA TrailReplace ==
  ASSUME NEW d \in Seq(Entry), NEW s \in Seq(Entry), s # <<>>, NEW x \in Entry
  PROVE  /\ d \o [s EXCEPT ![Len(s)] = x] = [d \o s EXCEPT ![Len(d \o s)] = x]
         /\ d \o s # <<>>
         /\ (d \o s)[Len(d \o s)] = s[Len(s)]
<1> DEFINE t == [s EXCEPT ![Len(s)] = x]
<1>1. Len(s) \in Nat \ {0} /\ t \in Seq(Entry) /\ Len(t) = Len(s)
  OBVIOUS
<1>2. /\ d \o s \in Seq(Entry)
      /\ Len(d \o s) = Len(d) + Len(s)
      /\ \A i \in 1..Len(d) + Len(s) :
           (d \o s)[i] = IF i <= Len(d) THEN d[i] ELSE s[i - Len(d)]
  BY ConcatProperties
<1>3. /\ d \o t \in Seq(Entry)
      /\ Len(d \o t) = Len(d) + Len(t)
      /\ \A i \in 1..Len(d) + Len(t) :
           (d \o t)[i] = IF i <= Len(d) THEN d[i] ELSE t[i - Len(d)]
  BY <1>1, ConcatProperties
<1> Len(d) \in Nat /\ Len(s) \in Nat
  BY LenProperties
<1> DEFINE c == d \o s
           k == Len(c)
           u == [c EXCEPT ![k] = x]
<1>4. k \in 1..k /\ k = Len(d) + Len(s) /\ c \in Seq(Entry) /\ Len(c) = k
  BY <1>1, <1>2
<1> HIDE DEF c, k
<1>5. /\ u \in Seq(Entry)
      /\ Len(u) = k
      /\ \A j \in 1..k : u[j] = IF j = k THEN x ELSE c[j]
  BY <1>4, ExceptSeq
<1>6. \A j \in 1..Len(s) : t[j] = IF j = Len(s) THEN x ELSE s[j]
  BY <1>1
<1> HIDE DEF t, u
<1>7. \A j \in 1..Len(u) : u[j] = (d \o t)[j]
  <2>1. ASSUME NEW j \in 1..Len(u)
        PROVE  u[j] = (d \o t)[j]
    <3>1. j \in 1..k /\ j \in 1..Len(d) + Len(s) /\ j \in 1..Len(d) + Len(t)
      BY <1>1, <1>4, <1>5
    <3>2. (d \o t)[j] = IF j <= Len(d) THEN d[j] ELSE t[j - Len(d)]
      BY <1>3, <3>1
    <3>3. c[j] = IF j <= Len(d) THEN d[j] ELSE s[j - Len(d)]
      BY <1>2, <3>1 DEF c
    <3>4. u[j] = IF j = k THEN x ELSE c[j]
      BY <1>5, <3>1
    <3>5. CASE j <= Len(d)
      BY <1>1, <1>4, <3>2, <3>3, <3>4, <3>5
    <3>6. CASE ~(j <= Len(d))
      <4>1. j - Len(d) \in 1..Len(s) /\ (j = k <=> j - Len(d) = Len(s))
        BY <1>4, <3>1, <3>6
      <4>2. QED
        BY <1>6, <3>2, <3>3, <3>4, <3>6, <4>1
    <3>7. QED
      BY <3>5, <3>6
  <2>2. QED
    BY <2>1
<1>8. u = d \o t
  BY <1>1, <1>3, <1>4, <1>5, <1>7, SeqEqual
<1>9. c # <<>> /\ c[k] = s[Len(s)]
  <2>1. k > Len(d) /\ k - Len(d) = Len(s) /\ k \in 1..Len(d) + Len(s)
    BY <1>1, <1>4
  <2>2. c[k] = s[Len(s)]
    BY <1>2, <2>1 DEF c
  <2>3. QED
    BY <1>1, <1>4, <2>2
<1>10. QED
  BY <1>8, <1>9 DEF t, u, c, k

-----------------------------------------------------------------------------
(* The bounded publishers that TLC checks do nothing an unbounded one      *)
(* could not do (publish).                                                 *)
THEOREM BoundedIsUnbounded == Spec => QueueSpec
<1>1. [Next]_queueVars => [Step]_queueVars
  BY DEF Next, PublishAny, Step
<1>2. QED
  BY <1>1, PTL DEF Spec, QueueSpec

(* Every step of the queue leaves the variables in their types.  This is   *)
(* what dispatch and publish rely on: an entry is on offer exactly while   *)
(* the dispatcher is in its send.                                          *)
THEOREM TypeCorrect == QueueSpec => []TypeOK
<1>1. Init => TypeOK
  <2>1. <<>> \in Seq(Entry) /\ <<>> \in Seq(Critical) /\ Len(<<>>) = 0
    OBVIOUS
  <2> SUFFICES ASSUME Init PROVE TypeOK
    OBVIOUS
  <2>2. Len(sending) = IF dispatcher = "sending" THEN 1 ELSE 0
    BY <2>1 DEF Init
  <2>3. QED
    BY <2>1, <2>2 DEF Init, TypeOK, DispatcherState
<1>2. TypeOK /\ [Step]_queueVars => TypeOK'
  <2> SUFFICES ASSUME TypeOK, [Step]_queueVars
               PROVE  TypeOK'
    OBVIOUS
  <2> USE DEF TypeOK, DispatcherState
  <2>1. ASSUME NEW p \in Publisher, NEW e \in Event, Coalesce(p, e)
        PROVE  TypeOK'
    <3>1. [event |-> e, no |-> Len(log)] \in Entry
      BY DEF Entry
    <3>2. items' \in Seq(Entry)
      BY <2>1, <3>1 DEF Coalesce, EndsInProgress
    <3>3. QED
      BY <2>1, <3>2 DEF Coalesce
  <2>2. ASSUME NEW p \in Publisher, NEW e \in Event, Enqueue(p, e)
        PROVE  TypeOK'
    <3>1. log' \in Seq(Critical)
      BY <2>2 DEF Enqueue, Critical
    <3>2. [event |-> e, no |-> Len(log')] \in Entry
      BY <3>1 DEF Entry
    <3>3. items' \in Seq(Entry)
      BY <2>2, <3>2 DEF Enqueue
    <3>4. QED
      BY <2>2, <3>1, <3>3 DEF Enqueue
  <2>3. ASSUME NEW p \in Publisher, Close(p)
        PROVE  TypeOK'
    BY <2>3 DEF Close
  <2>4. ASSUME NEW p \in Publisher, Notify(p)
        PROVE  TypeOK'
    BY <2>4 DEF Notify
  <2>5. CASE TakeHead
    <3>1. Head(items) \in Entry /\ Tail(items) \in Seq(Entry)
      BY <2>5 DEF TakeHead
    <3>2. <<Head(items)>> \in Seq(Entry) /\ Len(<<Head(items)>>) = 1
      BY <3>1
    <3>3. QED
      BY <2>5, <3>1, <3>2 DEF TakeHead
  <2>6. CASE FindEmpty
    BY <2>6 DEF FindEmpty
  <2>7. CASE Wake
    BY <2>7 DEF Wake
  <2>8. CASE Receive
    <3>1. delivered \o sending \in Seq(Entry)
      BY ConcatProperties
    <3>2. QED
      BY <2>8, <3>1 DEF Receive
  <2>9. CASE UNCHANGED queueVars
    BY <2>9 DEF queueVars
  <2>10. CASE Discard
    BY <2>9, <2>10 DEF Discard
  <2>11. QED
    BY <2>1, <2>2, <2>3, <2>4, <2>5, <2>6, <2>7, <2>8, <2>9, <2>10
    DEF Step, Publish, Dispatch
<1>3. QED
  BY <1>1, <1>2, PTL DEF QueueSpec

(* For every number of publishers and every interleaving, the dispatcher   *)
(* never waits on the wake channel while work is queued and nobody is      *)
(* going to wake it (publish, close, notify, dispatch).                    *)
THEOREM WakeupNeverLost == QueueSpec => []NoLostWakeup
<1>1. Init => NoLostWakeup
  BY DEF Init, NoLostWakeup
<1>2. NoLostWakeup /\ [Step]_queueVars => NoLostWakeup'
  <2> SUFFICES ASSUME NoLostWakeup, [Step]_queueVars
               PROVE  NoLostWakeup'
    OBVIOUS
  <2> USE DEF NoLostWakeup
  <2>1. ASSUME NEW p \in Publisher, NEW e \in Event, Coalesce(p, e)
        PROVE  NoLostWakeup'
    BY <2>1 DEF Coalesce
  <2>2. ASSUME NEW p \in Publisher, NEW e \in Event, Enqueue(p, e)
        PROVE  NoLostWakeup'
    BY <2>2 DEF Enqueue
  <2>3. ASSUME NEW p \in Publisher, Close(p)
        PROVE  NoLostWakeup'
    BY <2>3 DEF Close
  <2>4. ASSUME NEW p \in Publisher, Notify(p)
        PROVE  NoLostWakeup'
    BY <2>4 DEF Notify
  <2>5. CASE Dispatch
    BY <2>5 DEF Dispatch, TakeHead, FindEmpty, Wake
  <2>6. CASE Receive
    BY <2>6 DEF Receive
  <2>7. CASE UNCHANGED queueVars
    BY <2>7 DEF queueVars
  <2>8. CASE Discard
    BY <2>7, <2>8 DEF Discard
  <2>9. QED
    BY <2>1, <2>2, <2>3, <2>4, <2>5, <2>6, <2>7, <2>8
    DEF Step, Publish
<1>3. QED
  BY <1>1, <1>2, PTL DEF QueueSpec

-----------------------------------------------------------------------------
(* How the steps change the trail.                                         *)

LEMMA EmptySending ==
  ASSUME TypeOK, dispatcher # "sending"
  PROVE  sending = <<>>
BY EmptySeq DEF TypeOK

LEMMA TrailType ==
  ASSUME TypeOK
  PROVE  Trail \in Seq(Entry)
BY ConcatProperties DEF TypeOK, Trail

(* Moving an entry from the list to the offer, and from the offer to the   *)
(* consumer, is not visible in the trail.                                  *)
LEMMA TrailMoved ==
  ASSUME TypeOK, TakeHead \/ Receive
  PROVE  Trail' = Trail
<1> USE DEF TypeOK
<1>1. CASE TakeHead
  <2>1. sending = <<>>
    BY <1>1, EmptySending DEF TakeHead
  <2>2. items = <<Head(items)>> \o Tail(items) /\ Head(items) \in Entry
        /\ Tail(items) \in Seq(Entry)
    BY <1>1 DEF TakeHead
  <2>3. delivered \o sending = delivered
    BY <2>1, ConcatEmptySeq
  <2> DEFINE first == <<Head(items)>>
             rest == Tail(items)
  <2>4. first \in Seq(Entry) /\ rest \in Seq(Entry) /\ items = first \o rest
    BY <2>2
  <2> HIDE DEF first, rest
  <2>5. (delivered \o first) \o rest = delivered \o items
    BY <2>4, ConcatAssociative
  <2>6. QED
    BY <1>1, <2>3, <2>5 DEF TakeHead, Trail, first, rest
<1>2. CASE Receive
  <2>1. (delivered \o sending) \o <<>> = delivered \o sending
    BY ConcatProperties, ConcatEmptySeq
  <2>2. QED
    BY <1>2, <2>1 DEF Receive, Trail
<1>3. QED
  BY <1>1, <1>2

(* Every critical event accepted is still in the trail, once and in its    *)
(* place, whatever snapshots were coalesced (publish, dispatch).           *)
THEOREM CriticalNeverLost == QueueSpec => []NoCriticalLost
<1>1. Init => NoCriticalLost
  <2> SUFFICES ASSUME Init PROVE NoCriticalLost
    OBVIOUS
  <2>1. Trail = <<>> /\ Len(<<>>) = 0
    BY EmptySeq, ConcatEmptySeq DEF Init, Trail
  <2>2. QED
    BY <2>1 DEF Init, NoCriticalLost, Numbered, LastNo
<1>2. TypeOK /\ NoCriticalLost /\ [Step]_queueVars => NoCriticalLost'
  <2> SUFFICES ASSUME TypeOK, NoCriticalLost, [Step]_queueVars
               PROVE  NoCriticalLost'
    OBVIOUS
  <2> USE DEF NoCriticalLost
  <2> DEFINE front == delivered \o sending
  <2>0. front \in Seq(Entry) /\ Trail = front \o items /\ items \in Seq(Entry)
        /\ Trail \in Seq(Entry) /\ log \in Seq(Critical)
    BY TrailType, ConcatProperties DEF TypeOK, Trail
  <2>1. ASSUME NEW p \in Publisher, NEW e \in Event, Coalesce(p, e)
        PROVE  NoCriticalLost'
    <3> DEFINE x == [event |-> e, no |-> Len(log)]
    <3>1. x \in Entry /\ items # <<>> /\ items[Len(items)].event \in Progress
          /\ e \in Progress
      BY <2>0, <2>1 DEF Coalesce, EndsInProgress, Entry
    <3>2. Trail' = front \o [items EXCEPT ![Len(items)] = x]
      BY <2>1 DEF Coalesce, Trail
    <3> HIDE DEF x, front
    <3>3. /\ front \o [items EXCEPT ![Len(items)] = x]
               = [Trail EXCEPT ![Len(Trail)] = x]
          /\ Trail # <<>>
          /\ Trail[Len(Trail)] = items[Len(items)]
      BY <2>0, <3>1, TrailReplace
    <3>4. Trail' = [Trail EXCEPT ![Len(Trail)] = [event |-> e, no |-> Len(log)]]
      BY <3>2, <3>3 DEF x
    <3>5. /\ Numbered([Trail EXCEPT ![Len(Trail)] = [event |-> e, no |-> Len(log)]], log)
          /\ LastNo([Trail EXCEPT ![Len(Trail)] = [event |-> e, no |-> Len(log)]]) = Len(log)
      BY <2>0, <3>1, <3>3, ReplaceNumbered, ProgressAssumption
    <3>6. log' = log
      BY <2>1 DEF Coalesce
    <3>7. QED
      BY <3>4, <3>5, <3>6
  <2>2. ASSUME NEW p \in Publisher, NEW e \in Event, Enqueue(p, e)
        PROVE  NoCriticalLost'
    <3> DEFINE x == [event |-> e, no |-> Len(log')]
    <3>1. log' = (IF e \in Progress THEN log ELSE Append(log, e)) /\ log' \in Seq(Critical)
      BY <2>0, <2>2 DEF Enqueue, Critical
    <3>2. x \in Entry
      BY <3>1 DEF Entry
    <3>3. Trail' = front \o Append(items, x)
      BY <2>2 DEF Enqueue, Trail
    <3>4. Trail' = Append(Trail, x)
      <4> HIDE DEF x, front
      <4>1. front \o Append(items, x) = Append(front \o items, x)
        BY <2>0, <3>2, TrailAppend
      <4>2. QED
        BY <2>0, <3>3, <4>1
    <3>5. QED
      BY <2>0, <3>1, <3>4, AppendNumbered
  <2>3. ASSUME NEW p \in Publisher, Close(p) \/ Notify(p)
        PROVE  NoCriticalLost'
    BY <2>3 DEF Close, Notify, Trail
  <2>4. CASE TakeHead \/ Receive
    BY <2>4, TrailMoved DEF TakeHead, Receive
  <2>5. CASE FindEmpty \/ Wake
    BY <2>5 DEF FindEmpty, Wake, Trail
  <2>6. CASE UNCHANGED queueVars
    BY <2>6 DEF queueVars, Trail
  <2>7. CASE Discard
    BY <2>6, <2>7 DEF Discard
  <2>8. QED
    BY <2>1, <2>2, <2>3, <2>4, <2>5, <2>6, <2>7
    DEF Step, Publish, Dispatch
<1>3. QED
  BY <1>1, <1>2, TypeCorrect, PTL DEF QueueSpec

-----------------------------------------------------------------------------
(* The end of the stream.                                                  *)

ReturnedEmpty ==
  dispatcher = "returned" => closed /\ items = <<>>

LEMMA ReturnedStaysEmpty == QueueSpec => []ReturnedEmpty
<1>1. Init => ReturnedEmpty
  BY DEF Init, ReturnedEmpty
<1>2. ReturnedEmpty /\ [Step]_queueVars => ReturnedEmpty'
  BY DEF ReturnedEmpty, Step, Publish, Coalesce, Enqueue, Discard,
         Close, Notify, Dispatch, TakeHead, FindEmpty, Wake, Receive, queueVars
<1>3. QED
  BY <1>1, <1>2, PTL DEF QueueSpec

(* With nothing queued and nothing on offer the consumer has it all.       *)
LEMMA NothingLeft ==
  ASSUME TypeOK, NoCriticalLost, items = <<>>, dispatcher # "sending"
  PROVE  LastNo(delivered) = Len(log)
<1>1. Trail = delivered
  BY EmptySending, ConcatEmptySeq DEF TypeOK, Trail
<1>2. QED
  BY <1>1 DEF NoCriticalLost

(* The channel of an operation closes only when the consumer has received  *)
(* every critical event of the run (dispatch, close).                      *)
THEOREM StreamEndsComplete == QueueSpec => []EndsComplete
<1>1. TypeOK /\ NoCriticalLost /\ ReturnedEmpty => EndsComplete
  BY NothingLeft DEF ReturnedEmpty, EndsComplete
<1>2. QED
  BY <1>1, TypeCorrect, CriticalNeverLost, ReturnedStaysEmpty, PTL

-----------------------------------------------------------------------------
(* Refinement.                                                             *)

(* What the consumer receives next is the next critical event, or a        *)
(* snapshot that leaves the count of critical events where it was.         *)
LEMMA NextReceived ==
  ASSUME TypeOK, NoCriticalLost, Receive
  PROVE  \/ LastNo(delivered') = LastNo(delivered)
         \/ /\ LastNo(delivered') = LastNo(delivered) + 1
            /\ LastNo(delivered) < Len(log)
<1> USE DEF TypeOK
<1>1. sending \in Seq(Entry) /\ Len(sending) = 1 /\ delivered \in Seq(Entry)
      /\ Len(delivered) \in Nat /\ items \in Seq(Entry) /\ Len(items) \in Nat
      /\ log \in Seq(Critical) /\ Len(log) \in Nat
  BY LenProperties DEF Receive
<1> DEFINE n == Len(delivered) + 1
           after == delivered \o sending
<1>2. /\ after \in Seq(Entry)
      /\ Len(after) = n
      /\ \A i \in 1..n : after[i] = IF i <= Len(delivered) THEN delivered[i] ELSE sending[i - Len(delivered)]
  BY <1>1, ConcatProperties
<1>3. /\ Len(Trail) = n + Len(items)
      /\ \A i \in 1..n : Trail[i] = after[i]
  <2> HIDE DEF after
  <2>1. /\ Len(after \o items) = Len(after) + Len(items)
        /\ \A i \in 1..Len(after) + Len(items) :
             (after \o items)[i] = IF i <= Len(after) THEN after[i] ELSE items[i - Len(after)]
    BY <1>1, <1>2, ConcatProperties
  <2>2. Trail = after \o items
    BY DEF Trail, after
  <2>3. QED
    BY <1>1, <1>2, <2>1, <2>2
<1> HIDE DEF after
<1>4. n \in 1..Len(Trail) /\ n \in 1..Len(after)
  BY <1>1, <1>2, <1>3
<1>5. LastNo(after) = Trail[n].no
  BY <1>1, <1>2, <1>3, <1>4 DEF LastNo
<1>6. Predecessor(Trail, n) = LastNo(delivered)
  <2>1. CASE delivered = <<>>
    <3>1. n = 1
      BY <2>1
    <3>2. QED
      BY <2>1, <3>1 DEF Predecessor, LastNo
  <2>2. CASE delivered # <<>>
    <3>1. Len(delivered) \in 1..n /\ n # 1 /\ n - 1 = Len(delivered)
      BY <1>1, <2>2
    <3>2. Trail[n - 1] = delivered[Len(delivered)]
      BY <1>2, <1>3, <3>1
    <3>3. QED
      BY <2>2, <3>1, <3>2 DEF Predecessor, LastNo
  <2>3. QED
    BY <2>1, <2>2
<1>7. LastNo(delivered) \in Nat
  <2>1. CASE delivered = <<>>
    BY <2>1 DEF LastNo
  <2>2. CASE delivered # <<>>
    <3>1. Len(delivered) \in 1..Len(delivered)
      BY <1>1, <2>2
    <3>2. QED
      BY <1>1, <2>2, <3>1, EntryAt DEF LastNo
  <2>3. QED
    BY <2>1, <2>2
<1>8. \/ Trail[n].no = LastNo(delivered)
      \/ Trail[n].no = LastNo(delivered) + 1 /\ Trail[n].no <= Len(log)
  BY <1>4, <1>6 DEF NoCriticalLost, Numbered
<1>9. delivered' = after
  BY DEF Receive, after
<1>10. QED
  BY <1>1, <1>5, <1>7, <1>8, <1>9

(* For every set of events and every number of publishers, the queue       *)
(* implements what Operation promises: each critical event accepted is     *)
(* seen once and in order, and the stream ends after the last.             *)
THEOREM QueueImplementsFeed == QueueSpec => FeedSpec
<1>1. Init => Feed!Init
  BY DEF Init, Feed!Init, LastNo
<1>2. TypeOK /\ NoCriticalLost /\ ReturnedEmpty /\ [Step]_queueVars
        => [Feed!Next]_Feed!feedVars
  <2> SUFFICES ASSUME TypeOK, NoCriticalLost, ReturnedEmpty, [Step]_queueVars
               PROVE  Feed!Next \/ UNCHANGED Feed!feedVars
    OBVIOUS
  <2> USE DEF Feed!Next, Feed!feedVars
  <2>1. ASSUME NEW p \in Publisher, NEW e \in Event, Coalesce(p, e)
        PROVE  UNCHANGED Feed!feedVars
    BY <2>1 DEF Coalesce
  <2>2. ASSUME NEW p \in Publisher, NEW e \in Event, Enqueue(p, e)
        PROVE  Feed!Next \/ UNCHANGED Feed!feedVars
    <3>1. CASE e \in Progress
      BY <2>2, <3>1 DEF Enqueue
    <3>2. CASE e \in Critical
      BY <2>2, <3>2 DEF Enqueue, Critical, Feed!Accept
    <3>3. QED
      BY <3>1, <3>2 DEF Critical
  <2>3. ASSUME NEW p \in Publisher, Close(p)
        PROVE  Feed!Next
    BY <2>3 DEF Close, Feed!Seal
  <2>4. ASSUME NEW p \in Publisher, Notify(p)
        PROVE  UNCHANGED Feed!feedVars
    BY <2>4 DEF Notify
  <2>5. CASE TakeHead
    BY <2>5 DEF TakeHead
  <2>6. CASE FindEmpty
    <3>1. LastNo(delivered) = Len(log)
      BY <2>6, NothingLeft DEF FindEmpty
    <3>2. QED
      BY <2>6, <3>1 DEF FindEmpty, Feed!End
  <2>7. CASE Wake
    BY <2>7 DEF Wake
  <2>8. CASE Receive
    <3>1. UNCHANGED <<log, closed>> /\ dispatcher # "returned" /\ dispatcher' # "returned"
      BY <2>8 DEF Receive
    <3>2. QED
      BY <2>8, <3>1, NextReceived DEF Feed!See
  <2>9. CASE UNCHANGED queueVars
    BY <2>9 DEF queueVars
  <2>10. CASE Discard
    BY <2>10 DEF Discard, queueVars
  <2>11. QED
    BY <2>1, <2>2, <2>3, <2>4, <2>5, <2>6, <2>7, <2>8, <2>9, <2>10
    DEF Step, Publish, Dispatch
<1>3. QED
  BY <1>1, <1>2, TypeCorrect, CriticalNeverLost, ReturnedStaysEmpty, PTL
  DEF QueueSpec, FeedSpec, Feed!Spec
=============================================================================
