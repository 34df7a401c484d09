----------------------------- MODULE EventQueue -----------------------------
(***************************************************************************)
(* The queue between the Fiery workers of one run and the consumer of its  *)
(* events (internal/application/events.go): an unbounded list under a      *)
(* mutex, a wake channel of capacity one, and a dispatcher goroutine that  *)
(* hands the events over an unbuffered channel.                            *)
(*                                                                         *)
(* The critical sections of publish and close are one step each; the       *)
(* notification that follows the unlock is a step of its own, so that      *)
(* everything may happen in between.  An event is an element of Event; its *)
(* stamp (operation id and time in the code) is abstracted to the number   *)
(* of critical events accepted up to and including it.                     *)
(*                                                                         *)
(* Bounds: MaxTrail is the number of queue entries the publishers of Spec  *)
(* create.  The code has no such bound, and neither has QueueSpec, which   *)
(* the theorems are about.                                                 *)
(***************************************************************************)
EXTENDS Naturals, Sequences

CONSTANTS
  Event,      \* the events a run can publish
  Progress,   \* those of kind RunEventProgress
  Publisher,  \* the goroutines that publish: the workers and the run itself
  MaxTrail

ASSUME ProgressAssumption == Progress \subseteq Event
ASSUME MaxTrailAssumption == MaxTrail \in Nat

VARIABLES
  items,       \* eventQueue.items
  closed,      \* eventQueue.closed
  wake,        \* a token is in eventQueue.wake
  notifying,   \* publishers between the unlock and the send on wake
  dispatcher,  \* where the dispatch goroutine stands
  sending,     \* the entry dispatch offers on eventQueue.output
  delivered,   \* history: the entries the consumer has received
  log          \* history: the critical events accepted

queueVars == <<items, closed, wake, notifying, dispatcher, sending, delivered, log>>

Critical == Event \ Progress

Entry == [event : Event, no : Nat]

DispatcherState == {"looking", "sending", "parked", "returned"}

(* The entries in the order the consumer gets them: received, offered,     *)
(* and still in the list.                                                  *)
Trail == delivered \o sending \o items

TypeOK ==
  /\ items \in Seq(Entry)
  /\ closed \in BOOLEAN
  /\ wake \in BOOLEAN
  /\ notifying \subseteq Publisher
  /\ dispatcher \in DispatcherState
  /\ sending \in Seq(Entry)
  /\ Len(sending) = IF dispatcher = "sending" THEN 1 ELSE 0
  /\ delivered \in Seq(Entry)
  /\ log \in Seq(Critical)

Init ==
  /\ items = <<>>
  /\ closed = FALSE
  /\ wake = FALSE
  /\ notifying = {}
  /\ dispatcher = "looking"
  /\ sending = <<>>
  /\ delivered = <<>>
  /\ log = <<>>

-----------------------------------------------------------------------------
(* publish, first half: the critical section.                              *)

EndsInProgress(s) == s # <<>> /\ s[Len(s)].event \in Progress

(* Fault: coalescing looks at the new event only.                          *)
CoalesceAnyTail(p, e) ==
  /\ ~closed
  /\ e \in Progress /\ items # <<>>
  /\ items' = [items EXCEPT ![Len(items)] = [event |-> e, no |-> Len(log)]]
  /\ notifying' = notifying \cup {p}
  /\ UNCHANGED <<closed, wake, dispatcher, sending, delivered, log>>

(* A progress snapshot replaces a progress snapshot at the tail.           *)
Coalesce(p, e) ==
  /\ ~closed
  /\ e \in Progress /\ EndsInProgress(items)
  /\ items' = [items EXCEPT ![Len(items)] = [event |-> e, no |-> Len(log)]]
  /\ notifying' = notifying \cup {p}
  /\ UNCHANGED <<closed, wake, dispatcher, sending, delivered, log>>

(* Everything else is appended.                                            *)
Enqueue(p, e) ==
  /\ ~closed
  /\ ~(e \in Progress /\ EndsInProgress(items))
  /\ log' = IF e \in Progress THEN log ELSE Append(log, e)
  /\ items' = Append(items, [event |-> e, no |-> Len(log')])
  /\ notifying' = notifying \cup {p}
  /\ UNCHANGED <<closed, wake, dispatcher, sending, delivered>>

(* An event published to a closed queue is dropped, without notification.  *)
Discard ==
  /\ closed
  /\ UNCHANGED queueVars

Publish(p, e) ==
  /\ p \notin notifying
  /\ Coalesce(p, e) \/ Enqueue(p, e) \/ Discard

(* Fault: close does not notify.                                           *)
CloseSilently(p) ==
  /\ p \notin notifying
  /\ closed' = TRUE
  /\ UNCHANGED <<items, wake, notifying, dispatcher, sending, delivered, log>>

Close(p) ==
  /\ p \notin notifying
  /\ closed' = TRUE
  /\ notifying' = notifying \cup {p}
  /\ UNCHANGED <<items, wake, dispatcher, sending, delivered, log>>

(* Fault: a wake channel without a buffer, whose send is lost unless the   *)
(* dispatcher has reached its receive, which parked only leads to.         *)
NotifyUnbuffered(p) ==
  /\ p \in notifying
  /\ wake' \in {wake, wake \/ dispatcher = "parked"}
  /\ notifying' = notifying \ {p}
  /\ UNCHANGED <<items, closed, dispatcher, sending, delivered, log>>

(* notify: the non-blocking send leaves the channel full either way.       *)
Notify(p) ==
  /\ p \in notifying
  /\ wake' = TRUE
  /\ notifying' = notifying \ {p}
  /\ UNCHANGED <<items, closed, dispatcher, sending, delivered, log>>

-----------------------------------------------------------------------------
(* The dispatch goroutine.                                                 *)

(* One look under the lock: take the head, return, or go to wait.          *)
TakeHead ==
  /\ dispatcher = "looking"
  /\ items # <<>>
  /\ sending' = <<Head(items)>>
  /\ items' = Tail(items)
  /\ dispatcher' = "sending"
  /\ UNCHANGED <<closed, wake, notifying, delivered, log>>

FindEmpty ==
  /\ dispatcher = "looking"
  /\ items = <<>>
  /\ dispatcher' = IF closed THEN "returned" ELSE "parked"
  /\ UNCHANGED <<items, closed, wake, notifying, sending, delivered, log>>

Wake ==
  /\ dispatcher = "parked"
  /\ wake
  /\ wake' = FALSE
  /\ dispatcher' = "looking"
  /\ UNCHANGED <<items, closed, notifying, sending, delivered, log>>

Dispatch == TakeHead \/ FindEmpty \/ Wake

(* Fault: the entry handed over is offered again.                          *)
ReceiveTwice ==
  /\ dispatcher = "sending"
  /\ delivered' = delivered \o sending
  /\ dispatcher' = "looking"
  /\ UNCHANGED <<items, closed, wake, notifying, sending, log>>

(* The consumer receives from the unbuffered output channel.               *)
Receive ==
  /\ dispatcher = "sending"
  /\ delivered' = delivered \o sending
  /\ sending' = <<>>
  /\ dispatcher' = "looking"
  /\ UNCHANGED <<items, closed, wake, notifying, log>>

-----------------------------------------------------------------------------
(* Any publisher publishes anything and closes at any time.                *)

Step ==
  \/ \E p \in Publisher :
       \/ \E e \in Event : Publish(p, e)
       \/ Close(p)
       \/ Notify(p)
  \/ Dispatch
  \/ Receive

QueueSpec == Init /\ [][Step]_queueVars

(* Stand-alone, for TLC: publications stop at the bound.                   *)
PublishAny(p) ==
  /\ Len(delivered) + Len(sending) + Len(items) < MaxTrail
  /\ \E e \in Event : Publish(p, e)

Next ==
  \/ \E p \in Publisher : PublishAny(p) \/ Close(p) \/ Notify(p)
  \/ Dispatch
  \/ Receive

Spec == Init /\ [][Next]_queueVars

(* A goroutine that can run does: publishers get from the unlock to the    *)
(* notification, and the dispatcher is never descheduled for ever.         *)
GoroutineFairness ==
  /\ \A p \in Publisher : WF_queueVars(Notify(p))
  /\ WF_queueVars(Dispatch)

(* "Consumers must drain Events until it closes" (events.go:113).          *)
ConsumerFairness == WF_queueVars(Receive)

FairSpec == Spec /\ GoroutineFairness /\ ConsumerFairness

-----------------------------------------------------------------------------
(* Properties.                                                             *)

(* The dispatcher never sleeps through work: while it waits on the wake    *)
(* channel with events queued or the queue closed, a token is in the       *)
(* channel or a publisher is about to put one there (publish and close     *)
(* notify only after the unlock, dispatch waits only after its unlock).    *)
NoLostWakeup ==
  dispatcher = "parked" /\ (items # <<>> \/ closed) => wake \/ notifying # {}

(* The number of an entry exceeds that of its predecessor by one when it   *)
(* is critical and not at all when it is progress, and the number of a     *)
(* critical entry is its position in the log: no critical event is lost,   *)
(* repeated, overtaken or overwritten by a coalesced snapshot (publish,    *)
(* the comment "never replaced").                                          *)
Predecessor(s, i) == IF i = 1 THEN 0 ELSE s[i - 1].no

Numbered(s, accepted) ==
  \A i \in 1..Len(s) :
    IF s[i].event \in Progress
    THEN s[i].no = Predecessor(s, i)
    ELSE /\ s[i].no = Predecessor(s, i) + 1
         /\ s[i].no <= Len(accepted)
         /\ s[i].event = accepted[s[i].no]

LastNo(s) == IF s = <<>> THEN 0 ELSE s[Len(s)].no

NoCriticalLost ==
  /\ Numbered(Trail, log)
  /\ LastNo(Trail) = Len(log)

(* The consumer's channel is closed only when everything accepted was      *)
(* received (dispatch returns only on an empty list).                      *)
EndsComplete ==
  dispatcher = "returned" => LastNo(delivered) = Len(log)

(* The queue implements the feed an Operation promises.                    *)
Feed == INSTANCE EventFeed WITH
  CriticalEvent <- Critical,
  sealed <- closed,
  seen <- LastNo(delivered),
  ended <- dispatcher = "returned"

FeedSpec == Feed!Spec

(* With goroutines that are scheduled and a consumer that drains, every    *)
(* critical event is eventually received and a closed queue ends its       *)
(* stream (the comment on Operation).                                      *)
FeedFairSpec == Feed!FairSpec
=============================================================================
