----------------------------- MODULE EventFeed -----------------------------
(***************************************************************************)
(* What an automation operation promises the consumer of its events        *)
(* (internal/application/events.go, the comment on Operation): every       *)
(* critical event that was accepted reaches the consumer, once and in      *)
(* order, and the stream ends only after the last of them.  Progress       *)
(* events are snapshots that may be replaced, so they do not appear here.  *)
(*                                                                         *)
(* EventQueue refines this specification.                                  *)
(***************************************************************************)
EXTENDS Naturals, Sequences

CONSTANT CriticalEvent  \* results, logs, the terminal event, ...

VARIABLES
  log,     \* the critical events accepted so far, in the order of acceptance
  sealed,  \* no further event is accepted
  seen,    \* how many of them the consumer has received
  ended    \* the stream was closed

feedVars == <<log, sealed, seen, ended>>

Init ==
  /\ log = <<>>
  /\ sealed = FALSE
  /\ seen = 0
  /\ ended = FALSE

Accept(e) ==
  /\ ~sealed
  /\ log' = Append(log, e)
  /\ UNCHANGED <<sealed, seen, ended>>

Seal ==
  /\ sealed' = TRUE
  /\ UNCHANGED <<log, seen, ended>>

See ==
  /\ seen < Len(log)
  /\ seen' = seen + 1
  /\ UNCHANGED <<log, sealed, ended>>

End ==
  /\ sealed
  /\ seen = Len(log)
  /\ ended' = TRUE
  /\ UNCHANGED <<log, sealed, seen>>

Next ==
  \/ \E e \in CriticalEvent : Accept(e)
  \/ Seal
  \/ See
  \/ End

Spec == Init /\ [][Next]_feedVars

(* Once the stream is sealed the consumer sees everything and its end.     *)
Fairness == WF_feedVars(See) /\ WF_feedVars(End)

FairSpec == Spec /\ Fairness
=============================================================================
