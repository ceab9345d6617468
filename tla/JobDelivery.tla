---------------------------- MODULE JobDelivery ----------------------------
(***************************************************************************)
(* What a durable job queue promises to the code that enqueues into it,    *)
(* with no streams, consumers or acknowledgements in sight.                *)
(*                                                                         *)
(* A job that was accepted stays open, that is, still to be delivered,     *)
(* until one of its deliveries succeeded or was buried in the dead-letter  *)
(* stream.  Delivery is at least once: a job can succeed again, be buried  *)
(* after it succeeded, and be opened again by a late consumer.             *)
(***************************************************************************)
EXTENDS Naturals

CONSTANT Jobs

VARIABLES
  accepted,   \* jobs some producer enqueued
  open,       \* jobs the queue will deliver (again)
  done,       \* jobs whose handler returned nil at least once
  buried      \* jobs with at least one dead letter

deliveryVars == <<accepted, open, done, buried>>

Init ==
  /\ accepted = {}
  /\ open = {}
  /\ done = {}
  /\ buried = {}

Accept(j) ==
  /\ j \notin accepted
  /\ accepted' = accepted \cup {j}
  /\ open' = open \cup {j}
  /\ UNCHANGED <<done, buried>>

Succeed(j) ==
  /\ j \in accepted
  /\ done' = done \cup {j}
  /\ UNCHANGED <<accepted, open, buried>>

Bury(j) ==
  /\ j \in accepted
  /\ buried' = buried \cup {j}
  /\ UNCHANGED <<accepted, open, done>>

\* A job leaves the queue only once it has a verdict.
Close(j) ==
  /\ j \in open
  /\ j \in done \cup buried
  /\ open' = open \ {j}
  /\ UNCHANGED <<accepted, done, buried>>

\* A consumer that still works on an old delivery may enqueue a new attempt.
Reopen(j) ==
  /\ j \in accepted
  /\ open' = open \cup {j}
  /\ UNCHANGED <<accepted, done, buried>>

Next ==
  \E j \in Jobs : Accept(j) \/ Succeed(j) \/ Bury(j) \/ Close(j) \/ Reopen(j)

Spec == Init /\ [][Next]_deliveryVars

-----------------------------------------------------------------------------

\* Nothing the queue accepted is ever neither deliverable nor settled.
AtLeastOnce == accepted \subseteq open \cup done \cup buried

=============================================================================
