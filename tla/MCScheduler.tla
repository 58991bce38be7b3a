---------------------------- MODULE MCScheduler -----------------------------
(* Instances of Scheduler for TLC. *)
EXTENDS Scheduler, TLC

CONSTANTS telegram, max, ann, bob, t1, t2, c1

\* One user, who writes in one channel.
OneUser == [t \in Tasks |-> ann]
InMax == [t \in Tasks |-> max]
WithCommand == [t \in Tasks |-> "command"]

\* The cancellation is the owner's and names t1.
ByOwner == [c \in Cancels |-> ann]
AtMax == [c \in Cancels |-> max]
OfFirst == [c \in Cancels |-> t1]
=============================================================================
