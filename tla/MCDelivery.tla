----------------------------- MODULE MCDelivery -----------------------------
(* Instances of Delivery for TLC. *)
EXTENDS Delivery, TLC

\* The processes of the channels share nothing here: one channel at a time.
Only(c, n) == [d \in Channels |-> IF d = c THEN n ELSE 0]
OneChannel == {Only("max", 3), Only("telegram", 1), Only("console", 2)}
=============================================================================
