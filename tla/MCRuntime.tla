----------------------------- MODULE MCRuntime ------------------------------
(* Instances of Runtime for TLC. *)
EXTENDS Runtime, TLC

CONSTANTS old, new, h1, h2, h3, ann, bob

\* ann and bob write to the old instance, bob writes again when the new one is up.
Homes == [h \in Handlers |-> IF h = h3 THEN new ELSE old]
Senders == [h \in Handlers |-> IF h = h1 THEN ann ELSE bob]
\* Of the parts only the users table is seen by get_or_create.
OnePart == <<"users">>
=============================================================================
