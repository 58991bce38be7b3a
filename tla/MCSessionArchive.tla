-------------------------- MODULE MCSessionArchive --------------------------
(* Instances of SessionArchive for TLC. *)
EXTENDS SessionArchive, TLC

CONSTANTS telegram, max, console,   \* processes
          ann,                      \* the user
          m1, m2, n1, n2            \* messages and /new commands

\* One user, served by the process of one channel.
OneOwner == [x \in Msgs \cup News |-> ann]
OnTelegram == [u \in Users |-> telegram]
OnMax == [u \in Users |-> max]

\* The two messages come from different chats; replies are longer than
\* questions, so that a question alone is below MinChars = 2.
Chats == [m \in Msgs |-> IF m = m1 THEN 1 ELSE 2]
Lengths == [e \in Entry |-> IF e[2] = "user" THEN 1 ELSE 2]

\* Model values that play the same role in a configuration.
NewSymmetry == Permutations(News)
=============================================================================
