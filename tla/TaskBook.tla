------------------------------ MODULE TaskBook ------------------------------
(***************************************************************************)
(* What the scheduler promises of scheduled tasks, with no tables, jobs or *)
(* processes that start late: a task is entered once and struck out at     *)
(* most once, only an entered task is begun, a process works on a task at  *)
(* most once at a time, and whatever was begun ends.                       *)
(***************************************************************************)
CONSTANTS Tasks, Procs

VARIABLES
    book,   \* book[t]: "none" before t is entered, "active", then "gone"
    busy    \* the pairs <<p, t>> such that process p works on task t

bookVars == <<book, busy>>

BookInit == book = [t \in Tasks |-> "none"] /\ busy = {}

\* One commit may enter several tasks and strike out others.
Write ==
    /\ book' \in [Tasks -> {"none", "active", "gone"}]
    /\ \A t \in Tasks : book'[t] # book[t] =>
         <<book[t], book'[t]>> \in {<<"none", "active">>, <<"active", "gone">>}
    /\ UNCHANGED busy

Begin(p, t) ==
    /\ book[t] = "active" /\ <<p, t>> \notin busy
    /\ busy' = busy \cup {<<p, t>>}
    /\ UNCHANGED book

End(p, t) ==
    /\ <<p, t>> \in busy
    /\ busy' = busy \ {<<p, t>>}
    /\ UNCHANGED book

\* A process stops: all its work ends.
Halt(p) ==
    /\ busy' = {b \in busy : b[1] # p}
    /\ UNCHANGED book

BookNext ==
    \/ Write
    \/ \E p \in Procs, t \in Tasks : Begin(p, t) \/ End(p, t)
    \/ \E p \in Procs : Halt(p)

BookSafe == BookInit /\ [][BookNext]_bookVars
BookFair == BookSafe /\ \A p \in Procs, t \in Tasks : WF_bookVars(End(p, t))

=============================================================================
