----------------------------- MODULE TextShelf ------------------------------
(***************************************************************************)
(* What SemanticMemory promises of the texts it is given: a batch is kept  *)
(* whole, at one moment, or refused whole; a text can be found, each by    *)
(* its own vector, from that moment on, until it is deleted.               *)
(***************************************************************************)
CONSTANTS
    Batches,
    ItemsOf      \* ItemsOf[b]: the texts of batch b

VARIABLES
    shelf,       \* the texts that can be found
    fate         \* fate[b]: open, kept or refused

shelfVars == <<shelf, fate>>

InitShelf ==
    /\ shelf = {}
    /\ fate = [b \in Batches |-> "open"]

Keep(b) ==
    /\ fate[b] = "open"
    /\ fate' = [fate EXCEPT ![b] = "kept"]
    /\ shelf' = shelf \cup ItemsOf[b]

\* An error refuses one batch, the end of a process all that it had begun.
Refuse(bs) ==
    /\ \A b \in bs : fate[b] = "open"
    /\ fate' = [b \in Batches |-> IF b \in bs THEN "refused" ELSE fate[b]]
    /\ UNCHANGED shelf

Remove(text) ==
    /\ shelf' = shelf \ {text}
    /\ UNCHANGED fate

NextShelf ==
    \/ \E b \in Batches : Keep(b)
    \/ \E bs \in SUBSET Batches : Refuse(bs)
    \/ \E text \in shelf : Remove(text)

Shelf == InitShelf /\ [][NextShelf]_shelfVars
=============================================================================
