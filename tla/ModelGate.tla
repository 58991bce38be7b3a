----------------------------- MODULE ModelGate ------------------------------
(***************************************************************************)
(* The gate of OllamaClient: an asyncio.Semaphore that every call of chat  *)
(* and embed holds while the model server works.  It is first in, first    *)
(* out, and a slot that is given back goes straight to the first waiter.   *)
(***************************************************************************)
EXTENDS Naturals, Sequences, FiniteSets

CONSTANTS
    Callers,   \* who may have a call, one each at a time
    Slots      \* LLM_MAX_CONCURRENCY

ASSUME GateAssumption == Slots \in Nat \ {0}

VARIABLES
    inside,    \* callers that hold a slot
    queue      \* callers that wait for one, in order

GateInit == inside = {} /\ queue = <<>>

Waiting == {queue[i] : i \in DOMAIN queue}
Known(c) == c \in inside \cup Waiting

\* async with self._semaphore, up to the call.
Ask(c) ==
    IF Cardinality(inside) < Slots /\ queue = <<>>
    THEN inside' = inside \cup {c} /\ UNCHANGED queue
    ELSE queue' = Append(queue, c) /\ UNCHANGED inside

\* Slip: the slot is given back and nobody is woken.
LeaveQuietly(c) == inside' = inside \ {c} /\ UNCHANGED queue

\* The end of the block, by a result or by an exception.
Leave(c) ==
    IF queue = <<>> THEN inside' = inside \ {c} /\ UNCHANGED queue
    ELSE inside' = (inside \ {c}) \cup {Head(queue)} /\ queue' = Tail(queue)

\* A call that ends and the next call of the same caller, with no await
\* between them: whoever waits goes first.
Again(c) ==
    IF queue = <<>> THEN UNCHANGED <<inside, queue>>
    ELSE inside' = (inside \ {c}) \cup {Head(queue)} /\ queue' = Append(Tail(queue), c)

\* At most Slots calls at a time, nobody twice, and nobody waits for a slot
\* that is free.
GateSound ==
    /\ inside \subseteq Callers /\ IsFiniteSet(inside) /\ queue \in Seq(Callers)
    /\ Cardinality(inside) <= Slots
    /\ queue # <<>> => Cardinality(inside) = Slots
    /\ inside \cap Waiting = {}
    /\ \A i, j \in DOMAIN queue : queue[i] = queue[j] => i = j

=============================================================================
