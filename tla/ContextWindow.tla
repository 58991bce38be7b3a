--------------------------- MODULE ContextWindow ---------------------------
(***************************************************************************)
(* The messages of ConversationStore that the model is shown: a window of  *)
(* one user's session that drops its head when it is full and is compacted *)
(* into a summary after an answer.  A turn is the handler of a message; on *)
(* Telegram turns overlap with each other and with /new and /reset, on MAX *)
(* everything the user sends is handled one after the other.               *)
(***************************************************************************)
EXTENDS Naturals, Sequences, FiniteSets

CONSTANTS
    Turns,
    MaxMessages,   \* HISTORY_MAX_MESSAGES
    Threshold,     \* HISTORY_SUMMARY_THRESHOLD
    ClosesAllowed, \* bound: /new, /reset and restarts that are explored
    ChannelsHere   \* channels from which a run starts

KeptTail == 2

ASSUME WindowAssumption ==
    /\ MaxMessages \in Nat \ {0}
    /\ Threshold \in 1..MaxMessages
    /\ ClosesAllowed \in Nat
    /\ ChannelsHere \subseteq {"max", "telegram"}

VARIABLES
    channel,   \* the channel of this run
    window,    \* _messages: the entries the model will be shown
    said,      \* history: how much was said; what was said is numbered
    start,     \* history: the number of the last entry before this session
    evicted,   \* history: numbers of what the full window dropped
    turn,      \* turn[m]: where the handler of message m is
    closes

vars == <<channel, window, said, start, evicted, turn, closes>>

-----------------------------------------------------------------------------
\* An entry stands for what was said under the numbers it covers: a message for
\* its own, a summary for all those it was made from.
Message(n) == [whole |-> TRUE, covers |-> {n}]
Covered(entries) == UNION {entries[k].covers : k \in 1..Len(entries)}
Summary(entries) == [whole |-> FALSE, covers |-> Covered(entries)]

Last(entries, n) ==
    IF Len(entries) <= n THEN entries ELSE SubSeq(entries, Len(entries) - n + 1, Len(entries))
ButLast(entries, n) ==
    IF Len(entries) <= n THEN <<>> ELSE SubSeq(entries, 1, Len(entries) - n)

NoTurn == [pc |-> "idle", boot |-> FALSE, first |-> FALSE, history |-> <<>>]

Busy(m) == turn[m].pc \notin {"idle", "over"}
\* On MAX nothing else of the user is under way.
MayBegin == channel = "max" => \A m \in Turns : ~Busy(m)

\* _append: the window keeps its last MaxMessages entries.
Push(n) ==
    LET longer == Append(window, Message(n)) IN
    /\ window' = Last(longer, MaxMessages)
    /\ evicted' = evicted \cup Covered(ButLast(longer, MaxMessages))

-----------------------------------------------------------------------------
Init ==
    /\ channel \in ChannelsHere
    /\ window = <<>> /\ said = 0 /\ start = 0 /\ evicted = {}
    /\ turn = [m \in Turns |-> NoTurn]
    /\ closes = 0

\* A message of the user enters the window; its row of the journal is awaited.
Receive(m) ==
    /\ turn[m].pc = "idle" /\ MayBegin
    /\ said' = said + 1 /\ Push(said + 1)
    /\ turn' = [turn EXCEPT ![m].pc = "heard", ![m].first = said = start]
    /\ UNCHANGED <<channel, start, closes>>

\* Slip: the archive is asked whenever the window is short.
ReadHistoryShort(m) ==
    /\ turn[m].pc = "heard"
    /\ turn' = [turn EXCEPT ![m].pc = "thinking", ![m].boot = Len(window) <= 2]
    /\ UNCHANGED <<channel, window, said, start, evicted, closes>>

\* handle_user_task reads the window; when it holds one message, what the archive
\* knows about it is put before it.
ReadHistory(m) ==
    /\ turn[m].pc = "heard"
    /\ turn' = [turn EXCEPT ![m].pc = "thinking", ![m].boot = Len(window) = 1]
    /\ UNCHANGED <<channel, window, said, start, evicted, closes>>

\* The text is too long, or the task ends in an error: the question stays alone.
GiveUp(m) ==
    /\ turn[m].pc \in {"heard", "thinking"}
    /\ turn' = [turn EXCEPT ![m].pc = "over"]
    /\ UNCHANGED <<channel, window, said, start, evicted, closes>>

\* The answer enters the window; its row of the journal is awaited.
Answer(m) ==
    /\ turn[m].pc = "thinking"
    /\ said' = said + 1 /\ Push(said + 1)
    /\ turn' = [turn EXCEPT ![m].pc = "answered"]
    /\ UNCHANGED <<channel, start, closes>>

\* The last subscriber reads the window; from Threshold entries on it asks the model
\* for a summary of all but the last two.
CompactStart(m) ==
    /\ turn[m].pc = "answered"
    /\ turn' = IF Len(window) < Threshold THEN [turn EXCEPT ![m].pc = "over"]
               ELSE [turn EXCEPT ![m].pc = "compacting", ![m].history = window]
    /\ UNCHANGED <<channel, window, said, start, evicted, closes>>

CompactFailed(m) ==
    /\ turn[m].pc = "compacting"
    /\ turn' = [turn EXCEPT ![m].pc = "over", ![m].history = <<>>]
    /\ UNCHANGED <<channel, window, said, start, evicted, closes>>

\* Slip: the summary is put behind the tail.
CompactBehind(m) ==
    /\ turn[m].pc = "compacting"
    /\ window' = Append(Last(window, KeptTail), Summary(ButLast(turn[m].history, KeptTail)))
    /\ turn' = [turn EXCEPT ![m].pc = "over", ![m].history = <<>>]
    /\ UNCHANGED <<channel, said, start, evicted, closes>>

\* Slip: only the last entry stays beside the summary.
CompactKeepsOne(m) ==
    /\ turn[m].pc = "compacting"
    /\ window' = <<Summary(ButLast(turn[m].history, KeptTail))>> \o Last(window, 1)
    /\ turn' = [turn EXCEPT ![m].pc = "over", ![m].history = <<>>]
    /\ UNCHANGED <<channel, said, start, evicted, closes>>

\* Slip: the summary is put before the whole window.
CompactAll(m) ==
    /\ turn[m].pc = "compacting"
    /\ window' = <<Summary(ButLast(turn[m].history, KeptTail))>> \o window
    /\ turn' = [turn EXCEPT ![m].pc = "over", ![m].history = <<>>]
    /\ UNCHANGED <<channel, said, start, evicted, closes>>

\* replace_with_summary puts the summary of what was read before the last two
\* entries of the window as it is by now.
Compact(m) ==
    /\ turn[m].pc = "compacting"
    /\ window' = <<Summary(ButLast(turn[m].history, KeptTail))>> \o Last(window, KeptTail)
    /\ turn' = [turn EXCEPT ![m].pc = "over", ![m].history = <<>>]
    /\ UNCHANGED <<channel, said, start, evicted, closes>>

TurnStep(m) ==
    \/ Receive(m) \/ ReadHistory(m) \/ GiveUp(m) \/ Answer(m)
    \/ CompactStart(m) \/ CompactFailed(m) \/ Compact(m)

-----------------------------------------------------------------------------
\* clear: the end of /new, or /reset.
Clear ==
    /\ closes < ClosesAllowed /\ closes' = closes + 1 /\ MayBegin
    /\ window' = <<>> /\ start' = said
    /\ UNCHANGED <<channel, said, evicted, turn>>

\* The process ends and starts with an empty store.
Restart ==
    /\ closes < ClosesAllowed /\ closes' = closes + 1
    /\ window' = <<>> /\ start' = said
    /\ turn' = [m \in Turns |-> IF Busy(m) THEN [NoTurn EXCEPT !.pc = "over"] ELSE turn[m]]
    /\ UNCHANGED <<channel, said, evicted>>

Next == (\E m \in Turns : TurnStep(m)) \/ Clear \/ Restart

Spec == Init /\ [][Next]_vars

-----------------------------------------------------------------------------
Entries ==
    {e \in [whole : BOOLEAN, covers : SUBSET (1..said)] :
        e.whole => \E n \in 1..said : e.covers = {n}}

\* Types; the window is never longer than its limit or a summary with its tail.
TypeOK ==
    /\ channel \in ChannelsHere
    /\ said \in Nat /\ start \in 0..said /\ evicted \subseteq 1..said
    /\ window \in Seq(Entries)
    /\ Len(window) <= MaxMessages \/ Len(window) <= KeptTail + 1
    /\ turn \in [Turns ->
         [pc : {"idle", "heard", "thinking", "answered", "compacting", "over"},
          boot : BOOLEAN, first : BOOLEAN, history : Seq(Entries)]]
    /\ closes \in 0..ClosesAllowed

\* On MAX the window is this session: all that was said in it is there, in its own
\* words or in a summary, except what a full window dropped, and the model is shown
\* nothing of a session that was closed.
NothingForgotten == (start + 1)..said \subseteq Covered(window) \cup evicted
OnlyThisSession == Covered(window) \subseteq (start + 1)..said
WindowIsSession == channel = "max" => NothingForgotten /\ OnlyThisSession

\* Whatever overlaps, the window tells the dialog in its order: no entry is later
\* than one behind it, and the newest message is always there in its own words.
WindowInOrder ==
    /\ \A j, k \in 1..Len(window) : j < k /\ window[k].whole =>
         \A n \in window[j].covers, p \in window[k].covers : n < p
    /\ said > start => window # <<>> /\ window[Len(window)] = Message(said)

\* On MAX, the archive is asked for the first message of a session and for no other.
BootstrapsFirstTurn ==
    \A m \in Turns :
        channel = "max" /\ turn[m].pc = "thinking" => turn[m].boot = turn[m].first
=============================================================================
