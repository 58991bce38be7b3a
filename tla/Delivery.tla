------------------------------ MODULE Delivery ------------------------------
(***************************************************************************)
(* The way of a message from the server of its channel to a handler and of *)
(* the reply back to the chat.  MAX: a loop of the repository polls with a *)
(* marker and dispatches one update after the other.  Telegram: aiogram    *)
(* polls with an offset and makes a task of every update; replies are sent *)
(* again after network errors.  Console: a loop reads a line at a time.    *)
(* Each channel has a process of its own, which may stop at any moment.    *)
(***************************************************************************)
EXTENDS Naturals, Sequences, FiniteSets

CONSTANTS
    Loads,        \* the numbers of messages by channel from which a run starts
    MaxSent,      \* bound: messages of one channel
    MaxParts,     \* bound: parts a long reply is split into
    MaxRestarts   \* bound: ends of a process that are explored

Channels == {"max", "telegram", "console"}
Messages == Channels \X (1..MaxSent)
Tries == 3        \* attempts of _send_with_fallback
Sorry == 0        \* the neutral text of an error, beside the parts 1..MaxParts

ASSUME DeliveryAssumption ==
    /\ MaxSent \in Nat /\ Loads \subseteq [Channels -> 0..MaxSent]
    /\ MaxParts \in Nat \ {0} /\ MaxRestarts \in Nat

VARIABLES
    sent,       \* sent[c]: messages that users of channel c send in this run
    arrived,    \* arrived[c]: messages that reached the server of c
    confirmed,  \* confirmed[c]: messages the server will not deliver again
    todo,       \* todo[c]: the next message of the batch the process has got
    upTo,       \* upTo[c]: the last one, the marker or offset of the next poll; 0: none
    run,        \* run[m]: the handler of message m
    begun,      \* history: how often message m was given to a handler
    ended,      \* history: messages whose handler has come to its end
    shown,      \* shown[m]: what its last handler put into the chat, in order
    restarts

vars == <<sent, arrived, confirmed, todo, upTo, run, begun, ended, shown, restarts>>
polling == <<sent, arrived, confirmed, todo, upTo>>

-----------------------------------------------------------------------------
\* A handler: its kind, where it is, the part to be sent of how many, and the
\* attempts to send it that have failed.
At(kind, pc, part, parts) ==
    [kind |-> kind, pc |-> pc, part |-> part, parts |-> parts, tries |-> 0]
NoRun == At("none", "off", 1, 1)
Running(m) == run[m].pc # "off"
Kinds == {"text", "command"}

Channel(m) == m[1]
Larger(a, b) == IF a > b THEN a ELSE b

Init ==
    /\ sent \in Loads
    /\ arrived = [c \in Channels |-> 0] /\ confirmed = [c \in Channels |-> 0]
    /\ todo = [c \in Channels |-> 1] /\ upTo = [c \in Channels |-> 0]
    /\ run = [m \in Messages |-> NoRun]
    /\ begun = [m \in Messages |-> 0] /\ ended = {}
    /\ shown = [m \in Messages |-> <<>>]
    /\ restarts = 0

Arrive(c) ==
    /\ arrived[c] < sent[c]
    /\ arrived' = [arrived EXCEPT ![c] = @ + 1]
    /\ UNCHANGED <<sent, confirmed, todo, upTo, run, begun, ended, shown, restarts>>

\* The messages are given to handlers, the kind of each is decided by its text.
Start(ms) ==
    /\ \E kinds \in [ms -> Kinds] :
         run' = [m \in Messages |->
                   IF m \in ms THEN At(kinds[m], "work", 1, 1) ELSE run[m]]
    /\ begun' = [m \in Messages |-> IF m \in ms THEN begun[m] + 1 ELSE begun[m]]
    /\ shown' = [m \in Messages |-> IF m \in ms THEN <<>> ELSE shown[m]]
    /\ UNCHANGED <<ended, restarts>>

\* Slip: the marker is not passed on.
ConfirmNothing(c) == UNCHANGED confirmed

\* A poll confirms what lies before its marker; the server answers with what it
\* has after that.
Confirm(c) == confirmed' = [confirmed EXCEPT ![c] = Larger(@, upTo[c])]

\* Slip: the first of the new messages is taken for the last of the old ones.
AnswerFromNext(c) ==
    /\ todo' = [todo EXCEPT ![c] = confirmed'[c] + 2]
    /\ upTo' = [upTo EXCEPT ![c] = arrived[c]]
    /\ UNCHANGED <<sent, arrived>>

Answer(c) ==
    /\ todo' = [todo EXCEPT ![c] = confirmed'[c] + 1]
    /\ upTo' = [upTo EXCEPT ![c] = arrived[c]]
    /\ UNCHANGED <<sent, arrived>>

-----------------------------------------------------------------------------
\* Slip: the marker is moved before the last update of the batch is dispatched.
PollMaxAhead ==
    LET c == "max" IN
    /\ todo[c] >= upTo[c]
    /\ \A m \in Messages : Channel(m) = c => ~Running(m)
    /\ Confirm(c) /\ Answer(c)
    /\ UNCHANGED <<run, begun, ended, shown, restarts>>

\* The loop of MAX polls when the batch is dispatched.  The answer may be lost by
\* a timeout or be an error: after a pause the same marker is sent again.
PollMax ==
    LET c == "max" IN
    /\ todo[c] > upTo[c]
    /\ \A m \in Messages : Channel(m) = c => ~Running(m)
    /\ Confirm(c)
    /\ Answer(c) \/ UNCHANGED <<sent, arrived, todo, upTo>>
    /\ UNCHANGED <<run, begun, ended, shown, restarts>>

\* One update after the other; dispatch drops those that are no message.
DispatchMax ==
    LET c == "max" IN
    /\ todo[c] <= upTo[c]
    /\ \A m \in Messages : Channel(m) = c => ~Running(m)
    /\ todo' = [todo EXCEPT ![c] = @ + 1]
    /\ Start({<<c, todo[c]>>})
    /\ UNCHANGED <<sent, arrived, confirmed, upTo>>

\* aiogram makes a task of each update of a batch and polls again at once.
PollTelegram ==
    LET c == "telegram" IN
    /\ Confirm(c)
    /\ \/ Answer(c) /\ Start({c} \X ((confirmed'[c] + 1)..arrived[c]))
       \/ UNCHANGED <<sent, arrived, todo, upTo, run, begun, ended, shown, restarts>>

\* input() blocks the loop until there is a line; nobody keeps it.
ReadLine ==
    LET c == "console"  n == confirmed[c] + 1 IN
    /\ n <= arrived[c]
    /\ \A m \in Messages : Channel(m) = c => ~Running(m)
    /\ confirmed' = [confirmed EXCEPT ![c] = n]
    /\ todo' = [todo EXCEPT ![c] = n + 1] /\ upTo' = [upTo EXCEPT ![c] = n]
    /\ Start({<<c, n>>})
    /\ UNCHANGED <<sent, arrived>>

-----------------------------------------------------------------------------
Goto(m, label) == run' = [run EXCEPT ![m].pc = label]
End(m) ==
    /\ run' = [run EXCEPT ![m] = NoRun]
    /\ ended' = ended \cup {m}
Shows(m, part) == shown' = [shown EXCEPT ![m] = Append(@, part)]

\* What became of one call of the server's API: shown and answered, shown but the
\* answer lost, or not shown.
Delivered(m) == Shows(m, run[m].part)
Broken(m) == Delivered(m) \/ UNCHANGED shown

Send(m, part, parts) ==
    /\ run' = [run EXCEPT ![m] = At(@.kind, "send", part, parts)]
    /\ UNCHANGED ended

NextPart(m) ==
    IF run[m].part = run[m].parts THEN End(m)
    ELSE Send(m, run[m].part + 1, run[m].parts)

HasReply(m) ==
    /\ \E n \in 1..MaxParts : Send(m, 1, n)
    /\ UNCHANGED <<polling, begun, shown, restarts>>

\* The task of the agent has an answer, or an error of the model has its text.
ReplyText(m) == run[m].pc = "work" /\ run[m].kind = "text" /\ HasReply(m)

\* A command has its result; a /new whose progress could not be shown has failed,
\* which is a result too.
ReplyCommand(m) == run[m].pc = "work" /\ run[m].kind = "command" /\ HasReply(m)

\* Any other exception: MAX logs it, Telegram has an error handler, the console
\* prints it.
Raise(m) ==
    /\ run[m].pc = "work"
    /\ CASE Channel(m) = "max"      -> End(m) /\ UNCHANGED shown
         [] Channel(m) = "telegram" -> Goto(m, "sorry") /\ UNCHANGED <<ended, shown>>
         [] OTHER                   -> End(m) /\ Shows(m, Sorry)
    /\ UNCHANGED <<polling, begun, restarts>>

\* MAX sends every part once; a failure leaves the rest unsent.
SendMax(m) ==
    /\ Channel(m) = "max" /\ run[m].pc = "send"
    /\ \/ Delivered(m) /\ NextPart(m)
       \/ Broken(m) /\ End(m)
    /\ UNCHANGED <<polling, begun, restarts>>

\* Slip: the next part is sent when the attempts at this one are used up.
RetryPartThenSkip(m) ==
    /\ Broken(m)
    /\ IF run[m].tries + 1 < Tries
       THEN run' = [run EXCEPT ![m].tries = @ + 1] /\ UNCHANGED ended
       ELSE NextPart(m)

\* Slip: a fourth attempt.
RetryPartOnceMore(m) ==
    /\ Broken(m)
    /\ IF run[m].tries < Tries
       THEN run' = [run EXCEPT ![m].tries = @ + 1]
       ELSE Goto(m, "sorry")
    /\ UNCHANGED ended

\* A network error: three attempts, then the exception leaves the handler.
RetryPart(m) ==
    /\ Broken(m)
    /\ IF run[m].tries + 1 < Tries
       THEN run' = [run EXCEPT ![m].tries = @ + 1]
       ELSE Goto(m, "sorry")
    /\ UNCHANGED ended

\* _send_with_fallback: a text that Telegram cannot parse is sent once more as
\* plain text; other errors leave the handler at once.
SendText(m) ==
    /\ Channel(m) = "telegram" /\ run[m].pc = "send" /\ run[m].kind = "text"
    /\ \/ Delivered(m) /\ NextPart(m)
       \/ RetryPart(m)
       \/ Goto(m, "plain") /\ UNCHANGED <<ended, shown>>
       \/ Goto(m, "sorry") /\ UNCHANGED <<ended, shown>>
    /\ UNCHANGED <<polling, begun, restarts>>

SendPlain(m) ==
    /\ run[m].pc = "plain"
    /\ \/ Delivered(m) /\ NextPart(m)
       \/ Broken(m) /\ Goto(m, "sorry") /\ UNCHANGED ended
    /\ UNCHANGED <<polling, begun, restarts>>

\* The result of a command is sent without a second attempt.
SendResult(m) ==
    /\ Channel(m) = "telegram" /\ run[m].pc = "send" /\ run[m].kind = "command"
    /\ \/ Delivered(m) /\ NextPart(m)
       \/ Broken(m) /\ Goto(m, "sorry") /\ UNCHANGED ended
    /\ UNCHANGED <<polling, begun, restarts>>

\* The error handler of aiogram tells the user, if it can, and never raises.
SaySorry(m) ==
    /\ run[m].pc = "sorry" /\ End(m)
    /\ Shows(m, Sorry) \/ UNCHANGED shown
    /\ UNCHANGED <<polling, begun, restarts>>

PrintReply(m) ==
    /\ Channel(m) = "console" /\ run[m].pc = "send"
    /\ End(m) /\ shown' = [shown EXCEPT ![m] = [k \in 1..run[m].parts |-> k]]
    /\ UNCHANGED <<polling, begun, restarts>>

Handle(m) ==
    \/ ReplyText(m) \/ ReplyCommand(m) \/ Raise(m) \/ SendMax(m) \/ SendText(m) \/ SendPlain(m)
    \/ SendResult(m) \/ SaySorry(m) \/ PrintReply(m)

\* The process of a channel ends anywhere and starts again: without a marker.
Restart(c) ==
    /\ restarts < MaxRestarts /\ restarts' = restarts + 1
    /\ todo' = [todo EXCEPT ![c] = 1] /\ upTo' = [upTo EXCEPT ![c] = 0]
    /\ run' = [m \in Messages |-> IF Channel(m) = c THEN NoRun ELSE run[m]]
    /\ UNCHANGED <<sent, arrived, confirmed, begun, ended, shown>>

Poll == PollMax \/ DispatchMax \/ PollTelegram \/ ReadLine

Next ==
    \/ \E c \in Channels : Arrive(c) \/ Restart(c)
    \/ Poll
    \/ \E m \in Messages : Handle(m)

\* A poll is answered some time, however often the answer is lost; what a handler
\* awaits returns or raises.  A handler takes finitely many steps, so that fairness
\* of all of them together is enough.
Fairness ==
    /\ SF_vars(PollMax /\ Answer("max")) /\ SF_vars(PollTelegram /\ Answer("telegram"))
    /\ WF_vars(DispatchMax \/ ReadLine)
    /\ WF_vars(\E m \in Messages : Handle(m))

Spec == Init /\ [][Next]_vars
FairSpec == Spec /\ Fairness

-----------------------------------------------------------------------------
TypeOK ==
    /\ sent \in Loads /\ arrived \in [Channels -> Nat] /\ confirmed \in [Channels -> Nat]
    /\ todo \in [Channels -> Nat \ {0}] /\ upTo \in [Channels -> Nat]
    /\ \A c \in Channels :
         confirmed[c] <= arrived[c] /\ upTo[c] <= arrived[c] /\ arrived[c] <= sent[c]
    /\ run \in [Messages ->
         [kind : Kinds \cup {"none"}, pc : {"off", "work", "send", "plain", "sorry"},
          part : 1..MaxParts, parts : 1..MaxParts, tries : 0..(Tries - 1)]]
    /\ begun \in [Messages -> Nat] /\ ended \subseteq Messages
    /\ shown \in [Messages -> Seq(0..MaxParts)]
    /\ restarts \in 0..MaxRestarts

\* MAX delivers at least once: the server forgets an update only after a handler
\* of it has come to its end, whatever is lost and wherever the process stops.
MaxLosesNothing ==
    \A m \in Messages :
        Channel(m) = "max" /\ m[2] <= confirmed["max"] => m \in ended

\* A message is handled a second time only because a process was restarted: lost
\* answers and errors alone never repeat a command or an entry of the session.
RepeatsNeedRestart == \A m \in Messages : begun[m] <= 1 + restarts

\* What the user sees of a reply has no gap and no part before an earlier one; a
\* part comes again only right after itself, three times at most; an apology is
\* the end of it.
ReplyReadsInOrder ==
    \A m \in Messages :
        LET s == shown[m] IN
        /\ \A k \in 1..Len(s) :
             \/ s[k] = Sorry /\ k = Len(s)
             \/ s[k] = IF k = 1 THEN 1 ELSE s[k - 1] + 1
             \/ k > 1 /\ s[k] = s[k - 1]
        /\ \A part \in 1..MaxParts : Cardinality({k \in 1..Len(s) : s[k] = part}) <= Tries

\* Every message that reaches its server is handled to the end: on MAX always, on
\* the other channels unless their process is restarted.
MessagesAreServed ==
    \A c \in Channels : \A n \in 1..MaxSent :
        arrived[c] >= n ~> <<c, n>> \in ended \/ (c # "max" /\ restarts > 0)
=============================================================================
