--------------------------- MODULE DeliveryProofs ---------------------------
(***************************************************************************)
(* Theorems about Delivery for any number of messages, parts and restarts: *)
(* types, at-least-once delivery on MAX, that only a restart repeats a     *)
(* message, that a handler comes to its end, and the order of what the     *)
(* chat shows of a reply; and about Texts for texts and replies of any     *)
(* length: what is cut stays whole, and answers and schedules are          *)
(* understood.                                                             *)
(***************************************************************************)
EXTENDS Delivery, Texts, SequenceTheorems, FiniteSetTheorems, WellFoundedInduction, TLAPS

-----------------------------------------------------------------------------
(* The invariant.                                                          *)

Runs == [kind : Kinds \cup {"none"}, pc : {"off", "work", "send", "plain", "sorry"},
         part : 1..MaxParts, parts : 1..MaxParts, tries : 0..(Tries - 1)]

\* A handler counts its parts from the first to the last.
RunInv == \A m \in Messages : run[m].part <= run[m].parts

\* What MAX counts as done, by its marker or by its place in the batch, was handled
\* to the end or is being handled.
MaxInv ==
    /\ todo["max"] <= upTo["max"] + 1
    /\ \A n \in 1..MaxSent :
        /\ n <= confirmed["max"] => <<"max", n>> \in ended
        /\ n < todo["max"] => <<"max", n>> \in ended \/ Running(<<"max", n>>)

\* The messages that their channel has given out since its last restart.
Given(m) ==
    \/ m[1] = "max" /\ m[2] < todo["max"]
    \/ m[1] = "telegram" /\ (m[2] <= upTo["telegram"] \/ m[2] <= confirmed["telegram"])
    \/ m[1] = "console" /\ m[2] <= confirmed["console"]
BeginInv ==
    \A m \in Messages : /\ begun[m] <= restarts + (IF Given(m) THEN 1 ELSE 0)
                        /\ Running(m) => Given(m)

DeliveryInv == TypeOK /\ RunInv /\ MaxInv /\ BeginInv

-----------------------------------------------------------------------------
(* Handlers.                                                               *)

LEMMA MessageIsPair ==
  ASSUME NEW m \in Messages
  PROVE  m[1] \in Channels /\ m[2] \in 1..MaxSent /\ m = <<m[1], m[2]>>
BY DEF Messages

LEMMA NoRunTyped == ASSUME DeliveryAssumption PROVE NoRun \in Runs
  BY DEF DeliveryAssumption, NoRun, At, Runs, Kinds, Tries

\* What a step of a handler may do to its record and to what was handled.
Steps(m, r) ==
    /\ run' = [run EXCEPT ![m] = r]
    /\ r \in Runs /\ r.part <= r.parts
    /\ ended' = IF r.pc = "off" THEN ended \cup {m} ELSE ended

LEMMA EndSteps ==
  ASSUME DeliveryAssumption, NEW m \in Messages, End(m) PROVE \E r : Steps(m, r)
<1>1. NoRun.part <= NoRun.parts /\ NoRun.pc = "off" BY DEF NoRun, At
<1>2. Steps(m, NoRun) BY <1>1, NoRunTyped DEF End, Steps
<1>3. QED BY <1>2

LEMMA GotoSteps ==
  ASSUME TypeOK, RunInv, NEW m \in Messages, NEW l \in {"plain", "sorry"},
         Goto(m, l), UNCHANGED ended
  PROVE  \E r : Steps(m, r)
<1> DEFINE r == [run[m] EXCEPT !.pc = l]
<1>1. run[m] \in Runs /\ run[m].part <= run[m].parts BY DEF TypeOK, Runs, RunInv
<1>2. r \in Runs /\ r.part <= r.parts /\ r.pc = l BY <1>1 DEF Runs
<1>3. run' = [run EXCEPT ![m] = r] BY DEF Goto
<1>4. Steps(m, r) BY <1>2, <1>3 DEF Steps
<1>5. QED BY <1>4

LEMMA SendSteps ==
  ASSUME TypeOK, NEW m \in Messages, NEW part, NEW parts, Send(m, part, parts),
         part \in 1..MaxParts, parts \in 1..MaxParts, part <= parts
  PROVE  \E r : Steps(m, r)
<1> DEFINE r == At(run[m].kind, "send", part, parts)
<1>1. run[m].kind \in Kinds \cup {"none"} BY DEF TypeOK
<1>2. r \in Runs /\ r.part <= r.parts /\ r.pc = "send" BY <1>1 DEF At, Runs, Tries
<1>3. Steps(m, r) BY <1>2 DEF Steps, Send
<1>4. QED BY <1>3

LEMMA NextPartSteps ==
  ASSUME DeliveryAssumption, TypeOK, RunInv, NEW m \in Messages, NextPart(m)
  PROVE  \E r : Steps(m, r)
<1>1. CASE run[m].part = run[m].parts BY <1>1, EndSteps DEF NextPart
<1>2. CASE run[m].part # run[m].parts
  <2>1. run[m].part \in 1..MaxParts /\ run[m].parts \in 1..MaxParts /\ run[m].part <= run[m].parts
    BY DEF TypeOK, RunInv
  <2>2. run[m].part + 1 \in 1..MaxParts /\ run[m].part + 1 <= run[m].parts
    BY <1>2, <2>1 DEF DeliveryAssumption
  <2>3. Send(m, run[m].part + 1, run[m].parts) BY <1>2 DEF NextPart
  <2>4. QED BY <2>1, <2>2, <2>3, SendSteps
<1>3. QED BY <1>1, <1>2

LEMMA ReplySteps ==
  ASSUME DeliveryAssumption, TypeOK, NEW m \in Messages, HasReply(m) PROVE \E r : Steps(m, r)
<1>1. PICK n \in 1..MaxParts : Send(m, 1, n) BY DEF HasReply
<1>2. 1 \in 1..MaxParts /\ 1 <= n BY DEF DeliveryAssumption
<1>3. QED BY <1>1, <1>2, SendSteps

LEMMA RetrySteps ==
  ASSUME TypeOK, RunInv, NEW m \in Messages, RetryPart(m), run[m].pc = "send"
  PROVE  \E r : Steps(m, r)
<1>1. CASE run[m].tries + 1 < Tries
  <2> DEFINE r == [run[m] EXCEPT !.tries = @ + 1]
  <2>1. run[m] \in Runs /\ run[m].part <= run[m].parts BY DEF TypeOK, Runs, RunInv
  <2>2. run[m].tries + 1 \in 0..(Tries - 1) BY <1>1, <2>1 DEF Runs, Tries
  <2>3. r \in Runs /\ r.part <= r.parts /\ r.pc = "send" BY <2>1, <2>2 DEF Runs
  <2>4. run' = [run EXCEPT ![m] = r] BY <1>1 DEF RetryPart
  <2>5. Steps(m, r) BY <2>3, <2>4 DEF Steps, RetryPart
  <2>6. QED BY <2>5
<1>2. CASE ~(run[m].tries + 1 < Tries) BY <1>2, GotoSteps DEF RetryPart
<1>3. QED BY <1>1, <1>2

LEMMA HandleSteps ==
  ASSUME DeliveryAssumption, TypeOK, RunInv, NEW m \in Messages, Handle(m)
  PROVE  UNCHANGED <<polling, begun, restarts>> /\ \E r : Steps(m, r)
<1>1. CASE ReplyText(m) BY <1>1, ReplySteps DEF ReplyText, HasReply
<1>2. CASE ReplyCommand(m) BY <1>2, ReplySteps DEF ReplyCommand, HasReply
<1>3. CASE Raise(m) BY <1>3, EndSteps, GotoSteps DEF Raise
<1>4. CASE SendMax(m) BY <1>4, EndSteps, NextPartSteps DEF SendMax
<1>5. CASE SendText(m) BY <1>5, NextPartSteps, RetrySteps, GotoSteps DEF SendText
<1>6. CASE SendPlain(m) BY <1>6, NextPartSteps, GotoSteps DEF SendPlain
<1>7. CASE SendResult(m) BY <1>7, NextPartSteps, GotoSteps DEF SendResult
<1>8. CASE SaySorry(m) BY <1>8, EndSteps DEF SaySorry
<1>9. CASE PrintReply(m) BY <1>9, EndSteps DEF PrintReply
<1>10. QED BY <1>1, <1>2, <1>3, <1>4, <1>5, <1>6, <1>7, <1>8, <1>9 DEF Handle

LEMMA HandleShown ==
  ASSUME DeliveryAssumption, TypeOK, NEW m \in Messages, Handle(m)
  PROVE  shown' \in [Messages -> Seq(0..MaxParts)]
<1> DEFINE Chats == Seq(0..MaxParts)
<1>1. shown \in [Messages -> Chats] /\ shown[m] \in Chats BY DEF TypeOK
<1>2. run[m].part \in 0..MaxParts /\ Sorry \in 0..MaxParts /\ run[m].parts \in 1..MaxParts
  BY DEF TypeOK, Sorry, DeliveryAssumption
<1>3. \A part \in 0..MaxParts : Append(shown[m], part) \in Chats BY <1>1, AppendProperties
<1>4. CASE \E part \in 0..MaxParts : Shows(m, part) BY <1>1, <1>3, <1>4 DEF Shows
<1>5. CASE UNCHANGED shown BY <1>1, <1>5
<1>6. CASE PrintReply(m)
  <2>1. [k \in 1..run[m].parts |-> k] \in Chats BY <1>2
  <2>2. QED BY <1>1, <1>6, <2>1 DEF PrintReply
<1>7. ~PrintReply(m) => UNCHANGED shown \/ \E part \in 0..MaxParts : Shows(m, part)
  BY <1>2 DEF Handle, ReplyText, ReplyCommand, HasReply, Raise, SendMax, SendText, SendPlain,
              SendResult, SaySorry, Delivered, Broken, RetryPart
<1>8. QED BY <1>4, <1>5, <1>6, <1>7

LEMMA HandleKeeps ==
  ASSUME DeliveryAssumption, DeliveryInv, NEW m \in Messages, Handle(m) PROVE DeliveryInv'
<1> TypeOK /\ RunInv BY DEF DeliveryInv
<1>1. UNCHANGED <<polling, begun, restarts>> BY HandleSteps
<1>2. PICK r : Steps(m, r) BY HandleSteps
<1>3. run \in [Messages -> Runs] BY DEF TypeOK, Runs
<1>4. \A k \in Messages : run'[k] = IF k = m THEN r ELSE run[k] BY <1>2, <1>3 DEF Steps
<1>5. TypeOK'
  <2>1. run' \in [Messages -> Runs] BY <1>2, <1>3 DEF Steps
  <2>2. ended' \subseteq Messages BY <1>2 DEF Steps, TypeOK
  <2>3. QED BY <1>1, <2>1, <2>2, HandleShown DEF polling, TypeOK, Runs
<1>6. RunInv' BY <1>2, <1>4 DEF Steps, RunInv
<1>7. MaxInv'
  <2>1. \A k \in Messages : k \in ended => k \in ended' BY <1>2 DEF Steps
  <2>2. \A k \in Messages : Running(k) => k \in ended' \/ Running(k)'
    BY <1>2, <1>4 DEF Steps, Running
  <2>3. \A n \in 1..MaxSent : <<"max", n>> \in Messages BY DEF Messages, Channels
  <2>4. QED BY <1>1, <2>1, <2>2, <2>3 DEF polling, DeliveryInv, MaxInv
<1>8. BeginInv'
  <2>1. \A k \in Messages : Given(k)' <=> Given(k) BY <1>1 DEF polling, Given
  <2>2. Running(m) BY DEF Handle, ReplyText, ReplyCommand, Raise, SendMax, SendText, SendPlain,
                          SendResult, SaySorry, PrintReply, Running
  <2>3. \A k \in Messages : Running(k)' => Running(k) BY <1>4, <2>2 DEF Running
  <2>4. QED BY <1>1, <2>1, <2>3 DEF DeliveryInv, BeginInv
<1>9. QED BY <1>5, <1>6, <1>7, <1>8 DEF DeliveryInv

-----------------------------------------------------------------------------
(* The other steps.                                                        *)

LEMMA StartTyped ==
  ASSUME DeliveryAssumption, TypeOK, RunInv, NEW ms, Start(ms)
  PROVE  /\ run' \in [Messages -> Runs] /\ RunInv'
         /\ begun' \in [Messages -> Nat] /\ shown' \in [Messages -> Seq(0..MaxParts)]
<1>1. PICK kinds \in [ms -> Kinds] :
        run' = [m \in Messages |-> IF m \in ms THEN At(kinds[m], "work", 1, 1) ELSE run[m]]
  BY DEF Start
<1>2. ASSUME NEW m \in Messages, m \in ms PROVE run'[m] \in Runs /\ run'[m].part <= run'[m].parts
  <2>1. run'[m] = At(kinds[m], "work", 1, 1) /\ kinds[m] \in Kinds BY <1>1, <1>2
  <2>2. 1 \in 1..MaxParts /\ 0 \in 0..(Tries - 1) BY DEF DeliveryAssumption, Tries
  <2>3. QED BY <2>1, <2>2 DEF At, Runs
<1>3. ASSUME NEW m \in Messages, m \notin ms PROVE run'[m] \in Runs /\ run'[m].part <= run'[m].parts
  <2>1. run'[m] = run[m] BY <1>1, <1>3
  <2>2. run[m] \in Runs /\ run[m].part <= run[m].parts BY DEF TypeOK, Runs, RunInv
  <2>3. QED BY <2>1, <2>2
<1>6. run' \in [Messages -> Runs]
  <2>1. \A m \in Messages : run'[m] \in Runs BY <1>2, <1>3
  <2>2. QED BY <1>1, <2>1
<1>7. RunInv' BY <1>2, <1>3 DEF RunInv
<1>8. begun' \in [Messages -> Nat]
  <2>1. \A m \in Messages : begun[m] \in Nat /\ begun[m] + 1 \in Nat BY DEF TypeOK
  <2>2. QED BY <2>1 DEF Start
<1>9. shown' \in [Messages -> Seq(0..MaxParts)] BY EmptySeq DEF Start, TypeOK
<1>10. QED BY <1>6, <1>7, <1>8, <1>9

LEMMA StepTyped ==
  ASSUME DeliveryAssumption, DeliveryInv,
         NEW c \in Channels, Arrive(c) \/ Restart(c)
  PROVE  TypeOK' /\ RunInv'
<1> TypeOK /\ RunInv BY DEF DeliveryInv
<1>1. CASE Arrive(c)
  <2>1. arrived[c] \in Nat /\ sent[c] \in 0..MaxSent BY DEF TypeOK, DeliveryAssumption
  <2>2. arrived' = [arrived EXCEPT ![c] = arrived[c] + 1] /\ arrived[c] < sent[c]
    BY <1>1 DEF Arrive
  <2>3. arrived' \in [Channels -> Nat] BY <2>1, <2>2 DEF TypeOK
  <2>4. \A d \in Channels : arrived[d] <= arrived'[d] /\ arrived'[d] <= sent[d]
    BY <2>1, <2>2 DEF TypeOK, DeliveryAssumption
  <2>5. \A d \in Channels : confirmed[d] <= arrived'[d] /\ upTo[d] <= arrived'[d]
    BY <2>3, <2>4 DEF TypeOK
  <2>6. UNCHANGED <<sent, confirmed, todo, upTo, run, begun, ended, shown, restarts>>
    BY <1>1 DEF Arrive
  <2>7. RunInv' BY <2>6 DEF RunInv
  <2>8. TypeOK' BY <2>3, <2>4, <2>5, <2>6 DEF TypeOK
  <2>9. QED BY <2>7, <2>8
<1>2. CASE Restart(c)
  <2>1. run' \in [Messages -> Runs] /\ RunInv'
    <3>1. \A m \in Messages : run'[m] = NoRun \/ run'[m] = run[m] BY <1>2 DEF Restart
    <3>2. NoRun \in Runs /\ NoRun.part <= NoRun.parts BY NoRunTyped DEF NoRun, At
    <3>3. \A m \in Messages : run[m] \in Runs /\ run[m].part <= run[m].parts
      BY DEF TypeOK, Runs, RunInv
    <3>4. \A m \in Messages : run'[m] \in Runs /\ run'[m].part <= run'[m].parts
      BY <3>1, <3>2, <3>3
    <3>5. QED BY <1>2, <3>4 DEF Restart, RunInv
  <2>2. restarts' \in 0..MaxRestarts
    <3>1. restarts < MaxRestarts /\ restarts' = restarts + 1 BY <1>2 DEF Restart
    <3>2. restarts \in 0..MaxRestarts /\ MaxRestarts \in Nat BY DEF TypeOK, DeliveryAssumption
    <3>3. QED BY <3>1, <3>2
  <2>3. todo' \in [Channels -> Nat \ {0}] /\ upTo' \in [Channels -> Nat]
    BY <1>2 DEF Restart, TypeOK
  <2>4. \A d \in Channels : upTo'[d] <= arrived[d] BY <1>2 DEF Restart, TypeOK
  <2>5. UNCHANGED <<sent, arrived, confirmed, begun, ended, shown>> BY <1>2 DEF Restart
  <2>6. TypeOK' BY <2>1, <2>2, <2>3, <2>4, <2>5 DEF TypeOK, Runs
  <2>7. QED BY <2>1, <2>6
<1>3. QED BY <1>1, <1>2

\* The server's side of a poll.
LEMMA ConfirmTyped ==
  ASSUME TypeOK, NEW c \in Channels, Confirm(c)
  PROVE  /\ confirmed' \in [Channels -> Nat]
         /\ \A d \in Channels \ {c} : confirmed'[d] = confirmed[d]
         /\ confirmed'[c] >= confirmed[c] /\ confirmed'[c] >= upTo[c]
         /\ confirmed'[c] = confirmed[c] \/ confirmed'[c] = upTo[c]
         /\ \A d \in Channels : confirmed'[d] <= arrived[d]
<1>1. confirmed \in [Channels -> Nat] /\ upTo \in [Channels -> Nat] /\ arrived \in [Channels -> Nat]
  BY DEF TypeOK
<1>2. confirmed[c] <= arrived[c] /\ upTo[c] <= arrived[c] BY DEF TypeOK
<1> DEFINE k == Larger(confirmed[c], upTo[c])
<1>3. /\ k \in Nat /\ k >= confirmed[c] /\ k >= upTo[c] /\ k <= arrived[c]
      /\ k = confirmed[c] \/ k = upTo[c]
  BY <1>1, <1>2 DEF Larger
<1>4. confirmed' = [confirmed EXCEPT ![c] = k] BY DEF Confirm
<1> HIDE DEF k
<1>5. confirmed'[c] = k /\ confirmed' \in [Channels -> Nat] BY <1>1, <1>3, <1>4
<1>6. \A d \in Channels \ {c} : confirmed'[d] = confirmed[d] BY <1>1, <1>4
<1>7. \A d \in Channels : confirmed[d] <= arrived[d] BY DEF TypeOK
<1>8. QED BY <1>3, <1>5, <1>6, <1>7

LEMMA AnswerTyped ==
  ASSUME TypeOK, NEW c \in Channels, Answer(c), confirmed'[c] \in Nat
  PROVE  /\ todo' \in [Channels -> Nat \ {0}] /\ upTo' \in [Channels -> Nat]
         /\ todo'[c] = confirmed'[c] + 1 /\ upTo'[c] = arrived[c]
         /\ \A d \in Channels \ {c} : todo'[d] = todo[d] /\ upTo'[d] = upTo[d]
         /\ \A d \in Channels : upTo'[d] <= arrived[d]
         /\ UNCHANGED <<sent, arrived>>
BY DEF Answer, TypeOK
-----------------------------------------------------------------------------
(* A channel that gives out new messages.                                   *)

LEMMA ArriveKeeps ==
  ASSUME DeliveryAssumption, DeliveryInv, NEW c \in Channels, Arrive(c) PROVE DeliveryInv'
<1>1. UNCHANGED <<sent, confirmed, todo, upTo, run, begun, ended, shown, restarts>> BY DEF Arrive
<1>2. MaxInv' /\ BeginInv' BY <1>1 DEF DeliveryInv, MaxInv, BeginInv, Running, Given
<1>3. QED BY <1>2, StepTyped DEF DeliveryInv

LEMMA RestartKeeps ==
  ASSUME DeliveryAssumption, DeliveryInv, NEW c \in Channels, Restart(c) PROVE DeliveryInv'
<1> TypeOK BY DEF DeliveryInv
<1>0. "max" \in Channels /\ restarts \in Nat BY DEF Channels, TypeOK, DeliveryAssumption
<1>1. UNCHANGED <<sent, arrived, confirmed, begun, ended, shown>> /\ restarts' = restarts + 1
  BY DEF Restart
<1>2. \A d \in Channels : IF d = c THEN todo'[d] = 1 /\ upTo'[d] = 0
                          ELSE todo'[d] = todo[d] /\ upTo'[d] = upTo[d]
  BY DEF Restart, TypeOK
<1>3. \A m \in Messages : m[1] # c => run'[m] = run[m] BY DEF Restart, Channel
<1>4. MaxInv'
  <2>1. CASE c = "max" BY <1>0, <1>1, <1>2, <2>1 DEF DeliveryInv, MaxInv
  <2>2. CASE c # "max"
    <3>1. \A n \in 1..MaxSent : run'[<<"max", n>>] = run[<<"max", n>>]
      BY <1>0, <1>3, <2>2 DEF Messages
    <3>2. QED BY <1>0, <1>1, <1>2, <2>2, <3>1 DEF DeliveryInv, MaxInv, Running
  <2>3. QED BY <2>1, <2>2
<1>5. BeginInv'
  <2> SUFFICES ASSUME NEW m \in Messages
               PROVE  /\ begun'[m] <= restarts' + (IF Given(m)' THEN 1 ELSE 0)
                      /\ Running(m)' => Given(m)'
    BY DEF BeginInv
  <2>1. begun[m] \in Nat /\ begun[m] <= restarts + (IF Given(m) THEN 1 ELSE 0)
    BY DEF TypeOK, DeliveryInv, BeginInv
  <2>2. begun[m] <= restarts + 1 BY <1>0, <2>1
  <2>3. Running(m)' => m[1] # c
    <3>1. m[1] = c => run'[m] = NoRun BY DEF Restart, Channel
    <3>2. QED BY <3>1 DEF Running, NoRun, At
  <2>4. Running(m)' => Given(m)'
    <3> SUFFICES ASSUME Running(m)' PROVE Given(m)' OBVIOUS
    <3>1. m[1] \in Channels /\ m[1] # c BY <2>3, MessageIsPair
    <3>2. todo'[m[1]] = todo[m[1]] /\ upTo'[m[1]] = upTo[m[1]] /\ confirmed' = confirmed
      BY <1>1, <1>2, <3>1
    <3>3. Running(m) BY <1>3, <3>1 DEF Running
    <3>4. Given(m) BY <3>3 DEF DeliveryInv, BeginInv
    <3>5. QED BY <3>2, <3>4 DEF Given
  <2>5. QED BY <1>0, <1>1, <2>1, <2>2, <2>4
<1>6. QED BY <1>4, <1>5, StepTyped DEF DeliveryInv

LEMMA PollMaxKeeps ==
  ASSUME DeliveryAssumption, DeliveryInv, PollMax PROVE DeliveryInv'
<1> TypeOK BY DEF DeliveryInv
<1>0. "max" \in Channels BY DEF Channels
<1>1. /\ todo["max"] > upTo["max"] /\ Confirm("max")
      /\ \A m \in Messages : m[1] = "max" => ~Running(m)
      /\ Answer("max") \/ UNCHANGED <<sent, arrived, todo, upTo>>
      /\ UNCHANGED <<run, begun, ended, shown, restarts>>
  BY DEF PollMax, Channel
<1>2. confirmed'["max"] \in Nat BY <1>0, <1>1, ConfirmTyped
<1>3. \/ /\ todo'["max"] = confirmed'["max"] + 1
         /\ \A d \in Channels \ {"max"} : todo'[d] = todo[d] /\ upTo'[d] = upTo[d]
         /\ upTo'["max"] = arrived["max"]
      \/ UNCHANGED <<todo, upTo>>
  BY <1>0, <1>1, <1>2, AnswerTyped
<1>4. /\ todo' \in [Channels -> Nat \ {0}] /\ upTo' \in [Channels -> Nat]
      /\ (\A d \in Channels : upTo'[d] <= arrived[d]) /\ UNCHANGED <<sent, arrived>>
  BY <1>0, <1>1, <1>2, AnswerTyped DEF TypeOK
<1>5. UNCHANGED <<sent, arrived>> BY <1>0, <1>4
<1>6. TypeOK' BY <1>0, <1>1, <1>4, <1>5, ConfirmTyped DEF TypeOK
<1>7. RunInv' BY <1>1 DEF DeliveryInv, RunInv
<1>8. /\ todo["max"] \in Nat /\ upTo["max"] \in Nat /\ confirmed["max"] \in Nat
      /\ arrived["max"] \in Nat /\ todo["max"] <= upTo["max"] + 1
  BY <1>0 DEF TypeOK, DeliveryInv, MaxInv
<1>9. /\ confirmed'["max"] >= confirmed["max"] /\ confirmed'["max"] >= upTo["max"]
      /\ confirmed'["max"] = confirmed["max"] \/ confirmed'["max"] = upTo["max"]
      /\ confirmed'["max"] <= arrived["max"]
  BY <1>0, <1>1, ConfirmTyped
<1>10. \A n \in 1..MaxSent : <<"max", n>> \in Messages /\ ~Running(<<"max", n>>)
  BY <1>0, <1>1 DEF Messages
<1>11. \A n \in 1..MaxSent : n <= confirmed'["max"] => <<"max", n>> \in ended
  <2>1. \A n \in 1..MaxSent : n < todo["max"] => <<"max", n>> \in ended
    BY <1>10 DEF DeliveryInv, MaxInv
  <2>2. \A n \in 1..MaxSent : n <= upTo["max"] => n < todo["max"] BY <1>1, <1>8
  <2>3. \A n \in 1..MaxSent : n <= confirmed["max"] => <<"max", n>> \in ended
    BY DEF DeliveryInv, MaxInv
  <2>4. QED BY <1>9, <2>1, <2>2, <2>3
<1>12. MaxInv'
  <2>1. CASE todo'["max"] = confirmed'["max"] + 1 /\ upTo'["max"] = arrived["max"]
    <3>1. \A n \in 1..MaxSent : n < todo'["max"] => n <= confirmed'["max"] BY <1>2, <2>1
    <3>2. todo'["max"] <= upTo'["max"] + 1 BY <1>2, <1>8, <1>9, <2>1
    <3>3. QED BY <1>1, <1>11, <3>1, <3>2 DEF MaxInv
  <2>2. CASE UNCHANGED <<todo, upTo>>
    BY <1>1, <1>11, <2>2 DEF DeliveryInv, MaxInv, Running
  <2>3. QED BY <1>3, <2>1, <2>2
<1>13. BeginInv'
  <2> SUFFICES ASSUME NEW m \in Messages PROVE Given(m) => Given(m)'
    BY <1>1 DEF DeliveryInv, BeginInv, TypeOK, DeliveryAssumption, Running
  <2>0. m[1] \in Channels /\ m[2] \in 1..MaxSent BY MessageIsPair
  <2>1. CASE m[1] = "max"
    <3>1. m[2] < todo["max"] => m[2] <= confirmed'["max"] BY <1>2, <1>8, <1>9, <2>0
    <3>2. CASE todo'["max"] = confirmed'["max"] + 1
      BY <1>2, <2>0, <2>1, <3>1, <3>2 DEF Given
    <3>3. CASE UNCHANGED <<todo, upTo>> BY <2>1, <3>3 DEF Given
    <3>4. QED BY <1>3, <3>2, <3>3
  <2>2. CASE m[1] # "max"
    <3>1. upTo'[m[1]] = upTo[m[1]] BY <1>3, <2>0, <2>2
    <3>2. confirmed'[m[1]] = confirmed[m[1]] BY <1>0, <1>1, <2>0, <2>2, ConfirmTyped
    <3>3. QED BY <2>2, <3>1, <3>2 DEF Given
  <2>3. QED BY <2>1, <2>2
<1>14. QED BY <1>6, <1>7, <1>12, <1>13 DEF DeliveryInv
\* Messages that are started are new to their channel.
LEMMA StartBegins ==
  ASSUME DeliveryAssumption, DeliveryInv, NEW ms, Start(ms),
         \A m \in Messages : m \in ms => ~Given(m) /\ Given(m)',
         \A m \in Messages : Given(m) => Given(m)'
  PROVE  BeginInv'
<1> TypeOK BY DEF DeliveryInv
<1> SUFFICES ASSUME NEW m \in Messages
             PROVE  /\ begun'[m] <= restarts' + (IF Given(m)' THEN 1 ELSE 0)
                    /\ Running(m)' => Given(m)'
  BY DEF BeginInv
<1>1. /\ begun[m] \in Nat /\ begun[m] <= restarts + (IF Given(m) THEN 1 ELSE 0)
      /\ restarts \in Nat
  BY DEF DeliveryInv, BeginInv, TypeOK, DeliveryAssumption
<1>2. restarts' = restarts /\ begun'[m] = IF m \in ms THEN begun[m] + 1 ELSE begun[m]
  BY DEF Start
<1>3. CASE m \in ms
  <2>1. ~Given(m) /\ Given(m)' BY <1>3
  <2>2. begun'[m] = begun[m] + 1 BY <1>2, <1>3
  <2>3. QED BY <1>1, <1>2, <2>1, <2>2
<1>4. CASE m \notin ms
  <2>1. begun'[m] = begun[m] BY <1>2, <1>4
  <2>2. run'[m] = run[m] BY <1>4 DEF Start
  <2>3. Running(m)' => Given(m)' BY <2>2 DEF DeliveryInv, BeginInv, Running
  <2>4. QED BY <1>1, <1>2, <2>1, <2>3
<1>5. QED BY <1>3, <1>4

LEMMA DispatchMaxKeeps ==
  ASSUME DeliveryAssumption, DeliveryInv, DispatchMax PROVE DeliveryInv'
<1> TypeOK /\ RunInv BY DEF DeliveryInv
<1> DEFINE n == todo["max"]
<1>0. "max" \in Channels BY DEF Channels
<1>1. /\ n <= upTo["max"] /\ todo' = [todo EXCEPT !["max"] = n + 1] /\ Start({<<"max", n>>})
      /\ \A m \in Messages : m[1] = "max" => ~Running(m)
      /\ UNCHANGED <<sent, arrived, confirmed, upTo, ended, restarts>>
  BY DEF DispatchMax, Channel, Start
<1>2. n \in Nat \ {0} /\ upTo["max"] \in Nat BY <1>0 DEF TypeOK
<1>3. todo' \in [Channels -> Nat \ {0}] /\ todo'["max"] = n + 1
      /\ \A d \in Channels \ {"max"} : todo'[d] = todo[d]
  BY <1>0, <1>1, <1>2 DEF TypeOK
<1>4. TypeOK' BY <1>1, <1>3, StartTyped DEF TypeOK, Runs
<1>5. RunInv' BY <1>1, StartTyped
<1>6. \A k \in 1..MaxSent : <<"max", k>> \in Messages /\ ~Running(<<"max", k>>)
  BY <1>0, <1>1 DEF Messages
<1>7. ASSUME n \in 1..MaxSent PROVE run'[<<"max", n>>].pc # "off"
  <2>1. <<"max", n>> \in Messages BY <1>0, <1>7 DEF Messages
  <2>2. PICK kinds \in [{<<"max", n>>} -> Kinds] :
          run' = [m \in Messages |->
                    IF m \in {<<"max", n>>} THEN At(kinds[m], "work", 1, 1) ELSE run[m]]
    BY <1>1 DEF Start
  <2>3. run'[<<"max", n>>] = At(kinds[<<"max", n>>], "work", 1, 1) BY <2>1, <2>2
  <2>4. QED BY <2>3 DEF At
<1>8. MaxInv'
  <2>1. \A k \in 1..MaxSent : k < n + 1 => <<"max", k>> \in ended \/ k = n
    BY <1>2, <1>6 DEF DeliveryInv, MaxInv
  <2>2. ASSUME NEW k \in 1..MaxSent, k < todo'["max"]
        PROVE  <<"max", k>> \in ended' \/ run'[<<"max", k>>].pc # "off"
    <3>1. k < n + 1 BY <1>3, <2>2
    <3>2. QED BY <1>1, <1>7, <2>1, <3>1
  <2>3. \A k \in 1..MaxSent : k <= confirmed'["max"] => <<"max", k>> \in ended'
    BY <1>1 DEF DeliveryInv, MaxInv
  <2>4. todo'["max"] <= upTo'["max"] + 1 BY <1>1, <1>2, <1>3
  <2>5. QED BY <2>2, <2>3, <2>4 DEF MaxInv, Running
<1>9. BeginInv'
  <2>1. ASSUME NEW m \in Messages, m \in {<<"max", n>>} PROVE ~Given(m) /\ Given(m)'
    <3>1. m[1] = "max" /\ m[2] = n BY <2>1
    <3>2. QED BY <1>2, <1>3, <3>1 DEF Given
  <2>2. ASSUME NEW m \in Messages, Given(m) PROVE Given(m)'
    <3>1. m[2] \in 1..MaxSent BY MessageIsPair
    <3>2. QED BY <1>1, <1>2, <1>3, <2>2, <3>1 DEF Given
  <2>3. QED BY <1>1, <2>1, <2>2, StartBegins
<1>10. QED BY <1>4, <1>5, <1>8, <1>9 DEF DeliveryInv

\* Steps of the other channels leave MAX alone.
LEMMA OthersKeepMax ==
  ASSUME DeliveryInv, NEW c \in {"telegram", "console"}, NEW k, Start({c} \X k),
         UNCHANGED <<ended, confirmed["max"], todo["max"], upTo["max"]>>
  PROVE  MaxInv'
<1>1. ASSUME NEW n \in 1..MaxSent PROVE run'[<<"max", n>>] = run[<<"max", n>>]
  <2>1. <<"max", n>> \in Messages /\ <<"max", n>> \notin {c} \X k BY DEF Messages, Channels
  <2>2. QED BY <2>1 DEF Start
<1>2. QED BY <1>1 DEF DeliveryInv, MaxInv, Running

LEMMA PollTelegramKeeps ==
  ASSUME DeliveryAssumption, DeliveryInv, PollTelegram PROVE DeliveryInv'
<1> TypeOK /\ RunInv BY DEF DeliveryInv
<1> DEFINE c == "telegram"
<1> DEFINE new == (confirmed'[c] + 1)..arrived[c]
<1>0. c \in Channels /\ "max" \in Channels /\ c # "max" BY DEF Channels
<1>1. /\ Confirm(c)
      /\ \/ Answer(c) /\ Start({c} \X new)
         \/ UNCHANGED <<sent, arrived, todo, upTo, run, begun, ended, shown, restarts>>
  BY DEF PollTelegram
<1>2. /\ confirmed' \in [Channels -> Nat] /\ confirmed'[c] \in Nat
      /\ \A d \in Channels \ {c} : confirmed'[d] = confirmed[d]
      /\ confirmed'[c] >= confirmed[c] /\ confirmed'[c] >= upTo[c]
      /\ \A d \in Channels : confirmed'[d] <= arrived[d]
  BY <1>0, <1>1, ConfirmTyped
<1>3. upTo[c] \in Nat /\ arrived[c] \in Nat /\ confirmed[c] \in Nat BY <1>0 DEF TypeOK
<1>4. CASE UNCHANGED <<sent, arrived, todo, upTo, run, begun, ended, shown, restarts>>
  <2>1. TypeOK' BY <1>2, <1>4 DEF TypeOK
  <2>2. RunInv' BY <1>4 DEF RunInv
  <2>3. confirmed'["max"] = confirmed["max"] BY <1>0, <1>2
  <2>4. MaxInv' BY <1>4, <2>3 DEF DeliveryInv, MaxInv, Running
  <2>5. ASSUME NEW m \in Messages, Given(m) PROVE Given(m)'
    <3>1. m[1] \in Channels /\ m[2] \in 1..MaxSent BY MessageIsPair
    <3>2. confirmed[m[1]] \in Nat /\ confirmed'[m[1]] \in Nat BY <1>2, <3>1 DEF TypeOK
    <3>3. confirmed'[m[1]] >= confirmed[m[1]]
      <4>1. CASE m[1] = c BY <1>2, <4>1
      <4>2. CASE m[1] # c
        <5>1. confirmed'[m[1]] = confirmed[m[1]] BY <1>2, <3>1, <4>2
        <5>2. QED BY <3>2, <5>1
      <4>3. QED BY <4>1, <4>2
    <3>4. m[2] <= confirmed[m[1]] => m[2] <= confirmed'[m[1]] BY <3>1, <3>2, <3>3
    <3>5. QED BY <1>4, <2>5, <3>4 DEF Given
  <2>6. BeginInv' BY <1>4, <2>5 DEF DeliveryInv, BeginInv, TypeOK, DeliveryAssumption, Running
  <2>7. QED BY <2>1, <2>2, <2>4, <2>6 DEF DeliveryInv
<1>5. CASE Answer(c) /\ Start({c} \X new)
  <2>1. /\ todo' \in [Channels -> Nat \ {0}] /\ upTo' \in [Channels -> Nat]
        /\ upTo'[c] = arrived[c]
        /\ \A d \in Channels \ {c} : todo'[d] = todo[d] /\ upTo'[d] = upTo[d]
        /\ \A d \in Channels : upTo'[d] <= arrived[d]
        /\ UNCHANGED <<sent, arrived>>
    BY <1>0, <1>2, <1>5, AnswerTyped
  <2>2. UNCHANGED <<ended, restarts>> BY <1>5 DEF Start
  <2>3. TypeOK' BY <1>2, <1>5, <2>1, <2>2, StartTyped DEF TypeOK, Runs
  <2>4. RunInv' BY <1>5, StartTyped
  <2>5. UNCHANGED <<ended, confirmed["max"], todo["max"], upTo["max"]>>
    BY <1>0, <1>2, <2>1, <2>2
  <2>6. MaxInv' BY <1>5, <2>5, OthersKeepMax
  <2>7. ASSUME NEW m \in Messages, m \in {c} \X new PROVE ~Given(m) /\ Given(m)'
    <3>1. m[1] = c /\ m[2] \in new BY <2>7
    <3>2. m[2] > upTo[c] /\ m[2] > confirmed[c] /\ m[2] <= upTo'[c] BY <1>2, <1>3, <2>1, <3>1
    <3>3. QED BY <1>3, <3>1, <3>2 DEF Given
  <2>8. ASSUME NEW m \in Messages, Given(m) PROVE Given(m)'
    <3>1. m[1] \in Channels /\ m[2] \in 1..MaxSent BY MessageIsPair
    <3>2. CASE m[1] = c BY <1>2, <1>3, <2>8, <3>1, <3>2 DEF Given
    <3>3. CASE m[1] # c
      <4>1. todo'[m[1]] = todo[m[1]] /\ confirmed'[m[1]] = confirmed[m[1]] BY <1>2, <2>1, <3>1, <3>3
      <4>2. QED BY <2>8, <3>3, <4>1 DEF Given
    <3>4. QED BY <3>2, <3>3
  <2>9. BeginInv' BY <1>5, <2>7, <2>8, StartBegins
  <2>10. QED BY <2>3, <2>4, <2>6, <2>9 DEF DeliveryInv
<1>6. QED BY <1>1, <1>4, <1>5

LEMMA ReadLineKeeps ==
  ASSUME DeliveryAssumption, DeliveryInv, ReadLine PROVE DeliveryInv'
<1> TypeOK /\ RunInv BY DEF DeliveryInv
<1> DEFINE c == "console"
<1> DEFINE n == confirmed[c] + 1
<1>0. c \in Channels /\ "max" \in Channels /\ c # "max" BY DEF Channels
<1>1. /\ n <= arrived[c]
      /\ confirmed' = [confirmed EXCEPT ![c] = n]
      /\ todo' = [todo EXCEPT ![c] = n + 1] /\ upTo' = [upTo EXCEPT ![c] = n]
      /\ Start({<<c, n>>}) /\ UNCHANGED <<sent, arrived>>
  BY DEF ReadLine
<1>2. confirmed[c] \in Nat /\ n \in Nat /\ n + 1 \in Nat \ {0} BY <1>0 DEF TypeOK
<1>3. /\ confirmed' \in [Channels -> Nat] /\ todo' \in [Channels -> Nat \ {0}]
      /\ upTo' \in [Channels -> Nat]
      /\ confirmed'[c] = n /\ upTo'[c] = n
      /\ \A d \in Channels \ {c} : /\ confirmed'[d] = confirmed[d]
                                   /\ todo'[d] = todo[d] /\ upTo'[d] = upTo[d]
  BY <1>0, <1>1, <1>2 DEF TypeOK
<1>4. \A d \in Channels : confirmed'[d] <= arrived[d] /\ upTo'[d] <= arrived[d]
  BY <1>1, <1>3 DEF TypeOK
<1>5. UNCHANGED <<ended, restarts>> BY <1>1 DEF Start
<1>6. TypeOK' BY <1>1, <1>3, <1>4, <1>5, StartTyped DEF TypeOK, Runs
<1>7. RunInv' BY <1>1, StartTyped
<1>8. MaxInv'
  <2>1. {<<c, n>>} = {c} \X {n} OBVIOUS
  <2>2. UNCHANGED <<ended, confirmed["max"], todo["max"], upTo["max"]>> BY <1>0, <1>3, <1>5
  <2>3. Start({c} \X {n}) BY <1>1, <2>1
  <2>4. QED BY <2>2, <2>3, OthersKeepMax
<1>9. BeginInv'
  <2>1. ASSUME NEW m \in Messages, m \in {<<c, n>>} PROVE ~Given(m) /\ Given(m)'
    <3>1. m[1] = c /\ m[2] = n BY <2>1
    <3>2. QED BY <1>2, <1>3, <3>1 DEF Given
  <2>2. ASSUME NEW m \in Messages, Given(m) PROVE Given(m)'
    <3>1. m[1] \in Channels /\ m[2] \in 1..MaxSent BY MessageIsPair
    <3>2. CASE m[1] = c BY <1>2, <1>3, <2>2, <3>1, <3>2 DEF Given
    <3>3. CASE m[1] # c
      <4>1. /\ todo'[m[1]] = todo[m[1]] /\ upTo'[m[1]] = upTo[m[1]]
            /\ confirmed'[m[1]] = confirmed[m[1]]
        BY <1>3, <3>1, <3>3
      <4>2. QED BY <2>2, <3>3, <4>1 DEF Given
    <3>4. QED BY <3>2, <3>3
  <2>3. QED BY <1>1, <2>1, <2>2, StartBegins
<1>10. QED BY <1>6, <1>7, <1>8, <1>9 DEF DeliveryInv

-----------------------------------------------------------------------------
LEMMA InitDeliveryInv == ASSUME DeliveryAssumption, Init PROVE DeliveryInv
<1>1. TypeOK
  <2>1. run \in [Messages -> Runs] BY NoRunTyped DEF Init
  <2>2. \A c \in Channels : sent[c] \in Nat BY DEF Init, DeliveryAssumption
  <2>3. shown \in [Messages -> Seq(0..MaxParts)] BY EmptySeq DEF Init
  <2>4. QED BY <2>1, <2>2, <2>3 DEF Init, TypeOK, Runs, DeliveryAssumption
<1>2. RunInv BY DEF Init, RunInv, NoRun, At
<1>3. MaxInv BY DEF Init, MaxInv, Channels
<1>4. BeginInv BY DEF Init, BeginInv, Running, NoRun, At
<1>5. QED BY <1>1, <1>2, <1>3, <1>4 DEF DeliveryInv

LEMMA NextDeliveryInv ==
  ASSUME DeliveryAssumption, DeliveryInv, [Next]_vars PROVE DeliveryInv'
<1>1. CASE UNCHANGED vars
  BY <1>1 DEF vars, DeliveryInv, TypeOK, RunInv, MaxInv, BeginInv, Running, Given
<1>2. TypeOK /\ RunInv BY DEF DeliveryInv
<1>3. QED
  BY <1>1, ArriveKeeps, RestartKeeps, PollMaxKeeps, DispatchMaxKeeps, PollTelegramKeeps,
     ReadLineKeeps, HandleKeeps DEF Next, Poll

LEMMA DeliveryInvariant == Spec => []DeliveryInv
<1>1. Init => DeliveryInv BY InitDeliveryInv, DeliveryAssumption
<1>2. DeliveryInv /\ [Next]_vars => DeliveryInv' BY NextDeliveryInv, DeliveryAssumption
<1>3. QED BY <1>1, <1>2, PTL DEF Spec

\* Every variable stays in its type; markers never run ahead of what arrived.
THEOREM DeliveryTypeCorrect == Spec => []TypeOK
<1>1. DeliveryInv => TypeOK BY DEF DeliveryInv
<1>2. QED BY <1>1, DeliveryInvariant, PTL

\* At least once on MAX: what the server will not deliver again was handled to
\* the end, wherever polls failed and the process was stopped.
THEOREM MaxAtLeastOnce == Spec => []MaxLosesNothing
<1>1. ASSUME DeliveryInv PROVE MaxLosesNothing
  <2> SUFFICES ASSUME NEW m \in Messages, m[1] = "max", m[2] <= confirmed["max"]
               PROVE  m \in ended
    BY DEF MaxLosesNothing, Channel
  <2>1. m[2] \in 1..MaxSent /\ m = <<"max", m[2]>> BY MessageIsPair
  <2>2. <<"max", m[2]>> \in ended BY <1>1, <2>1 DEF DeliveryInv, MaxInv
  <2>3. QED BY <2>1, <2>2
<1>2. QED BY <1>1, DeliveryInvariant, PTL

\* On every channel a message is begun once more only for a restart.
THEOREM OnceWithoutRestart == Spec => []RepeatsNeedRestart
<1>1. ASSUME DeliveryInv, DeliveryAssumption PROVE RepeatsNeedRestart
  <2> SUFFICES ASSUME NEW m \in Messages PROVE begun[m] <= 1 + restarts
    BY DEF RepeatsNeedRestart
  <2>1. begun[m] \in Nat /\ restarts \in Nat /\ begun[m] <= restarts + (IF Given(m) THEN 1 ELSE 0)
    BY <1>1 DEF DeliveryInv, BeginInv, TypeOK, DeliveryAssumption
  <2>2. QED BY <2>1
<1>2. QED BY <1>1, DeliveryAssumption, DeliveryInvariant, PTL

-----------------------------------------------------------------------------
(* A handler comes to its end.                                             *)

\* How many steps a handler can still take: the attempts at the parts that are left,
\* with the plain text as one more, and an apology.
Attempts == Tries + 1
Left(r) ==
    CASE r.pc = "off"   -> 0
      [] r.pc = "sorry" -> 1
      [] r.pc = "plain" -> 2 + (r.parts - r.part) * Attempts
      [] r.pc = "send"  -> 1 + (r.parts - r.part) * Attempts + (Attempts - r.tries)
      [] r.pc = "work"  -> 2 + MaxParts * Attempts

\* A step of the handler leaves less to do; if it is the last one, the message has ended.
RunsDown(m) ==
    /\ Left(run'[m]) \in Nat /\ Left(run'[m]) < Left(run[m])
    /\ ~Running(m)' => m \in ended'

\* What a running handler does leaves less to do, nobody starts it again before its end,
\* and a handler that stops has ended its message or went down with its process.
HandlersRunOut ==
    [][\A m \in Messages : Running(m) /\ run'[m] # run[m] =>
          /\ Left(run'[m]) \in Nat /\ Left(run'[m]) < Left(run[m])
          /\ ~Running(m)' => m \in ended' \/ restarts' # restarts]_vars

LEMMA LeftOf ==
  ASSUME NEW r
  PROVE  /\ r.pc = "off" => Left(r) = 0
         /\ r.pc = "sorry" => Left(r) = 1
         /\ r.pc = "plain" => Left(r) = 2 + (r.parts - r.part) * 4
         /\ r.pc = "send" => Left(r) = 1 + (r.parts - r.part) * 4 + (4 - r.tries)
         /\ r.pc = "work" => Left(r) = 2 + MaxParts * 4
BY DEF Left, Attempts, Tries

\* What is left in a running handler, in numbers.
LEMMA LeftNow ==
  ASSUME DeliveryAssumption, TypeOK, RunInv, NEW m \in Messages, NEW rest,
         rest = (run[m].parts - run[m].part) * 4
  PROVE  /\ rest \in Nat /\ MaxParts \in Nat
         /\ Running(m) => Left(run[m]) \in Nat \ {0}
         /\ run[m].pc = "plain" => Left(run[m]) = 2 + rest
         /\ run[m].pc = "send" => Left(run[m]) = 5 + rest - run[m].tries /\ run[m].tries \in 0..2
         /\ run[m].pc = "work" => Left(run[m]) = 2 + MaxParts * 4
<1>1. run[m] \in Runs /\ run[m].part <= run[m].parts BY DEF TypeOK, Runs, RunInv
<1>2. /\ run[m].tries \in 0..2 /\ run[m].part \in Nat /\ run[m].parts \in Nat
      /\ MaxParts \in Nat
  BY <1>1 DEF Runs, Tries, DeliveryAssumption
<1>3. rest \in Nat BY <1>1, <1>2
<1>4. Running(m) => run[m].pc \in {"sorry", "plain", "send", "work"}
  BY <1>1 DEF Running, Runs
<1>5. /\ run[m].pc = "plain" => Left(run[m]) = 2 + rest
      /\ run[m].pc = "send" => Left(run[m]) = 1 + rest + (4 - run[m].tries)
      /\ run[m].pc = "work" => Left(run[m]) = 2 + MaxParts * 4
      /\ run[m].pc = "sorry" => Left(run[m]) = 1
  BY LeftOf
<1>6. QED BY <1>2, <1>3, <1>4, <1>5

LEMMA EndRunsDown ==
  ASSUME DeliveryAssumption, TypeOK, RunInv, NEW m \in Messages, Running(m), End(m)
  PROVE  RunsDown(m)
<1>1. run'[m] = NoRun /\ m \in ended' BY DEF TypeOK, End
<1>2. Left(run'[m]) = 0 BY <1>1, LeftOf DEF NoRun, At
<1>3. Left(run[m]) \in Nat \ {0} BY LeftNow
<1>4. QED BY <1>1, <1>2, <1>3 DEF RunsDown

LEMMA GotoRunsDown ==
  ASSUME DeliveryAssumption, TypeOK, RunInv, NEW m \in Messages,
         \/ Goto(m, "sorry") /\ run[m].pc \in {"work", "send", "plain"}
         \/ Goto(m, "plain") /\ run[m].pc = "send"
  PROVE  RunsDown(m)
<1> DEFINE rest == (run[m].parts - run[m].part) * 4
<1>1. PICK l \in {"plain", "sorry"} : Goto(m, l) OBVIOUS
<1>2. run[m] \in Runs /\ m \in DOMAIN run BY DEF TypeOK, Runs
<1>3. run'[m] = [run[m] EXCEPT !.pc = l] BY <1>1, <1>2 DEF Goto
<1>4. run'[m].pc = l /\ run'[m].part = run[m].part /\ run'[m].parts = run[m].parts
  BY <1>2, <1>3 DEF Runs
<1>5. /\ l = "sorry" => Left(run'[m]) = 1
      /\ l = "plain" => Left(run'[m]) = 2 + rest
  BY <1>4, LeftOf
<1>6. /\ rest \in Nat /\ MaxParts \in Nat \ {0}
      /\ run[m].pc = "plain" => Left(run[m]) = 2 + rest
      /\ run[m].pc = "send" => Left(run[m]) = 5 + rest - run[m].tries /\ run[m].tries \in 0..2
      /\ run[m].pc = "work" => Left(run[m]) = 2 + MaxParts * 4
  BY LeftNow DEF DeliveryAssumption
<1>7. l = "plain" => run[m].pc = "send"
  <2>1. ASSUME l = "plain", Goto(m, "sorry") PROVE FALSE
    <3>1. run'[m] = [run[m] EXCEPT !.pc = "sorry"] BY <1>2, <2>1 DEF Goto
    <3>2. run'[m].pc = "sorry" BY <1>2, <3>1 DEF Runs
    <3>3. QED BY <1>4, <2>1, <3>2
  <2>2. QED BY <2>1
<1>8. ~Running(m)' => m \in ended' BY <1>4 DEF Running
<1> HIDE DEF rest
<1>9. Left(run'[m]) \in Nat /\ Left(run'[m]) < Left(run[m]) BY <1>5, <1>6, <1>7
<1>10. QED BY <1>8, <1>9 DEF RunsDown

LEMMA NextPartRunsDown ==
  ASSUME DeliveryAssumption, TypeOK, RunInv, NEW m \in Messages, NextPart(m),
         run[m].pc \in {"send", "plain"}
  PROVE  RunsDown(m)
<1> DEFINE rest == (run[m].parts - run[m].part) * 4
<1>1. run[m].part \in Nat /\ run[m].parts \in Nat BY DEF TypeOK
<1>2. CASE run[m].part = run[m].parts BY <1>2, EndRunsDown DEF NextPart, Running
<1>3. CASE run[m].part # run[m].parts
  <2> DEFINE r == At(run[m].kind, "send", run[m].part + 1, run[m].parts)
  <2>1. run'[m] = r BY <1>3 DEF NextPart, Send, TypeOK
  <2>2. r.pc = "send" /\ r.part = run[m].part + 1 /\ r.parts = run[m].parts /\ r.tries = 0
    BY DEF At
  <2>3. Left(r) = 1 + (r.parts - r.part) * 4 + (4 - r.tries) BY <2>2, LeftOf
  <2> HIDE DEF r
  <2>4. Left(r) = 1 + rest BY <1>1, <2>2, <2>3
  <2>5. /\ rest \in Nat
        /\ run[m].pc = "plain" => Left(run[m]) = 2 + rest
        /\ run[m].pc = "send" => Left(run[m]) = 5 + rest - run[m].tries /\ run[m].tries \in 0..2
    BY LeftNow
  <2> HIDE DEF rest
  <2>6. Left(r) \in Nat /\ Left(r) < Left(run[m]) BY <2>4, <2>5
  <2>7. QED BY <2>1, <2>2, <2>6 DEF RunsDown, Running
<1>4. QED BY <1>2, <1>3

LEMMA ReplyRunsDown ==
  ASSUME DeliveryAssumption, TypeOK, RunInv, NEW m \in Messages, HasReply(m), run[m].pc = "work"
  PROVE  RunsDown(m)
<1>1. PICK n \in 1..MaxParts : Send(m, 1, n) BY DEF HasReply
<1> DEFINE r == At(run[m].kind, "send", 1, n)
<1>2. run'[m] = r BY <1>1 DEF Send, TypeOK
<1>3. r.pc = "send" /\ r.part = 1 /\ r.parts = n /\ r.tries = 0 BY DEF At
<1>4. Left(r) = 1 + (r.parts - r.part) * 4 + (4 - r.tries) BY <1>3, LeftOf
<1> HIDE DEF r
<1>5. MaxParts \in Nat /\ n \in Nat /\ 1 <= n /\ n <= MaxParts BY DEF DeliveryAssumption
<1>6. Left(r) = 1 + n * 4 BY <1>3, <1>4, <1>5
<1>7. Left(run[m]) = 2 + MaxParts * 4 BY LeftNow
<1>8. Left(r) \in Nat /\ Left(r) < Left(run[m]) BY <1>5, <1>6, <1>7
<1>9. QED BY <1>2, <1>3, <1>8 DEF RunsDown, Running

LEMMA RetryRunsDown ==
  ASSUME DeliveryAssumption, TypeOK, RunInv, NEW m \in Messages, RetryPart(m), run[m].pc = "send"
  PROVE  RunsDown(m)
<1> DEFINE rest == (run[m].parts - run[m].part) * 4
<1>1. rest \in Nat /\ Left(run[m]) = 5 + rest - run[m].tries /\ run[m].tries \in 0..2
  BY LeftNow
<1>2. CASE run[m].tries + 1 < Tries
  <2>1. run[m] \in Runs /\ m \in DOMAIN run BY DEF TypeOK, Runs
  <2>2. run'[m] = [run[m] EXCEPT !.tries = run[m].tries + 1] BY <1>2, <2>1 DEF RetryPart
  <2>3. /\ run'[m].pc = "send" /\ run'[m].part = run[m].part /\ run'[m].parts = run[m].parts
        /\ run'[m].tries = run[m].tries + 1
    BY <2>1, <2>2 DEF Runs
  <2>4. Left(run'[m]) = 1 + rest + (4 - (run[m].tries + 1)) BY <2>3, LeftOf
  <2> HIDE DEF rest
  <2>5. Left(run'[m]) \in Nat /\ Left(run'[m]) < Left(run[m]) BY <1>1, <2>4
  <2>6. QED BY <2>3, <2>5 DEF RunsDown, Running
<1>3. CASE ~(run[m].tries + 1 < Tries) BY <1>3, GotoRunsDown DEF RetryPart
<1>4. QED BY <1>2, <1>3

LEMMA HandleRunsDown ==
  ASSUME DeliveryAssumption, TypeOK, RunInv, NEW m \in Messages, Handle(m) PROVE RunsDown(m)
<1>1. CASE ReplyText(m) BY <1>1, ReplyRunsDown DEF ReplyText
<1>2. CASE ReplyCommand(m) BY <1>2, ReplyRunsDown DEF ReplyCommand
<1>3. CASE Raise(m) BY <1>3, EndRunsDown, GotoRunsDown DEF Raise, Running
<1>4. CASE SendMax(m) BY <1>4, EndRunsDown, NextPartRunsDown DEF SendMax, Running
<1>5. CASE SendText(m) BY <1>5, NextPartRunsDown, RetryRunsDown, GotoRunsDown DEF SendText
<1>6. CASE SendPlain(m) BY <1>6, NextPartRunsDown, GotoRunsDown DEF SendPlain
<1>7. CASE SendResult(m) BY <1>7, NextPartRunsDown, GotoRunsDown DEF SendResult
<1>8. CASE SaySorry(m) BY <1>8, EndRunsDown DEF SaySorry, Running
<1>9. CASE PrintReply(m) BY <1>9, EndRunsDown DEF PrintReply, Running
<1>10. QED BY <1>1, <1>2, <1>3, <1>4, <1>5, <1>6, <1>7, <1>8, <1>9 DEF Handle

\* No poll and no line starts a handler that still runs.
LEMMA PollsSpare ==
  ASSUME DeliveryAssumption, DeliveryInv, Poll, NEW m \in Messages, Running(m)
  PROVE  run'[m] = run[m]
<1>1. CASE PollMax BY <1>1 DEF PollMax
<1>2. CASE DispatchMax
  <2>1. m # <<"max", todo["max"]>> BY <1>2 DEF DispatchMax, Channel
  <2>2. QED BY <1>2, <2>1 DEF DispatchMax, Start
<1>3. CASE PollTelegram
  <2>1. CASE UNCHANGED run BY <2>1
  <2>2. CASE Start({"telegram"} \X ((confirmed'["telegram"] + 1)..arrived["telegram"]))
    <3>1. Given(m) BY DEF DeliveryInv, BeginInv
    <3>2. /\ confirmed["telegram"] \in Nat /\ upTo["telegram"] \in Nat
          /\ arrived["telegram"] \in Nat
      BY DEF DeliveryInv, TypeOK, Channels
    <3>3. confirmed'["telegram"] = Larger(confirmed["telegram"], upTo["telegram"])
      BY <1>3 DEF PollTelegram, Confirm, DeliveryInv, TypeOK, Channels
    <3>4. m[2] \in Nat BY MessageIsPair
    <3>5. m[1] = "telegram" => m[2] <= confirmed'["telegram"]
      BY <3>1, <3>2, <3>3, <3>4 DEF Given, Larger
    <3>6. confirmed'["telegram"] \in Nat BY <3>2, <3>3 DEF Larger
    <3>7. m \notin {"telegram"} \X ((confirmed'["telegram"] + 1)..arrived["telegram"])
      BY <3>2, <3>4, <3>5, <3>6
    <3>8. QED BY <2>2, <3>7 DEF Start
  <2>3. QED BY <1>3, <2>1, <2>2 DEF PollTelegram
<1>4. CASE ReadLine
  <2>1. m # <<"console", confirmed["console"] + 1>> BY <1>4 DEF ReadLine, Channel
  <2>2. QED BY <1>4, <2>1 DEF ReadLine, Start
<1>5. QED BY <1>1, <1>2, <1>3, <1>4 DEF Poll

\* Every handler takes finitely many steps, and no message is handled twice at a time:
\* what the fairness of all the handlers together rests on.
THEOREM HandlersEnd == Spec => HandlersRunOut
<1>1. ASSUME DeliveryAssumption, DeliveryInv, [Next]_vars, NEW m \in Messages,
             Running(m), run'[m] # run[m]
      PROVE  /\ Left(run'[m]) \in Nat /\ Left(run'[m]) < Left(run[m])
             /\ ~Running(m)' => m \in ended' \/ restarts' # restarts
  <2> TypeOK /\ RunInv BY <1>1 DEF DeliveryInv
  <2>1. CASE \E k \in Messages : Handle(k)
    <3>1. PICK k \in Messages : Handle(k) BY <2>1
    <3>2. PICK r : Steps(k, r) BY <1>1, <3>1, HandleSteps
    <3>3. m = k BY <1>1, <3>2 DEF Steps, TypeOK
    <3>4. QED BY <1>1, <3>1, <3>3, HandleRunsDown DEF RunsDown
  <2>2. CASE \E c \in Channels : Restart(c)
    <3>1. PICK c \in Channels : Restart(c) BY <2>2
    <3>2. run'[m] = NoRun /\ restarts' = restarts + 1 BY <1>1, <3>1 DEF Restart
    <3>3. Left(run'[m]) = 0 BY <3>2, LeftOf DEF NoRun, At
    <3>4. Left(run[m]) \in Nat \ {0} BY <1>1, LeftNow
    <3>5. restarts \in Nat BY <1>1 DEF TypeOK, DeliveryAssumption
    <3>6. QED BY <3>2, <3>3, <3>4, <3>5
  <2>3. CASE Poll BY <1>1, <2>3, PollsSpare
  <2>4. CASE \E c \in Channels : Arrive(c) BY <1>1, <2>4 DEF Arrive
  <2>5. CASE UNCHANGED vars BY <1>1, <2>5 DEF vars
  <2>6. QED BY <1>1, <2>1, <2>2, <2>3, <2>4, <2>5 DEF Next
<1>2. DeliveryInv /\ [Next]_vars =>
        [\A m \in Messages : Running(m) /\ run'[m] # run[m] =>
          /\ Left(run'[m]) \in Nat /\ Left(run'[m]) < Left(run[m])
          /\ ~Running(m)' => m \in ended' \/ restarts' # restarts]_vars
  BY <1>1, DeliveryAssumption
<1>3. QED BY <1>2, DeliveryInvariant, PTL DEF Spec, HandlersRunOut

-----------------------------------------------------------------------------
(* What the chat shows of a reply.                                          *)

Chat == Seq(0..MaxParts)
Count(s, part) == Cardinality({k \in 1..Len(s) : s[k] = part})
Follows(s, k) ==
    \/ s[k] = IF k = 1 THEN 1 ELSE s[k - 1] + 1
    \/ k > 1 /\ s[k] = s[k - 1]
InOrder(s) == \A k \in 1..Len(s) : (s[k] = Sorry /\ k = Len(s)) \/ Follows(s, k)

\* Without an apology so far; the part to be sent is the last one shown or the next.
Steady(s) == \A k \in 1..Len(s) : s[k] \in 1..MaxParts /\ Follows(s, k)
UpTo(s, part) ==
    /\ \A k \in 1..Len(s) : s[k] <= part
    /\ IF s = <<>> THEN part = 1 ELSE s[Len(s)] = part \/ s[Len(s)] + 1 = part

\* A handler that has not come to its end has shown what its place says; a part was
\* shown at most once for each attempt that has failed.
Fits(r, s) ==
    /\ InOrder(s) /\ \A part \in 1..MaxParts : Count(s, part) <= Tries
    /\ r.pc # "off" => Steady(s)
    /\ r.pc = "work" => s = <<>>
    /\ r.pc \in {"send", "plain"} => UpTo(s, r.part) /\ Count(s, r.part) <= r.tries
ReplyInv == \A m \in Messages : Fits(run[m], shown[m])

LEMMA CountOfNothing == \A part : Count(<<>>, part) = 0
<1> SUFFICES ASSUME NEW part PROVE Count(<<>>, part) = 0 OBVIOUS
<1>1. {k \in 1..Len(<<>>) : <<>>[k] = part} = {} OBVIOUS
<1>2. QED BY <1>1, FS_EmptySet DEF Count

LEMMA CountOfMore ==
  ASSUME NEW s \in Chat, NEW x \in 0..MaxParts, NEW part
  PROVE  /\ Count(s, part) \in Nat
         /\ Count(Append(s, x), part) = Count(s, part) + (IF x = part THEN 1 ELSE 0)
<1> DEFINE K == {k \in 1..Len(s) : s[k] = part}
<1> DEFINE more == Append(s, x)
<1> DEFINE KK == {k \in 1..Len(more) : more[k] = part}
<1>1. Len(s) \in Nat /\ Len(more) = Len(s) + 1 /\ more[Len(s) + 1] = x
      /\ \A k \in 1..Len(s) : more[k] = s[k]
  BY AppendProperties DEF Chat
<1>2. IsFiniteSet(1..Len(s)) BY <1>1, FS_Interval
<1>3. IsFiniteSet(K) BY <1>2, FS_Subset
<1>4. Cardinality(K) \in Nat BY <1>3, FS_CardinalityType
<1>5. Len(s) + 1 \notin K BY <1>1
<1>6. CASE x = part
  <2>1. KK = K \cup {Len(s) + 1} BY <1>1, <1>6
  <2>2. Cardinality(KK) = Cardinality(K) + 1 BY <1>3, <1>5, <2>1, FS_AddElement
  <2>3. QED BY <1>4, <1>6, <2>2 DEF Count
<1>7. CASE x # part
  <2>1. KK = K BY <1>1, <1>7
  <2>2. Count(s, part) = Cardinality(K) /\ Count(more, part) = Cardinality(KK) BY DEF Count
  <2> HIDE DEF K, KK, more
  <2>3. Count(more, part) = Count(s, part) + 0 BY <1>4, <2>1, <2>2
  <2>4. QED BY <1>4, <1>7, <2>2, <2>3 DEF more
<1>8. QED BY <1>6, <1>7

LEMMA CountOfNone ==
  ASSUME NEW s \in Chat, NEW part, \A k \in 1..Len(s) : s[k] # part
  PROVE  Count(s, part) = 0
<1>1. {k \in 1..Len(s) : s[k] = part} = {} OBVIOUS
<1>2. QED BY <1>1, FS_EmptySet DEF Count

LEMMA AppendShown ==
  ASSUME NEW s \in Chat, NEW x \in 0..MaxParts
  PROVE  /\ Append(s, x) \in Chat /\ Append(s, x) # <<>>
         /\ Len(s) \in Nat /\ Len(Append(s, x)) = Len(s) + 1
         /\ Append(s, x)[Len(s) + 1] = x
         /\ \A k \in 1..Len(s) : Append(s, x)[k] = s[k] /\ s[k] \in 0..MaxParts
<1>1. s \in Seq(0..MaxParts) BY DEF Chat
<1>2. /\ Append(s, x) \in Seq(0..MaxParts) /\ Append(s, x) # <<>>
      /\ Len(Append(s, x)) = Len(s) + 1 /\ Append(s, x)[Len(s) + 1] = x
      /\ \A k \in 1..Len(s) : Append(s, x)[k] = s[k]
  BY <1>1, AppendProperties
<1>3. Len(s) \in Nat BY <1>1, LenProperties
<1>4. ASSUME NEW k \in 1..Len(s) PROVE s[k] \in 0..MaxParts BY <1>1, ElementOfSeq
<1>5. QED BY <1>2, <1>3, <1>4 DEF Chat

\* That an entry follows the one before it depends on the two alone.
LEMMA FollowsSame ==
  ASSUME NEW s, NEW t, NEW k \in Nat \ {0}, s[k] = t[k], k # 1 => s[k - 1] = t[k - 1]
  PROVE  Follows(s, k) <=> Follows(t, k)
<1>1. CASE k = 1 BY <1>1 DEF Follows
<1>2. CASE k # 1 BY <1>2 DEF Follows
<1>3. QED BY <1>1, <1>2

LEMMA SteadyIsInOrder ==
  ASSUME DeliveryAssumption, NEW s \in Chat, Steady(s)
  PROVE  /\ InOrder(s) /\ InOrder(Append(s, Sorry))
         /\ \A part \in 1..MaxParts : Count(Append(s, Sorry), part) = Count(s, part)
<1>1. Sorry \in 0..MaxParts /\ Sorry \notin 1..MaxParts BY DEF Sorry, DeliveryAssumption
<1> DEFINE more == Append(s, Sorry)
<1>2. InOrder(s) BY DEF Steady, InOrder
<1>3. /\ Len(s) \in Nat /\ Len(more) = Len(s) + 1 /\ more[Len(s) + 1] = Sorry
      /\ \A k \in 1..Len(s) : more[k] = s[k] /\ s[k] \in 0..MaxParts
  BY <1>1, AppendShown
<1>4. ASSUME NEW k \in 1..Len(more)
      PROVE  (more[k] = Sorry /\ k = Len(more)) \/ Follows(more, k)
  <2>1. CASE k = Len(s) + 1 BY <1>3, <2>1
  <2>2. CASE k # Len(s) + 1
    <3>1. k \in 1..Len(s) /\ k \in Nat \ {0} /\ (k # 1 => k - 1 \in 1..Len(s)) BY <1>3, <2>2
    <3>2. Follows(s, k) BY <3>1 DEF Steady
    <3>3. more[k] = s[k] /\ (k # 1 => more[k - 1] = s[k - 1]) BY <1>3, <3>1
    <3>4. QED BY <3>1, <3>2, <3>3, FollowsSame
  <2>3. QED BY <2>1, <2>2
<1>5. InOrder(more) BY <1>4 DEF InOrder
<1>6. \A part \in 1..MaxParts : Count(more, part) = Count(s, part)
  <2> TAKE part \in 1..MaxParts
  <2>1. Count(more, part) = Count(s, part) + 0 /\ Count(s, part) \in Nat BY <1>1, CountOfMore
  <2>2. QED BY <2>1
<1>7. QED BY <1>2, <1>5, <1>6

LEMMA ShowPart ==
  ASSUME DeliveryAssumption, NEW s \in Chat, NEW part \in 1..MaxParts, Steady(s), UpTo(s, part)
  PROVE  LET more == Append(s, part) IN
         /\ Steady(more) /\ UpTo(more, part) /\ UpTo(more, part + 1)
         /\ Count(more, part + 1) = 0
<1> DEFINE more == Append(s, part)
<1>1. part \in 0..MaxParts /\ part \in Nat /\ part >= 1 BY DEF DeliveryAssumption
<1>2. /\ more \in Chat /\ more # <<>>
      /\ Len(s) \in Nat /\ Len(more) = Len(s) + 1 /\ more[Len(s) + 1] = part
      /\ \A k \in 1..Len(s) : more[k] = s[k] /\ s[k] \in 0..MaxParts
  BY <1>1, AppendShown
<1>3. ASSUME NEW k \in 1..Len(more) PROVE more[k] \in 1..MaxParts /\ Follows(more, k) /\ more[k] <= part
  <2>1. CASE k = Len(s) + 1
    <3>1. CASE s = <<>>
      <4>1. k = 1 /\ part = 1 BY <2>1, <3>1 DEF UpTo
      <4>2. more[k] = 1 BY <1>2, <2>1, <4>1
      <4>3. Follows(more, k) BY <4>1, <4>2 DEF Follows
      <4>4. QED BY <1>1, <4>1, <4>2, <4>3
    <3>2. CASE s # <<>>
      <4>1. Len(s) \in 1..Len(s) BY <1>2, <3>2, EmptySeq DEF Chat
      <4>2. k > 1 /\ k - 1 = Len(s) /\ more[k - 1] = s[Len(s)] BY <1>2, <2>1, <4>1
      <4>3. s[Len(s)] = part \/ s[Len(s)] + 1 = part BY <3>2 DEF UpTo
      <4>4. more[k] = part BY <1>2, <2>1
      <4>5. Follows(more, k)
        <5>1. CASE s[Len(s)] = part BY <4>2, <4>4, <5>1 DEF Follows
        <5>2. CASE s[Len(s)] + 1 = part
          <6>1. more[k] = more[k - 1] + 1 BY <4>2, <4>4, <5>2
          <6>2. QED BY <4>2, <6>1 DEF Follows
        <5>3. QED BY <4>3, <5>1, <5>2
      <4>6. QED BY <1>1, <4>4, <4>5
    <3>3. QED BY <3>1, <3>2
  <2>2. CASE k # Len(s) + 1
    <3>1. k \in 1..Len(s) /\ k \in Nat \ {0} /\ (k # 1 => k - 1 \in 1..Len(s)) BY <1>2, <2>2
    <3>2. Follows(s, k) /\ s[k] \in 1..MaxParts /\ s[k] <= part BY <3>1 DEF Steady, UpTo
    <3>3. more[k] = s[k] /\ (k # 1 => more[k - 1] = s[k - 1]) BY <1>2, <3>1
    <3>4. QED BY <3>1, <3>2, <3>3, FollowsSame
  <2>3. QED BY <2>1, <2>2
<1>4. more[Len(more)] = part BY <1>2
<1>5. \A k \in 1..Len(more) : more[k] <= part + 1 /\ more[k] # part + 1 BY <1>1, <1>3
<1>6. Steady(more) BY <1>3 DEF Steady
<1>7. UpTo(more, part) /\ UpTo(more, part + 1) BY <1>1, <1>2, <1>3, <1>4, <1>5 DEF UpTo
<1>8. Count(more, part + 1) = 0 BY <1>2, <1>5, CountOfNone
<1>9. QED BY <1>6, <1>7, <1>8

-----------------------------------------------------------------------------
(* What a handler does to the chat.                                         *)

\* The part at hand becomes visible.
LEMMA DeliveredFits ==
  ASSUME DeliveryAssumption, NEW r \in Runs, NEW s \in Chat, Fits(r, s), r.pc \in {"send", "plain"}
  PROVE  LET more == Append(s, r.part) IN
         /\ more \in Chat /\ Steady(more) /\ InOrder(more)
         /\ UpTo(more, r.part) /\ UpTo(more, r.part + 1) /\ Count(more, r.part + 1) = 0
         /\ Count(more, r.part) <= r.tries + 1
         /\ \A part \in 1..MaxParts : Count(more, part) <= Tries
<1> DEFINE more == Append(s, r.part)
<1>1. r.part \in 1..MaxParts /\ r.part \in 0..MaxParts /\ r.tries \in 0..2
  BY DEF Runs, Tries, DeliveryAssumption
<1>2. Steady(s) /\ UpTo(s, r.part) /\ Count(s, r.part) <= r.tries BY DEF Fits
<1>3. more \in Chat BY <1>1, AppendShown
<1>4. Steady(more) /\ UpTo(more, r.part) /\ UpTo(more, r.part + 1) /\ Count(more, r.part + 1) = 0
  BY <1>1, <1>2, ShowPart
<1>5. InOrder(more) BY <1>3, <1>4, SteadyIsInOrder
<1>6. Count(s, r.part) \in Nat /\ Count(more, r.part) = Count(s, r.part) + 1 BY <1>1, CountOfMore
<1>7. Count(more, r.part) <= r.tries + 1 BY <1>1, <1>2, <1>6
<1>8. ASSUME NEW part \in 1..MaxParts PROVE Count(more, part) <= Tries
  <2>1. CASE part = r.part BY <1>1, <1>2, <1>6, <2>1 DEF Tries
  <2>2. CASE part # r.part
    <3>1. Count(s, part) \in Nat /\ Count(more, part) = Count(s, part) + 0 BY <1>1, <2>2, CountOfMore
    <3>2. Count(s, part) <= Tries BY DEF Fits
    <3>3. QED BY <3>1, <3>2
  <2>3. QED BY <2>1, <2>2
<1>9. QED BY <1>3, <1>4, <1>5, <1>7, <1>8

LEMMA HandleFits ==
  ASSUME DeliveryAssumption, TypeOK, RunInv, ReplyInv, NEW m \in Messages, Handle(m)
  PROVE  Fits(run'[m], shown'[m])
<1> DEFINE r == run[m]
<1> DEFINE s == shown[m]
<1> DEFINE more == Append(s, r.part)
<1>0. /\ r \in Runs /\ s \in Chat /\ Fits(r, s) /\ r.part <= r.parts
      /\ run \in [Messages -> Runs] /\ shown \in [Messages -> Chat]
  BY DEF TypeOK, Runs, Chat, RunInv, ReplyInv
<1>1. NoRun.pc = "off" BY DEF NoRun, At
<1>2. ASSUME InOrder(shown'[m]), \A part \in 1..MaxParts : Count(shown'[m], part) <= Tries, End(m)
      PROVE  Fits(run'[m], shown'[m])
  <2>1. run'[m] = NoRun BY <1>0, <1>2 DEF End
  <2>2. QED BY <1>1, <1>2, <2>1 DEF Fits
<1>3. ASSUME r.pc \in {"send", "plain"}, Delivered(m) PROVE shown'[m] = more
  BY <1>0, <1>3 DEF Delivered, Shows
<1>4. ASSUME r.pc \in {"send", "plain"}, Delivered(m), NextPart(m) PROVE Fits(run'[m], shown'[m])
  <2>0. shown'[m] = more BY <1>3, <1>4
  <2>1. CASE r.part = r.parts
    <3>1. End(m) BY <1>4, <2>1 DEF NextPart
    <3>2. QED BY <1>0, <1>2, <1>4, <2>0, <3>1, DeliveredFits
  <2>2. CASE r.part # r.parts
    <3>1. Send(m, r.part + 1, r.parts) BY <1>4, <2>2 DEF NextPart
    <3>2. run'[m] = At(r.kind, "send", r.part + 1, r.parts) BY <1>0, <3>1 DEF Send
    <3>3. /\ run'[m].pc = "send" /\ run'[m].part = r.part + 1 /\ run'[m].tries = 0
      BY <3>2 DEF At
    <3>4. QED BY <1>0, <1>4, <2>0, <3>3, DeliveredFits DEF Fits
  <2>3. QED BY <2>1, <2>2
<1>5. ASSUME r.pc \in {"send", "plain"}, Broken(m)
      PROVE  /\ Steady(shown'[m]) /\ InOrder(shown'[m]) /\ UpTo(shown'[m], r.part)
             /\ Count(shown'[m], r.part) <= r.tries + 1
             /\ \A part \in 1..MaxParts : Count(shown'[m], part) <= Tries
  <2>1. CASE Delivered(m) BY <1>0, <1>3, <1>5, <2>1, DeliveredFits
  <2>2. CASE UNCHANGED shown
    <3>1. r.tries \in Nat /\ r.part \in 1..MaxParts BY <1>0 DEF Runs, Tries
    <3>2. Count(s, r.part) \in Nat /\ Count(s, r.part) <= r.tries
      BY <1>0, <1>5, <3>1, CountOfMore DEF Fits, DeliveryAssumption
    <3>3. QED BY <1>0, <1>5, <2>2, <3>1, <3>2 DEF Fits
  <2>3. QED BY <1>5, <2>1, <2>2 DEF Broken
<1>6. ASSUME NEW l \in {"plain", "sorry"}, Goto(m, l)
      PROVE  run'[m] = [r EXCEPT !.pc = l]
  BY <1>0, <1>6 DEF Goto
<1>7. ASSUME r.pc \in {"send", "plain"}, Broken(m), Goto(m, "sorry") PROVE Fits(run'[m], shown'[m])
  <2>1. run'[m].pc = "sorry" BY <1>0, <1>6, <1>7 DEF Runs
  <2>2. QED BY <1>5, <1>7, <2>1 DEF Fits
<1>8. ASSUME r.pc # "off", UNCHANGED shown, Goto(m, "sorry") PROVE Fits(run'[m], shown'[m])
  <2>1. run'[m].pc = "sorry" BY <1>0, <1>6, <1>8 DEF Runs
  <2>2. QED BY <1>0, <1>8, <2>1 DEF Fits
<1>9. ASSUME r.pc # "off", End(m), Shows(m, Sorry) PROVE Fits(run'[m], shown'[m])
  <2>1. shown'[m] = Append(s, Sorry) BY <1>0, <1>9 DEF Shows
  <2>2. Steady(s) /\ \A part \in 1..MaxParts : Count(s, part) <= Tries BY <1>0, <1>9 DEF Fits
  <2>3. QED BY <1>0, <1>2, <1>9, <2>1, <2>2, SteadyIsInOrder
<1>10. ASSUME End(m), UNCHANGED shown PROVE Fits(run'[m], shown'[m])
  BY <1>0, <1>2, <1>10 DEF Fits
<1>11. ASSUME r.pc = "work", HasReply(m), UNCHANGED shown PROVE Fits(run'[m], shown'[m])
  <2>1. s = <<>> BY <1>0, <1>11 DEF Fits
  <2>2. PICK n \in 1..MaxParts : Send(m, 1, n) BY <1>11 DEF HasReply
  <2>3. run'[m] = At(r.kind, "send", 1, n) BY <1>0, <2>2 DEF Send
  <2>4. run'[m].pc = "send" /\ run'[m].part = 1 /\ run'[m].tries = 0 BY <2>3 DEF At
  <2>5. Steady(<<>>) /\ UpTo(<<>>, 1) BY DEF Steady, UpTo
  <2>6. QED BY <1>0, <1>11, <2>1, <2>4, <2>5, CountOfNothing DEF Fits
<1>12. ASSUME r.pc = "send", RetryPart(m) PROVE Fits(run'[m], shown'[m])
  <2>1. CASE r.tries + 1 < Tries
    <3>1. run'[m] = [r EXCEPT !.tries = @ + 1] BY <1>0, <1>12, <2>1 DEF RetryPart
    <3>2. run'[m].pc = "send" /\ run'[m].part = r.part /\ run'[m].tries = r.tries + 1
      BY <1>0, <1>12, <3>1 DEF Runs
    <3>3. QED BY <1>5, <1>12, <3>2 DEF Fits, RetryPart
  <2>2. CASE ~(r.tries + 1 < Tries) BY <1>7, <1>12, <2>2 DEF RetryPart
  <2>3. QED BY <2>1, <2>2
<1>13. CASE ReplyText(m) \/ ReplyCommand(m)
  BY <1>11, <1>13 DEF ReplyText, ReplyCommand, HasReply
<1>14. CASE Raise(m) BY <1>8, <1>9, <1>10, <1>14 DEF Raise
<1>15. CASE SendMax(m) BY <1>2, <1>4, <1>5, <1>15 DEF SendMax
<1>16. CASE SendText(m)
  <2>1. ASSUME Goto(m, "plain"), UNCHANGED shown PROVE Fits(run'[m], shown'[m])
    <3>1. run'[m].pc = "plain" /\ run'[m].part = r.part /\ run'[m].tries = r.tries
      BY <1>0, <1>6, <2>1 DEF Runs
    <3>2. QED BY <1>0, <1>16, <2>1, <3>1 DEF Fits, SendText
  <2>2. QED BY <1>4, <1>8, <1>12, <1>16, <2>1 DEF SendText
<1>17. CASE SendPlain(m) BY <1>4, <1>7, <1>17 DEF SendPlain
<1>18. CASE SendResult(m) BY <1>4, <1>7, <1>18 DEF SendResult
<1>19. CASE SaySorry(m) BY <1>9, <1>10, <1>19 DEF SaySorry
<1>20. CASE PrintReply(m)
  <2> DEFINE all == [k \in 1..r.parts |-> k]
  <2>1. shown'[m] = all /\ End(m) BY <1>0, <1>20 DEF PrintReply
  <2>2. r.parts \in 1..MaxParts /\ r.parts \in Nat BY <1>0 DEF Runs, DeliveryAssumption
  <2>3. Len(all) = r.parts /\ \A k \in 1..r.parts : all[k] = k BY <2>2
  <2>4. InOrder(all)
    <3> SUFFICES ASSUME NEW k \in 1..r.parts PROVE Follows(all, k) BY <2>3 DEF InOrder
    <3>1. all[k] = k /\ (k # 1 => all[k - 1] = k - 1) BY <2>2, <2>3
    <3>2. k \in Nat \ {0} BY <2>2
    <3> HIDE DEF all
    <3>3. CASE k = 1 BY <3>1, <3>3 DEF Follows
    <3>4. CASE k # 1
      <4>1. all[k] = all[k - 1] + 1 BY <3>1, <3>2, <3>4
      <4>2. QED BY <3>4, <4>1 DEF Follows
    <3>5. QED BY <3>3, <3>4
  <2>5. ASSUME NEW part \in 1..MaxParts PROVE Count(all, part) <= Tries
    <3>1. {k \in 1..Len(all) : all[k] = part} \subseteq {part} BY <2>3
    <3>2. IsFiniteSet({part}) /\ Cardinality({part}) = 1 BY FS_Singleton
    <3>3. Count(all, part) <= 1 /\ Count(all, part) \in Nat
      BY <3>1, <3>2, FS_Subset, FS_CardinalityType DEF Count
    <3>4. QED BY <3>3 DEF Tries
  <2>6. QED BY <1>2, <2>1, <2>4, <2>5
<1>21. QED BY <1>13, <1>14, <1>15, <1>16, <1>17, <1>18, <1>19, <1>20 DEF Handle

LEMMA NextReplyInv ==
  ASSUME DeliveryAssumption, DeliveryInv, ReplyInv, [Next]_vars PROVE ReplyInv'
<1> TypeOK /\ RunInv BY DEF DeliveryInv
<1>0. run \in [Messages -> Runs] /\ shown \in [Messages -> Chat] BY DEF TypeOK, Runs, Chat
<1>1. ASSUME NEW m \in Messages, Handle(m) PROVE ReplyInv'
  <2>1. \A k \in Messages \ {m} : run'[k] = run[k] BY <1>0, <1>1, HandleSteps DEF Steps
  <2>2. \A k \in Messages \ {m} : shown'[k] = shown[k]
    BY <1>0, <1>1 DEF Handle, ReplyText, ReplyCommand, HasReply, Raise, SendMax, SendText,
       SendPlain, SendResult, SaySorry, PrintReply, Delivered, Broken, RetryPart, Shows
  <2>3. QED BY <1>1, <2>1, <2>2, HandleFits DEF ReplyInv
<1>2. ASSUME NEW ms, Start(ms) PROVE ReplyInv'
  <2> SUFFICES ASSUME NEW m \in Messages PROVE Fits(run'[m], shown'[m]) BY DEF ReplyInv
  <2>1. CASE m \notin ms BY <1>2, <2>1 DEF Start, ReplyInv
  <2>2. CASE m \in ms
    <3>1. shown'[m] = <<>> /\ run'[m].pc = "work" BY <1>2, <2>2 DEF Start, At
    <3>2. QED BY <3>1, CountOfNothing DEF Fits, InOrder, Steady, Tries
  <2>3. QED BY <2>1, <2>2
<1>3. ASSUME NEW c \in Channels, Restart(c) PROVE ReplyInv'
  <2> SUFFICES ASSUME NEW m \in Messages PROVE Fits(run'[m], shown'[m]) BY DEF ReplyInv
  <2>1. shown'[m] = shown[m] /\ (run'[m] = NoRun \/ run'[m] = run[m]) BY <1>3 DEF Restart
  <2>2. NoRun.pc = "off" BY DEF NoRun, At
  <2>3. QED BY <2>1, <2>2 DEF ReplyInv, Fits
<1>4. ASSUME UNCHANGED <<run, shown>> PROVE ReplyInv' BY <1>4 DEF ReplyInv
<1>5. QED
  BY <1>1, <1>2, <1>3, <1>4
  DEF Next, Poll, Arrive, PollMax, DispatchMax, PollTelegram, ReadLine, vars

\* Replies on every channel, with every number of parts: no gap, no part before an
\* earlier one, none more often than it was tried, nothing after an apology.
THEOREM RepliesReadInOrder == Spec => []ReplyReadsInOrder
<1>1. Init => ReplyInv
  BY CountOfNothing, DeliveryAssumption DEF Init, ReplyInv, Fits, NoRun, At, InOrder, Tries
<1>2. DeliveryInv /\ ReplyInv /\ [Next]_vars => ReplyInv' BY NextReplyInv, DeliveryAssumption
<1>3. DeliveryInv /\ ReplyInv => ReplyReadsInOrder
  BY DEF ReplyReadsInOrder, ReplyInv, Fits, InOrder, Follows, Count
<1>4. QED BY <1>1, <1>2, <1>3, DeliveryInvariant, PTL DEF Spec

-----------------------------------------------------------------------------
(* Texts: induction and recursive functions.  What a function computes by  *)
(* recursion from a place of a text to later ones is proved from the end   *)
(* of the text backwards.                                                  *)

\* A set of numbers has a least one.  The relation < is taken as a set of pairs, as the
\* theorems about well-founded relations have it.
LEMMA LeastNumber ==
  ASSUME NEW T \in SUBSET Nat, T # {}
  PROVE \E x \in T : \A y \in T : x <= y
<1>1. \E R : IsWellFoundedOn(R, Nat) /\ \A x, y \in Nat : <<y, x>> \in R <=> y < x
  <2>1. IsWellFoundedOn(OpToRel(<, Nat), Nat) BY ONLY NatLessThanWellFounded
  <2>2. \A x, y \in Nat : <<y, x>> \in OpToRel(<, Nat) <=> y < x BY DEF OpToRel
  <2>3. QED BY <2>1, <2>2
<1>2. PICK R : IsWellFoundedOn(R, Nat) /\ \A x, y \in Nat : <<y, x>> \in R <=> y < x
  BY <1>1
<1>3. PICK x \in T : \A y \in T : ~(<<y, x>> \in R) BY <1>2, WFMin
<1>4. \A y \in T : y \in Nat /\ ~(y < x) BY <1>2, <1>3
<1>5. QED BY <1>4

\* Induction downwards from a bound: what holds from m on, and at a number whenever it
\* holds at all greater ones, holds everywhere.
LEMMA Descent ==
  ASSUME NEW S \in SUBSET Nat, NEW m \in Nat,
         \A k \in Nat : k >= m => k \in S,
         \A k \in Nat : (\A j \in Nat : j > k => j \in S) => k \in S
  PROVE  S = Nat
<1> SUFFICES ASSUME NEW b \in Nat, b \notin S PROVE FALSE OBVIOUS
<1> DEFINE T == {j \in Nat : \A k \in Nat : k >= j => k \in S}
<1>1. T \in SUBSET Nat /\ m \in T OBVIOUS
<1>2. PICK j \in T : \A i \in T : j <= i BY <1>1, LeastNumber
<1>3. j # 0 BY <1>2
<1>4. j - 1 \in Nat /\ \A k \in Nat : k > j - 1 => k >= j BY <1>2, <1>3
<1>5. j - 1 \in S BY <1>2, <1>4
<1>6. j - 1 \in T BY <1>2, <1>4, <1>5
<1>7. QED BY <1>2, <1>4, <1>6

\* The equation of a function that has head at the numbers of stop and elsewhere head
\* and what it has at a later number, next: such a function exists, so that what a
\* recursive definition chooses satisfies the definition.
Unfolds(f, stop, head, next) ==
    f = [i \in Nat |-> IF i \in stop THEN head[i] ELSE head[i] \o f[next[i]]]

LEMMA Unfolding ==
  ASSUME NEW stop \in SUBSET Nat, NEW m \in Nat, \A k \in Nat : k >= m => k \in stop,
         NEW head, NEW next, \A i \in Nat \ stop : next[i] \in Nat /\ next[i] > i
  PROVE  \E f : Unfolds(f, stop, head, next)
<1> DEFINE Eq(g, i) == g[i] = IF i \in stop THEN head[i] ELSE head[i] \o g[next[i]]
           From(k) == \E g : g = [i \in Nat |-> g[i]] /\ \A i \in Nat : i >= k => Eq(g, i)
           S == {k \in Nat : From(k)}
<1>1. \A k \in Nat : k >= m => k \in S
  <2> SUFFICES ASSUME NEW k \in Nat, k >= m PROVE From(k) OBVIOUS
  <2> DEFINE g == [i \in Nat |-> head[i]]
  <2>1. g = [i \in Nat |-> g[i]] OBVIOUS
  <2>2. \A i \in Nat : i >= k => Eq(g, i) OBVIOUS
  <2>3. QED BY <2>1, <2>2
<1>2. \A k \in Nat : (\A j \in Nat : j > k => j \in S) => k \in S
  <2> SUFFICES ASSUME NEW k \in Nat, \A j \in Nat : j > k => j \in S PROVE From(k) OBVIOUS
  <2>1. From(k + 1) OBVIOUS
  <2>2. PICK g : g = [i \in Nat |-> g[i]] /\ \A i \in Nat : i >= k + 1 => Eq(g, i) BY <2>1
  <2> DEFINE v == IF k \in stop THEN head[k] ELSE head[k] \o g[next[k]]
             h == [i \in Nat |-> IF i = k THEN v ELSE g[i]]
  <2>3. h = [i \in Nat |-> h[i]] OBVIOUS
  <2>4. \A i \in Nat : i > k => h[i] = g[i] OBVIOUS
  <2>5. h[k] = v OBVIOUS
  <2> HIDE DEF h
  <2>6. Eq(h, k)
    <3>1. CASE k \in stop BY <2>5, <3>1
    <3>2. CASE k \notin stop
      <4>1. h[next[k]] = g[next[k]] BY <2>4, <3>2
      <4>2. QED BY <2>5, <3>2, <4>1
    <3>3. QED BY <3>1, <3>2
  <2>7. ASSUME NEW i \in Nat, i > k PROVE Eq(h, i)
    <3>0. i >= k + 1 BY <2>7
    <3>1. Eq(g, i) /\ h[i] = g[i]
      <4> HIDE DEF Eq
      <4>1. QED BY <3>0, <2>2, <2>4, <2>7
    <3>2. CASE i \in stop BY <3>1, <3>2
    <3>3. CASE i \notin stop
      <4>1. next[i] \in Nat /\ next[i] > k BY <2>7, <3>3
      <4>2. h[next[i]] = g[next[i]] BY <2>4, <4>1
      <4>3. QED BY <3>1, <3>3, <4>2
    <3>4. QED BY <3>2, <3>3
  <2>8. \A i \in Nat : i >= k => Eq(h, i) BY <2>6, <2>7
  <2>9. QED BY <2>3, <2>8
<1>3. 0 \in S
  <2> HIDE DEF S
  <2>1. S \in SUBSET Nat BY DEF S
  <2>2. S = Nat BY <1>1, <1>2, <2>1, Descent
  <2>3. QED BY <2>2
<1>4. PICK g : g = [i \in Nat |-> g[i]] /\ \A i \in Nat : i >= 0 => Eq(g, i) BY <1>3
<1>5. \A i \in Nat : Eq(g, i)
  <2> HIDE DEF Eq
  <2>1. \A i \in Nat : i >= 0 OBVIOUS
  <2>2. QED BY <1>4, <2>1
<1>6. [i \in Nat |-> g[i]] = [i \in Nat |-> IF i \in stop THEN head[i] ELSE head[i] \o g[next[i]]]
  BY <1>5
<1>7. Unfolds(g, stop, head, next) BY <1>4, <1>6 DEF Unfolds
<1>8. QED BY <1>7

-----------------------------------------------------------------------------
(* Texts: pieces and parts.                                                *)

\* The chunks from character i on, by those from the next start on.
LEMMA ChunksUnfold ==
  ASSUME NEW n \in Nat, NEW size \in Nat, NEW overlap \in Nat, overlap < size
  PROVE  \A i \in Nat : ChunksFrom(n, size, overlap)[i] =
           IF i + size >= n THEN <<<<i, n>>>>
           ELSE <<<<i, i + size>>>> \o ChunksFrom(n, size, overlap)[i + (size - overlap)]
<1> DEFINE stop == {i \in Nat : i + size >= n}
           head == [i \in Nat |-> IF i \in stop THEN <<<<i, n>>>> ELSE <<<<i, i + size>>>>]
           next == [i \in Nat |-> i + (size - overlap)]
           Body(f) == [i \in Nat |-> IF i + size >= n THEN <<<<i, n>>>>
                                     ELSE <<<<i, i + size>>>> \o f[i + (size - overlap)]]
<1>1. stop \in SUBSET Nat /\ \A k \in Nat : k >= n => k \in stop OBVIOUS
<1>2. \A i \in Nat \ stop : next[i] \in Nat /\ next[i] > i OBVIOUS
<1>3. \E f : Unfolds(f, stop, head, next)
  <2> HIDE DEF stop, head, next
  <2>1. QED BY <1>1, <1>2, Unfolding
<1>4. PICK f : Unfolds(f, stop, head, next) BY <1>3
<1>5. f = Body(f) BY <1>4 DEF Unfolds
<1>6. ChunksFrom(n, size, overlap) = Body(ChunksFrom(n, size, overlap))
  BY <1>5 DEF ChunksFrom
<1>7. QED BY <1>6

\* Pieces of a text are a sequence of intervals.
Pieces == Seq(Nat \X Nat)

\* A chunk before chunks that are whole.
LEMMA OneMorePiece ==
  ASSUME NEW n \in Nat, NEW size \in Nat, NEW overlap \in Nat, overlap < size,
         NEW i \in Nat, i + size < n,
         NEW s \in Pieces, s # <<>>, CutWhole(s, i + (size - overlap), n, size, overlap)
  PROVE  /\ <<<<i, i + size>>>> \o s \in Pieces \ {<<>>}
         /\ CutWhole(<<<<i, i + size>>>> \o s, i, n, size, overlap)
<1> DEFINE p == <<i, i + size>>
           t == <<p>> \o s
           k == Len(s)
<1>1. p \in Nat \X Nat /\ k \in Nat /\ k >= 1 BY DEF Pieces
<1>2. t \in Pieces BY <1>1 DEF Pieces
<1>3. Len(t) = k + 1 /\ t[1] = p /\ \A j \in 1..k : t[j + 1] = s[j] BY <1>1 DEF Pieces
<1>4. \A j \in 1..k : s[j] \in Nat \X Nat /\ s[j][1] \in Nat /\ s[j][2] \in Nat BY DEF Pieces
<1> HIDE DEF t, p
<1>5. p[1] = i /\ p[2] = i + size BY DEF p
<1>6. /\ s[1][1] = i + (size - overlap) /\ s[k][2] = n /\ s[k][2] - s[k][1] <= size
      /\ \A j \in 1..(k - 1) : /\ s[j][2] = s[j][1] + size
                               /\ s[j + 1][1] + overlap = s[j][2]
                               /\ s[j][2] < s[j + 1][2]
  BY DEF CutWhole
<1>7. s[1][2] > i + size
  <2>1. CASE k = 1 BY <1>6, <2>1
  <2>2. CASE k # 1
    <3>1. 1 \in 1..(k - 1)
      <4> HIDE DEF k
      <4>1. QED BY <1>1, <2>2
    <3>2. s[1][2] = s[1][1] + size BY <1>6, <3>1
    <3>3. QED BY <1>6, <3>2
  <2>3. QED BY <2>1, <2>2
<1>8. t[1][1] = i /\ t[k + 1][2] = n /\ t[k + 1][2] - t[k + 1][1] <= size
  BY <1>1, <1>3, <1>5, <1>6
<1>9. ASSUME NEW j \in 1..k
      PROVE  t[j][2] = t[j][1] + size /\ t[j + 1][1] + overlap = t[j][2] /\ t[j][2] < t[j + 1][2]
  <2>1. CASE j = 1
    <3>1. t[j] = p /\ t[j + 1] = s[1] BY <1>1, <1>3, <2>1
    <3>2. QED BY <1>5, <1>6, <1>7, <3>1
  <2>2. CASE j # 1
    <3>1. j - 1 \in 1..(k - 1) /\ (j - 1) + 1 = j BY <1>1, <2>2
    <3>2. t[j] = s[j - 1] /\ t[j + 1] = s[j] BY <1>1, <1>3, <3>1
    <3>3. QED BY <1>6, <3>1, <3>2
  <2>3. QED BY <2>1, <2>2
<1>10. t # <<>> BY <1>1, <1>2, <1>3
<1>11. CutWhole(t, i, n, size, overlap) BY <1>1, <1>3, <1>8, <1>9 DEF CutWhole
<1>12. QED BY <1>2, <1>10, <1>11 DEF t, p

\* The chunks from any character on are whole.
LEMMA ChunksWhole ==
  ASSUME NEW n \in Nat, NEW size \in Nat, NEW overlap \in Nat, overlap < size
  PROVE  \A i \in 0..n : /\ ChunksFrom(n, size, overlap)[i] \in Pieces \ {<<>>}
                         /\ CutWhole(ChunksFrom(n, size, overlap)[i], i, n, size, overlap)
<1> DEFINE f == ChunksFrom(n, size, overlap)
           Good(i) == f[i] \in Pieces \ {<<>>} /\ CutWhole(f[i], i, n, size, overlap)
           S == {i \in Nat : i <= n => Good(i)}
<1>1. \A i \in Nat : f[i] = IF i + size >= n THEN <<<<i, n>>>>
                            ELSE <<<<i, i + size>>>> \o f[i + (size - overlap)]
  BY ChunksUnfold
<1> HIDE DEF f
<1>2. ASSUME NEW i \in Nat, i <= n, i + size >= n PROVE Good(i)
  <2>1. f[i] = <<<<i, n>>>> BY <1>1, <1>2
  <2>2. <<<<i, n>>>> \in Pieces \ {<<>>} BY DEF Pieces
  <2>3. CutWhole(<<<<i, n>>>>, i, n, size, overlap) BY <1>2 DEF CutWhole
  <2>4. QED BY <2>1, <2>2, <2>3
<1>3. ASSUME NEW k \in Nat, \A j \in Nat : j > k => j \in S PROVE k \in S
  <2>1. CASE k + size >= n BY <1>2, <2>1
  <2>2. CASE k + size < n
    <3>1. k + (size - overlap) \in Nat /\ k + (size - overlap) > k /\ k + (size - overlap) <= n
      BY <2>2
    <3>2. Good(k + (size - overlap)) BY <1>3, <3>1
    <3>3. f[k] = <<<<k, k + size>>>> \o f[k + (size - overlap)]
      <4>1. ~(k + size >= n) BY <2>2
      <4>2. QED BY <1>1, <4>1, Zenon
    <3>4. Good(k) BY <2>2, <3>2, <3>3, OneMorePiece
    <3>5. QED BY <3>4
  <2>3. QED BY <2>1, <2>2
<1>4. \A k \in Nat : k >= n + 1 => k \in S OBVIOUS
<1>5. S = Nat
  <2>1. S \in SUBSET Nat OBVIOUS
  <2>2. n + 1 \in Nat OBVIOUS
  <2> HIDE DEF S
  <2>3. QED BY <1>3, <1>4, <2>1, <2>2, Descent
<1>6. \A i \in 0..n : Good(i) BY <1>5
<1>7. QED BY <1>6 DEF f

\* So are the parts of a long message; their number is a quotient.
LEMMA PartsWhole ==
  ASSUME NEW n \in Nat, NEW limit \in Nat, limit > 0
  PROVE  CutWhole(PartsOf(n, limit), 0, n, limit, 0)
<1> DEFINE k == (n + limit - 1) \div limit
<1>1. CASE n <= limit
  <2>1. PartsOf(n, limit) = <<<<0, n>>>> BY <1>1 DEF PartsOf
  <2>2. QED BY <1>1, <2>1 DEF CutWhole
<1>2. CASE n > limit
  <2>1. k \in Nat /\ k * limit <= n + limit - 1 /\ n + limit - 1 < (k + 1) * limit
    OBVIOUS
  <2> HIDE DEF k
  <2>2. (k - 1) * limit = k * limit - limit /\ (k + 1) * limit = k * limit + limit BY <2>1
  <2>3. (k - 1) * limit < n /\ n <= k * limit BY <2>1, <2>2
  <2>4. k > 1 
    <3>1. SUFFICES ASSUME k <= 1 PROVE FALSE BY <2>1
    <3>2. k = 0 \/ k = 1 BY <2>1, <3>1
    <3>3. QED BY <1>2, <2>3, <3>2
  <2> DEFINE p == PartsOf(n, limit)
  <2>5. p = [j \in 1..k |-> <<(j - 1) * limit, Min2(j * limit, n)>>] BY <1>2 DEF PartsOf, k
  <2>6. Len(p) = k BY <2>1, <2>5
  <2>7. \A j \in 1..k : p[j][1] = (j - 1) * limit /\ p[j][2] = Min2(j * limit, n) BY <2>5
  <2> HIDE DEF p
  <2>8. ASSUME NEW j \in 1..(k - 1)
        PROVE  p[j][2] = p[j][1] + limit /\ p[j + 1][1] + 0 = p[j][2] /\ p[j][2] < p[j + 1][2]
    <3>1. j \in 1..k /\ j + 1 \in 1..k /\ j \in Nat /\ j <= k - 1 BY <2>1
    <3>2. (j - 1) * limit + limit = j * limit /\ (j + 1) * limit = j * limit + limit BY <3>1
    <3>3. j * limit <= (k - 1) * limit
      <4>1. PICK d \in Nat : k - 1 = j + d BY <3>1, <2>1
      <4>2. (k - 1) * limit = j * limit + d * limit /\ d * limit \in Nat BY <4>1, <3>1
      <4>3. j * limit \in Nat BY <3>1
      <4>4. QED BY <4>2, <4>3
    <3>4. j * limit \in Nat /\ j * limit < n BY <2>1, <2>3, <3>1, <3>3
    <3>5. p[j][2] = j * limit BY <2>7, <3>1, <3>4 DEF Min2
    <3>6. p[j][1] = (j - 1) * limit /\ p[j + 1][1] = j * limit BY <2>7, <3>1
    <3>7. p[j + 1][2] = Min2(j * limit + limit, n) BY <2>7, <3>1, <3>2
    <3>8. j * limit < Min2(j * limit + limit, n) BY <3>4 DEF Min2
    <3>9. QED BY <3>2, <3>4, <3>5, <3>6, <3>7, <3>8
  <2>9. p[1][1] = 0 BY <2>4, <2>7, <2>1
  <2>10. p[k][2] = n BY <2>1, <2>3, <2>4, <2>7 DEF Min2
  <2>11. p[k][2] - p[k][1] <= limit BY <2>1, <2>2, <2>3, <2>4, <2>7, <2>10
  <2>12. CutWhole(p, 0, n, limit, 0) BY <2>6, <2>8, <2>9, <2>10, <2>11 DEF CutWhole
  <2>13. QED BY <2>12 DEF p
<1>3. QED BY <1>1, <1>2

-----------------------------------------------------------------------------
(* Texts: formatted replies.                                               *)

LEMMA LeastIs ==
  ASSUME NEW S \in SUBSET Nat, S # {}
  PROVE  Least(S) \in S /\ \A y \in S : Least(S) <= y
<1>1. \E x \in S : \A y \in S : x <= y BY LeastNumber
<1>2. QED BY <1>1 DEF Least

Tokens == {"word", "open", "shut"}

\* The first block at token i or behind it: no fence before it opens a block, and none
\* is within it.
LEMMA FirstBlock ==
  ASSUME NEW reply \in Seq(Tokens), NEW i \in Nat, i > 0, Openers(reply, i) # {},
         NEW a, a = Least(Openers(reply, i)), NEW b, b = Least(Closers(reply, a))
  PROVE  /\ a \in Nat /\ b \in Nat /\ i <= a /\ a < b /\ b <= Len(reply)
         /\ reply[a] = "open" /\ Fence(reply[b])
         /\ \A t \in i..(a - 1) : reply[t] = "open" => Closers(reply, t) = {}
         /\ \A t \in (a + 1)..(b - 1) : ~Fence(reply[t])
<1>1. Len(reply) \in Nat OBVIOUS
<1>2. Openers(reply, i) \in SUBSET Nat BY <1>1 DEF Openers
<1>3. a \in Openers(reply, i) /\ \A y \in Openers(reply, i) : a <= y BY <1>2, LeastIs
<1>4. a \in i..Len(reply) /\ reply[a] = "open" /\ Closers(reply, a) # {}
  BY <1>3 DEF Openers
<1>5. a \in Nat /\ Closers(reply, a) \in SUBSET Nat BY <1>1, <1>4 DEF Closers
<1>6. b \in Closers(reply, a) /\ \A y \in Closers(reply, a) : b <= y BY <1>4, <1>5, LeastIs
<1>7. b \in (a + 1)..Len(reply) /\ Fence(reply[b]) BY <1>6 DEF Closers
<1>8. ASSUME NEW t \in i..(a - 1), reply[t] = "open" PROVE Closers(reply, t) = {}
  <2>1. t \in i..Len(reply) /\ ~(a <= t) BY <1>1, <1>4
  <2>2. t \notin Openers(reply, i) BY <1>3, <2>1
  <2>3. QED BY <1>8, <2>1, <2>2 DEF Openers
<1>9. ASSUME NEW t \in (a + 1)..(b - 1) PROVE ~Fence(reply[t])
  <2>1. t \in (a + 1)..Len(reply) /\ ~(b <= t) BY <1>1, <1>5, <1>7
  <2>2. QED BY <1>6, <2>1 DEF Closers
<1>10. QED BY <1>1, <1>4, <1>5, <1>7, <1>8, <1>9

\* The reply from token i on, by what follows its first block.
LEMMA RenderedUnfold ==
  ASSUME NEW reply \in Seq(Tokens)
  PROVE  \A i \in Nat \ {0} : RenderedFrom(reply)[i] =
           IF Openers(reply, i) = {} THEN <<Part("text", i, Len(reply))>>
           ELSE <<Part("text", i, Least(Openers(reply, i)) - 1),
                  Part("code", Least(Openers(reply, i)) + 1,
                               Least(Closers(reply, Least(Openers(reply, i)))) - 1)>>
                  \o RenderedFrom(reply)[Least(Closers(reply, Least(Openers(reply, i)))) + 1]
<1> DEFINE A(i) == Least(Openers(reply, i))
           B(i) == Least(Closers(reply, A(i)))
           stop == {i \in Nat : Openers(reply, i) = {}}
           head == [i \in Nat |-> IF i \in stop THEN <<Part("text", i, Len(reply))>>
                      ELSE <<Part("text", i, A(i) - 1), Part("code", A(i) + 1, B(i) - 1)>>]
           next == [i \in Nat |-> B(i) + 1]
           Body(f) == [i \in Nat |-> IF Openers(reply, i) = {} THEN <<Part("text", i, Len(reply))>>
                      ELSE <<Part("text", i, A(i) - 1), Part("code", A(i) + 1, B(i) - 1)>>
                             \o f[B(i) + 1]]
<1>1. Len(reply) \in Nat OBVIOUS
<1>2. stop \in SUBSET Nat /\ \A k \in Nat : k >= Len(reply) + 1 => k \in stop
  BY <1>1 DEF Openers
<1>3. ASSUME NEW i \in Nat \ stop PROVE next[i] \in Nat /\ next[i] > i
  <2>1. A(i) \in Openers(reply, i)
    <3>1. Openers(reply, i) \in SUBSET Nat BY <1>1 DEF Openers
    <3>2. QED BY <3>1, LeastIs
  <2>2. A(i) \in i..Len(reply) /\ Closers(reply, A(i)) # {} BY <2>1 DEF Openers
  <2>3. B(i) \in Closers(reply, A(i))
    <3>1. Closers(reply, A(i)) \in SUBSET Nat BY <1>1, <2>2 DEF Closers
    <3>2. QED BY <2>2, <3>1, LeastIs
  <2>4. B(i) \in (A(i) + 1)..Len(reply) BY <2>3 DEF Closers
  <2>5. next[i] = B(i) + 1 OBVIOUS
  <2> HIDE DEF A, B, next
  <2>6. QED BY <1>1, <2>2, <2>4, <2>5
<1>4. \E f : Unfolds(f, stop, head, next)
  <2>1. Len(reply) + 1 \in Nat BY <1>1
  <2> HIDE DEF stop, head, next
  <2>2. QED BY <1>2, <1>3, <2>1, Unfolding
<1>5. PICK f : Unfolds(f, stop, head, next) BY <1>4
<1>6. f = Body(f)
  <2>1. f = [i \in Nat |-> IF i \in stop THEN head[i] ELSE head[i] \o f[next[i]]]
    BY <1>5 DEF Unfolds
  <2>2. ASSUME NEW i \in Nat
        PROVE  (IF i \in stop THEN head[i] ELSE head[i] \o f[next[i]]) = Body(f)[i]
    <3> HIDE DEF A, B
    <3>1. QED OBVIOUS
  <2> HIDE DEF stop, head, next
  <2>3. QED BY <2>1, <2>2
<1>7. RenderedFrom(reply) = Body(RenderedFrom(reply)) BY <1>6 DEF RenderedFrom
<1>8. ASSUME NEW i \in Nat \ {0} PROVE RenderedFrom(reply)[i] = Body(RenderedFrom(reply))[i]
  BY <1>7
<1>9. QED BY <1>8

PartRecords == [kind : {"text", "code"}, from : Nat, to : Nat]
Parts == Seq(PartRecords)

\* A text and a block before parts that are whole.
LEMMA OneMoreBlock ==
  ASSUME NEW reply \in Seq(Tokens), NEW i \in Nat, NEW a \in Nat, NEW b \in Nat,
         i > 0, i <= a, a < b, b <= Len(reply), reply[a] = "open", Fence(reply[b]),
         \A t \in i..(a - 1) : reply[t] = "open" => Closers(reply, t) = {},
         \A t \in (a + 1)..(b - 1) : ~Fence(reply[t]),
         NEW s \in Parts, s # <<>>, ReplyWhole(s, b + 1, reply)
  PROVE  LET all == <<Part("text", i, a - 1), Part("code", a + 1, b - 1)>> \o s IN
         all \in Parts \ {<<>>} /\ ReplyWhole(all, i, reply)
<1> DEFINE p == Part("text", i, a - 1)
           q == Part("code", a + 1, b - 1)
           all == <<p, q>> \o s
           k == Len(s)
<1>1. p \in PartRecords /\ q \in PartRecords BY DEF Part, PartRecords
<1>2. p.kind = "text" /\ p.from = i /\ p.to = a - 1 /\ q.kind = "code" /\ q.from = a + 1 /\ q.to = b - 1
  BY DEF Part
<1>3. k \in Nat /\ k >= 1 BY DEF Parts
<1> HIDE DEF p, q
<1>4. all \in Parts BY <1>1 DEF Parts
<1>5. /\ Len(all) = k + 2 /\ all[1] = p /\ all[2] = q
      /\ \A j \in 1..k : all[j + 2] = s[j]
  BY <1>1, <1>3 DEF Parts
<1>6. \A j \in 1..k : s[j].from \in Nat /\ s[j].to \in Nat
  <2>1. \A j \in 1..k : s[j] \in PartRecords BY DEF Parts
  <2>2. QED BY <2>1 DEF PartRecords
<1>7. /\ s[1].from = b + 1 /\ s[1].kind = "text"
      /\ s[k].to = Len(reply) /\ s[k].kind = "text"
      /\ \A j \in 1..(k - 1) :
           /\ s[j + 1].kind # s[j].kind
           /\ s[j + 1].from = s[j].to + 2
           /\ Fence(reply[s[j].to + 1])
           /\ s[j].kind = "text" => reply[s[j].to + 1] = "open"
      /\ \A j \in 1..k, t \in 1..Len(reply) :
           t \in s[j].from..s[j].to /\ Fence(reply[t]) =>
             /\ s[j].kind = "text"
             /\ reply[t] = "open" => Closers(reply, t) = {}
  BY DEF ReplyWhole
<1> HIDE DEF all
<1>8. all[1].from = i /\ all[1].kind = "text" BY <1>2, <1>5
<1>9. all[k + 2].to = Len(reply) /\ all[k + 2].kind = "text" BY <1>3, <1>5, <1>7
<1>10. ASSUME NEW j \in 1..(k + 1)
       PROVE  /\ all[j + 1].kind # all[j].kind
              /\ all[j + 1].from = all[j].to + 2
              /\ Fence(reply[all[j].to + 1])
              /\ all[j].kind = "text" => reply[all[j].to + 1] = "open"
  <2>1. CASE j = 1
    <3>1. all[j] = p /\ all[j + 1] = q BY <1>5, <2>1
    <3>2. (a - 1) + 1 = a /\ (a - 1) + 2 = a + 1 OBVIOUS
    <3>3. Fence(reply[a]) BY DEF Fence
    <3>4. QED BY <1>2, <3>1, <3>2, <3>3
  <2>2. CASE j = 2
    <3>1. all[j] = q /\ all[j + 1] = s[1]
      <4>1. 1 \in 1..k BY <1>3
      <4>2. all[1 + 2] = s[1] BY <1>5, <4>1
      <4>3. QED BY <1>5, <2>2, <4>2
    <3>2. (b - 1) + 1 = b /\ (b - 1) + 2 = b + 1 OBVIOUS
    <3>3. QED BY <1>2, <1>7, <3>1, <3>2
  <2>3. CASE j # 1 /\ j # 2
    <3>1. j - 2 \in 1..(k - 1) /\ (j - 2) + 1 = j - 1
      <4> HIDE DEF k
      <4>1. QED BY <1>3, <2>3
    <3>2. all[j] = s[j - 2] /\ all[j + 1] = s[(j - 2) + 1]
      <4> HIDE DEF k
      <4>1. j - 2 \in 1..k /\ j - 1 \in 1..k /\ (j - 2) + 2 = j /\ (j - 1) + 2 = j + 1
        BY <1>3, <2>3
      <4>2. QED BY <1>5, <3>1, <4>1
    <3>3. QED BY <1>7, <3>1, <3>2
  <2>4. QED BY <2>1, <2>2, <2>3
<1>11. ASSUME NEW j \in 1..(k + 2), NEW t \in 1..Len(reply),
              t \in all[j].from..all[j].to, Fence(reply[t])
       PROVE  all[j].kind = "text" /\ (reply[t] = "open" => Closers(reply, t) = {})
  <2>1. CASE j = 1
    <3>1. all[j] = p /\ t \in i..(a - 1) BY <1>2, <1>5, <1>11, <2>1
    <3>2. QED BY <1>2, <3>1
  <2>2. CASE j = 2
    <3>1. t \in (a + 1)..(b - 1) BY <1>2, <1>5, <1>11, <2>2
    <3>2. QED BY <1>11, <3>1
  <2>3. CASE j # 1 /\ j # 2
    <3>1. j - 2 \in 1..k /\ (j - 2) + 2 = j
      <4> HIDE DEF k
      <4>1. QED BY <1>3, <2>3
    <3>2. all[j] = s[j - 2] BY <1>5, <3>1
    <3>3. t \in s[j - 2].from..s[j - 2].to BY <1>11, <3>2
    <3>4. QED BY <1>7, <1>11, <3>1, <3>2, <3>3
  <2>4. QED BY <2>1, <2>2, <2>3
<1>12. (k + 2) - 1 = k + 1 BY <1>3
<1>13. ReplyWhole(all, i, reply)
  <2> HIDE DEF k
  <2>1. QED BY <1>5, <1>8, <1>9, <1>10, <1>11, <1>12 DEF ReplyWhole
<1>14. all # <<>> BY <1>3, <1>4, <1>5
<1>15. QED BY <1>4, <1>13, <1>14 DEF all, p, q

\* A reply is whole from any token on, and from the first.
LEMMA RenderedWhole ==
  ASSUME NEW reply \in Seq(Tokens)
  PROVE  ReplyWhole(Rendered(reply), 1, reply)
<1> DEFINE f == RenderedFrom(reply)
           n == Len(reply)
           Good(i) == f[i] \in Parts \ {<<>>} /\ ReplyWhole(f[i], i, reply)
           S == {i \in Nat : i > 0 /\ i <= n + 1 => Good(i)}
<1>1. n \in Nat OBVIOUS
<1> HIDE DEF f
<1>2. ASSUME NEW i \in Nat, i > 0, i <= n + 1, Openers(reply, i) = {} PROVE Good(i)
  <2> DEFINE p == Part("text", i, n)
  <2>1. f[i] = <<p>>
    <3>1. i \in Nat \ {0} BY <1>2
    <3>2. QED BY <1>2, <3>1, RenderedUnfold, Zenon DEF f
  <2>2. p \in PartRecords BY <1>1 DEF Part, PartRecords
  <2>3. p.kind = "text" /\ p.from = i /\ p.to = n BY DEF Part
  <2> HIDE DEF p
  <2>4. <<p>> \in Parts \ {<<>>} BY <2>2 DEF Parts
  <2>5. \A t \in i..n : reply[t] = "open" => Closers(reply, t) = {} BY <1>2 DEF Openers
  <2>6. ReplyWhole(<<p>>, i, reply) BY <1>1, <2>3, <2>5 DEF ReplyWhole
  <2>7. QED BY <2>1, <2>4, <2>6
<1>3. ASSUME NEW k \in Nat, \A j \in Nat : j > k => j \in S PROVE k \in S
  <2> SUFFICES ASSUME k > 0, k <= n + 1 PROVE Good(k) OBVIOUS
  <2>1. CASE Openers(reply, k) = {} BY <1>2, <2>1
  <2>2. CASE Openers(reply, k) # {}
    <3> DEFINE a == Least(Openers(reply, k))
               b == Least(Closers(reply, a))
    <3>1. /\ a \in Nat /\ b \in Nat /\ k <= a /\ a < b /\ b <= n
          /\ reply[a] = "open" /\ Fence(reply[b])
          /\ \A t \in k..(a - 1) : reply[t] = "open" => Closers(reply, t) = {}
          /\ \A t \in (a + 1)..(b - 1) : ~Fence(reply[t])
      BY <2>2, FirstBlock
    <3>2. f[k] = <<Part("text", k, a - 1), Part("code", a + 1, b - 1)>> \o f[b + 1]
      <4>1. k \in Nat \ {0} OBVIOUS
      <4>2. QED BY <2>2, <4>1, RenderedUnfold, Zenon DEF f
    <3> HIDE DEF a, b
    <3>3. b + 1 \in Nat /\ b + 1 > k /\ b + 1 > 0 /\ b + 1 <= n + 1
      <4> HIDE DEF n
      <4>1. QED BY <1>1, <3>1
    <3>4. Good(b + 1) BY <1>3, <3>3
    <3>5. /\ f[b + 1] \in Parts /\ f[b + 1] # <<>> /\ ReplyWhole(f[b + 1], b + 1, reply)
      BY <3>4
    <3>6. LET all == <<Part("text", k, a - 1), Part("code", a + 1, b - 1)>> \o f[b + 1] IN
          all \in Parts \ {<<>>} /\ ReplyWhole(all, k, reply)
      BY <3>1, <3>5, OneMoreBlock
    <3>7. QED BY <3>2, <3>6
  <2>3. QED BY <2>1, <2>2
<1> DEFINE m == n + 2
<1>4. \A k \in Nat : k >= m => k \in S BY <1>1
<1>5. S = Nat
  <2>1. S \in SUBSET Nat /\ m \in Nat BY <1>1
  <2>2. \A k \in Nat : (\A j \in Nat : j > k => j \in S) => k \in S BY <1>3
  <2> HIDE DEF S, n, m
  <2>3. QED BY <1>4, <2>1, <2>2, Descent
<1>6. Good(1)
  <2>1. 1 \in S /\ 1 <= n + 1 BY <1>1, <1>5
  <2>2. QED BY <2>1
<1>7. QED BY <1>6 DEF f, Rendered

-----------------------------------------------------------------------------
(* Texts: the calls.                                                       *)

\* What is known of a call from its start.
JobInv == job \in Jobs /\ (job.kind = "chunk" => job.overlap < job.size)

LEMMA CallsTyped == CallSpec => []JobInv
<1>1. CallInit => JobInv BY DEF CallInit, JobInv
<1>2. JobInv /\ [CallNext]_callVars => JobInv' BY DEF JobInv, CallNext, callVars
<1>3. QED BY <1>1, <1>2, PTL DEF CallSpec

LEMMA ChunkJob ==
  ASSUME job \in Jobs, job.kind = "chunk" PROVE job.n \in Nat /\ job.size \in Nat /\ job.overlap \in Nat
BY TextsAssumption DEF Jobs, TextsAssumption

LEMMA PartJob ==
  ASSUME job \in Jobs, job.kind = "part" PROVE job.n \in Nat /\ job.size \in Nat /\ job.size > 0
BY TextsAssumption DEF Jobs, TextsAssumption

LEMMA FormatJob ==
  ASSUME job \in Jobs, job.kind = "format" PROVE job.reply \in Seq(Tokens)
<1>1. job.reply \in SeqsUpTo(Tokens, MaxTokens) BY DEF Jobs, Tokens
<1>2. PICK k \in 0..MaxTokens : job.reply \in [1..k -> Tokens] BY <1>1 DEF SeqsUpTo
<1>3. k \in Nat BY TextsAssumption DEF TextsAssumption
<1>4. QED BY <1>2, <1>3

\* PiecesAreWhole for texts and replies of any length: chunk_text and split_long_message
\* lose and double no character, format_for_telegram no word and no fence that marks no
\* code.
THEOREM CutsAreWhole == CallSpec => []PiecesAreWhole
<1>1. CallInit => PiecesAreWhole BY DEF CallInit, PiecesAreWhole
<1>2. JobInv /\ PiecesAreWhole /\ [CallNext]_callVars => PiecesAreWhole'
  <2> SUFFICES ASSUME JobInv, PiecesAreWhole, [CallNext]_callVars PROVE PiecesAreWhole' OBVIOUS
  <2>1. CASE UNCHANGED callVars BY <2>1 DEF callVars, PiecesAreWhole
  <2>2. CASE CallNext
    <3>1. UNCHANGED job BY <2>2 DEF CallNext
    <3>2. CASE job.kind = "chunk"
      <4>1. result' = ChunksOf(job.n, job.size, job.overlap)
        BY <2>2, <3>2 DEF CallNext, Cut, Format, Understand, Schedule
      <4>2. job.n \in Nat /\ job.size \in Nat /\ job.overlap \in Nat /\ job.overlap < job.size
        BY <3>2, ChunkJob DEF JobInv
      <4>3. CASE job.n = 0 BY <3>1, <3>2, <4>1, <4>3 DEF PiecesAreWhole, ChunksOf
      <4>4. CASE job.n # 0
        <5>1. result' = ChunksFrom(job.n, job.size, job.overlap)[0] BY <4>1, <4>4 DEF ChunksOf
        <5>2. CutWhole(result', 0, job.n, job.size, job.overlap) BY <4>2, <5>1, ChunksWhole
        <5>3. QED BY <3>1, <3>2, <4>4, <5>2 DEF PiecesAreWhole
      <4>5. QED BY <4>3, <4>4
    <3>3. CASE job.kind = "part"
      <4>1. result' = PartsOf(job.n, job.size)
        BY <2>2, <3>3 DEF CallNext, Cut, Format, Understand, Schedule
      <4>2. CutWhole(result', 0, job.n, job.size, 0) BY <3>3, <4>1, PartJob, PartsWhole DEF JobInv
      <4>3. QED BY <3>1, <3>3, <4>2 DEF PiecesAreWhole
    <3>4. CASE job.kind = "format"
      <4>1. result' = Rendered(job.reply)
        BY <2>2, <3>4 DEF CallNext, Cut, Format, Understand, Schedule
      <4>2. ReplyWhole(result', 1, job.reply) BY <3>4, <4>1, FormatJob, RenderedWhole DEF JobInv
      <4>3. QED BY <3>1, <3>4, <4>2 DEF PiecesAreWhole
    <3>5. CASE job.kind \notin {"chunk", "part", "format"} BY <3>1, <3>5 DEF PiecesAreWhole
    <3>6. QED BY <3>2, <3>3, <3>4, <3>5
  <2>3. QED BY <2>1, <2>2
<1>3. QED BY <1>1, <1>2, CallsTyped, PTL DEF CallSpec

-----------------------------------------------------------------------------
(* What models answer and users schedule.                                  *)

LEMMA SeqsUpToAre ==
  ASSUME NEW S, NEW n \in Nat, NEW s \in SeqsUpTo(S, n)
  PROVE  Len(s) \in Nat /\ DOMAIN s = 1..Len(s) /\ \A i \in 1..Len(s) : s[i] \in S
<1>1. PICK k \in 0..n : s \in [1..k -> S] BY DEF SeqsUpTo
<1>2. k \in Nat /\ DOMAIN s = 1..k /\ \A i \in 1..k : s[i] \in S BY <1>1
<1>3. Len(s) = k BY <1>1, <1>2
<1>4. QED BY <1>2, <1>3

LEMMA AgentRead ==
  ASSUME NEW a \in Agents
  PROVE  /\ ParseAgent(a) = "final" <=> a.final = "text"
         /\ ParseAgent(a) = "action" <=> /\ a.final # "text" /\ a.thought = "text"
                                         /\ a.action = "text" /\ a.args = "object"
         /\ Salvage(a) = "final" <=> a.final = "text"
         /\ Salvage(a) # "action"
BY DEF Agents, Fields, ParseAgent, ParseAction, Salvage, Present

LEMMA PlanRead ==
  ASSUME NEW steps \in SeqsUpTo({"step", "other"}, MaxSteps)
  PROVE  ParsePlan(steps) = "plan" <=> /\ Len(steps) > 0 /\ Len(steps) < 7
                                       /\ "other" \notin {steps[i] : i \in DOMAIN steps}
<1>1. /\ Len(steps) \in Nat /\ DOMAIN steps = 1..Len(steps)
      /\ \A i \in 1..Len(steps) : steps[i] \in {"step", "other"}
  BY SeqsUpToAre, TextsAssumption DEF TextsAssumption
<1>2. (\A i \in 1..Len(steps) : steps[i] = "step")
         <=> "other" \notin {steps[i] : i \in DOMAIN steps}
  BY <1>1
<1>3. Len(steps) \in 1..6 <=> Len(steps) > 0 /\ Len(steps) < 7 BY <1>1
<1>4. QED BY <1>2, <1>3 DEF ParsePlan

LEMMA CriticRead ==
  ASSUME NEW c \in Critics PROVE ParseCritic(c) = "REVISE" => c.feedback = "text"
BY DEF Critics, Fields, ParseCritic

\* The numbers that stand for day d in a range of cron.
LEMMA RoundTheWeek ==
  ASSUME NEW a \in 0..7, NEW b \in 0..7, NEW d \in Day,
         MondayFirst(ToName(a)) <= MondayFirst(ToName(b)), a # 0 \/ b # 7,
         NEW hi, hi = IF a <= b THEN b ELSE b + 7
  PROVE  MondayFirst(d) \in MondayFirst(ToName(a))..MondayFirst(ToName(b))
           <=> \E x \in a..hi : x % 7 = d
<1>1. d \in 0..6 /\ hi \in 0..13 BY DEF Day
<1>2. ASSUME NEW x \in a..hi PROVE x % 7 = d <=> x = d \/ x = d + 7
  <2>1. x \in 0..13 BY <1>1
  <2>2. QED BY <1>1, <2>1
<1>3. (\E x \in a..hi : x % 7 = d) <=> d \in a..hi \/ d + 7 \in a..hi BY <1>1, <1>2
<1>4. MondayFirst(d) \in MondayFirst(ToName(a))..MondayFirst(ToName(b))
        <=> d \in a..hi \/ d + 7 \in a..hi
  BY <1>1 DEF MondayFirst, ToName
<1>5. QED BY <1>3, <1>4

\* Only a range that goes on behind a Sunday ends before it begins.
LEMMA BehindSunday ==
  ASSUME NEW a \in 0..7, NEW b \in 0..7, NEW hi, hi = IF a <= b THEN b ELSE b + 7
  PROVE  MondayFirst(ToName(a)) > MondayFirst(ToName(b))
           <=> ToName(b) # 0 /\ \E x \in a..hi : x % 7 = 0
<1>1. hi \in 0..13 OBVIOUS
<1>2. (\E x \in a..hi : x % 7 = 0) <=> 0 \in a..hi \/ 7 \in a..hi
  <2>1. ASSUME NEW x \in a..hi PROVE x % 7 = 0 <=> x = 0 \/ x = 7
    <3>1. x \in 0..13 BY <1>1
    <3>2. QED BY <3>1
  <2>2. QED BY <1>1, <2>1
<1>3. MondayFirst(ToName(a)) > MondayFirst(ToName(b))
        <=> ToName(b) # 0 /\ (0 \in a..hi \/ 7 \in a..hi)
  BY <1>1 DEF MondayFirst, ToName
<1>4. QED BY <1>2, <1>3

\* One or more days one after another, as cron takes them and as the library takes them
\* by their names.
DayPart(p) ==
    /\ p \in [kind : {"one", "range"}, by : {"number", "name"},
          from : 0..7, to : 0..7, every : {1}]
    /\ p.kind = "one" => p.from = p.to

LEMMA CronPartIs ==
  ASSUME NEW p, DayPart(p), NEW hi, hi = IF p.from <= p.to THEN p.to ELSE p.to + 7
  PROVE  CronPart(p) = {x % 7 : x \in p.from..hi}
<1>1. /\ p.kind \in {"one", "range"} /\ p.every = 1 /\ p.from \in 0..7 /\ p.to \in 0..7
  BY DEF DayPart
<1>2. CronPart(p) = {x % 7 : x \in {y \in p.from..hi : (y - p.from) % p.every = 0}}
  BY <1>1 DEF CronPart
<1>3. \A y \in p.from..hi : (y - p.from) % 1 = 0
  <2>1. p.from \in 0..7 /\ hi \in 0..14 BY <1>1
  <2>2. QED BY <2>1
<1>4. {y \in p.from..hi : (y - p.from) % p.every = 0} = p.from..hi BY <1>1, <1>3
<1>5. QED BY <1>2, <1>4

LEMMA CronPartDays ==
  ASSUME NEW p, DayPart(p) PROVE CronPart(p) \subseteq Day
<1> DEFINE hi == IF p.from <= p.to THEN p.to ELSE p.to + 7
<1>1. CronPart(p) = {x % 7 : x \in p.from..hi} BY CronPartIs
<1>2. p.from \in 0..7 /\ p.to \in 0..7 BY DEF DayPart
<1>3. \A x \in p.from..hi : x \in 0..14 BY <1>2
<1> HIDE DEF hi
<1>4. \A x \in 0..14 : x % 7 \in 0..6 OBVIOUS
<1>5. QED BY <1>1, <1>3, <1>4 DEF Day

LEMMA RenamedIs ==
  ASSUME NEW p, DayPart(p)
  PROVE  /\ DayPart(Renamed(p)) /\ Spans(Renamed(p)) /\ Renamed(p).by = "name"
         /\ Renamed(p).kind = p.kind /\ Renamed(p).every = 1
         /\ Renamed(p).from = ToName(p.from) /\ Renamed(p).to = ToName(p.to)
         /\ Place(Renamed(p), Renamed(p).from) = MondayFirst(ToName(p.from))
         /\ Place(Renamed(p), Renamed(p).to) = MondayFirst(ToName(p.to))
<1>1. /\ p \in [kind : {"one", "range"}, by : {"number", "name"},
          from : 0..7, to : 0..7, every : {1}]
      /\ p.kind = "one" => p.from = p.to
  BY DEF DayPart
<1>2. Renamed(p) = [p EXCEPT !.by = "name", !.from = ToName(p.from), !.to = ToName(p.to)]
  BY <1>1 DEF Renamed, Spans
<1>3. ToName(p.from) \in 0..7 /\ ToName(p.to) \in 0..7 BY <1>1 DEF ToName
<1>4. /\ Renamed(p).by = "name" /\ Renamed(p).kind = p.kind /\ Renamed(p).every = 1
      /\ Renamed(p).from = ToName(p.from) /\ Renamed(p).to = ToName(p.to)
  BY <1>1, <1>2
<1>5. DayPart(Renamed(p))
  <2>1. Renamed(p) \in [kind : {"one", "range"}, by : {"number", "name"},
          from : 0..7, to : 0..7, every : {1}]
    BY <1>1, <1>2, <1>3
  <2>2. QED BY <1>1, <1>4, <2>1 DEF DayPart
<1>6. QED BY <1>1, <1>4, <1>5 DEF Spans, Place

\* A part by its names is read exactly if it does not go on behind a Sunday.
LEMMA PartRead ==
  ASSUME NEW p, DayPart(p) PROVE Readable(Renamed(p)) <=> ~PassesSunday(p)
<1> DEFINE hi == IF p.from <= p.to THEN p.to ELSE p.to + 7
           q == Renamed(p)
           first == MondayFirst(ToName(p.from))
           last == MondayFirst(ToName(p.to))
<1>1. /\ p.kind \in {"one", "range"} /\ p.from \in 0..7 /\ p.to \in 0..7
      /\ p.kind = "one" => p.from = p.to
  BY DEF DayPart
<1>2. first \in 0..6 /\ last \in 0..6 BY <1>1 DEF MondayFirst, ToName
<1>3. Place(q, q.from) = first /\ Place(q, q.to) = last /\ q.every = 1 /\ Spans(q)
  BY RenamedIs
<1>4. CronPart(p) = {x % 7 : x \in p.from..hi} BY CronPartIs
<1>5. hi = IF p.from <= p.to THEN p.to ELSE p.to + 7 OBVIOUS
<1> HIDE DEF hi, q
<1>6. first > last <=> ToName(p.to) # 0 /\ \E x \in p.from..hi : x % 7 = 0
  BY <1>1, <1>5, BehindSunday
<1>7. first > last <=> ToName(p.to) # 0 /\ 0 \in CronPart(p) BY <1>4, <1>6
<1>8. p.kind = "one" => ~(first > last) BY <1>1, <1>2
<1> HIDE DEF first, last
<1>9. Readable(q) <=> first <= last
  <2>1. Readable(q) <=> first <= last /\ last <= 6 /\ (1 > 1 => first + 1 <= last)
    BY <1>3 DEF Readable
  <2>2. QED BY <1>2, <2>1
<1>10. QED BY <1>1, <1>2, <1>7, <1>8, <1>9 DEF PassesSunday, q

LEMMA PartHonoured ==
  ASSUME NEW p, DayPart(p), Readable(Renamed(p)), p.from # 0 \/ p.to # 7, NEW d \in Day
  PROVE  Fires(Renamed(p), d) <=> d \in CronPart(p)
<1> DEFINE hi == IF p.from <= p.to THEN p.to ELSE p.to + 7
           q == Renamed(p)
           first == MondayFirst(ToName(p.from))
           last == MondayFirst(ToName(p.to))
<1>1. p.kind \in {"one", "range"} /\ p.from \in 0..7 /\ p.to \in 0..7 BY DEF DayPart
<1>2. first \in 0..6 /\ last \in 0..6 BY <1>1 DEF MondayFirst, ToName
<1>3. /\ Place(q, q.from) = first /\ Place(q, q.to) = last /\ q.every = 1 /\ Spans(q)
      /\ q.kind = p.kind
  BY RenamedIs
<1>4. first <= last BY <1>3 DEF Readable
<1>5. CronPart(p) = {x % 7 : x \in p.from..hi} BY CronPartIs
<1>6. hi = IF p.from <= p.to THEN p.to ELSE p.to + 7 OBVIOUS
<1> HIDE DEF hi, q
<1>7. MondayFirst(d) \in first..last <=> \E x \in p.from..hi : x % 7 = d
  <2>1. \A a \in 0..7, b \in 0..7 :
          /\ a = p.from /\ b = p.to
          => (MondayFirst(d) \in MondayFirst(ToName(a))..MondayFirst(ToName(b))
                <=> \E x \in a..hi : x % 7 = d)
    <3>1. SUFFICES ASSUME NEW a \in 0..7, NEW b \in 0..7, a = p.from, b = p.to
                   PROVE  MondayFirst(d) \in MondayFirst(ToName(a))..MondayFirst(ToName(b))
                            <=> \E x \in a..hi : x % 7 = d
      OBVIOUS
    <3>2. MondayFirst(ToName(a)) <= MondayFirst(ToName(b)) /\ (a # 0 \/ b # 7) BY <1>4, <3>1
    <3>3. hi = IF a <= b THEN b ELSE b + 7 BY <1>6, <3>1
    <3>4. QED BY <3>2, <3>3, RoundTheWeek
  <2>2. QED BY <1>1, <2>1
<1> HIDE DEF first, last
<1>8. MondayFirst(d) \in 0..6 BY DEF MondayFirst, Day
<1>9. (MondayFirst(d) - first) % 1 = 0 BY <1>2, <1>8
<1>10. Fires(q, d) <=> MondayFirst(d) \in first..last /\ (MondayFirst(d) - first) % 1 = 0
  BY <1>1, <1>3 DEF Fires
<1>11. QED BY <1>5, <1>7, <1>9, <1>10 DEF q

\* A part that spans days, with no number above 7 and no step, is one as above.
LEMMA PartIs ==
  ASSUME NEW p \in DayParts, Possible(p)
  PROVE  /\ p.kind \in {"all", "step", "one", "range"}
         /\ Spans(p) => /\ p.by \in {"number", "name"} /\ p.from \in 0..8 /\ p.to \in 0..8
                        /\ p.every \in 1..2
                        /\ p.from <= 7 /\ p.to <= 7 /\ p.every = 1 => DayPart(p)
                        /\ p.by = "name" => /\ p.from \in 0..6 /\ p.to \in 0..6 /\ p.every = 1
                                      /\ Renamed(p) = p
                        /\ p.kind = "one" => p.from = p.to /\ p.every = 1
<1>1. p.kind \in {"all", "step", "one", "range"} BY DEF DayParts
<1>2. ASSUME Spans(p)
      PROVE  \/ p \in [kind : {"one", "range"}, by : {"number"}, from : 0..8, to : 0..8, every : 1..2]
             \/ p \in [kind : {"one", "range"}, by : {"name"}, from : 0..6, to : 0..6, every : {1}]
  <2>1. p.kind # "all" /\ p.kind # "step" BY <1>2 DEF Spans
  <2>2. \/ p \in [kind : {"one"}, by : {"number"}, from : 0..8, to : 0..8, every : {1}]
        \/ p \in [kind : {"one"}, by : {"name"}, from : 0..6, to : 0..6, every : {1}]
        \/ p \in [kind : {"range"}, by : {"number"}, from : 0..8, to : 0..8, every : 1..2]
        \/ p \in [kind : {"range"}, by : {"name"}, from : 0..6, to : 0..6, every : {1}]
    BY <2>1 DEF DayParts, Numbers, Day
  <2>3. QED BY <2>2
<1>3. p.kind = "one" => p.from = p.to /\ p.every = 1
  BY DEF DayParts, Possible
<1>4. ASSUME Spans(p), p.from <= 7, p.to <= 7, p.every = 1 PROVE DayPart(p)
  <2>1. p \in [kind : {"one", "range"}, by : {"number", "name"}, from : 0..8, to : 0..8, every : 1..2]
    BY <1>2, <1>4
  <2>2. p.from \in 0..7 /\ p.to \in 0..7 BY <1>4, <2>1
  <2>3. p \in [kind : {"one", "range"}, by : {"number", "name"},
          from : 0..7, to : 0..7, every : {1}]
    BY <1>4, <2>1, <2>2
  <2>4. QED BY <1>3, <2>3 DEF DayPart
<1>5. ASSUME Spans(p), p.by = "name" PROVE Renamed(p) = p
  <2>1. p \in [kind : {"one", "range"}, by : {"name"}, from : 0..6, to : 0..6, every : {1}]
    BY <1>2, <1>5
  <2>2. ToName(p.from) = p.from /\ ToName(p.to) = p.to BY <2>1 DEF ToName
  <2>3. QED BY <1>5, <2>1, <2>2 DEF Renamed
<1>6. ASSUME Spans(p)
      PROVE  p.by \in {"number", "name"} /\ p.from \in 0..8 /\ p.to \in 0..8 /\ p.every \in 1..2
  <2>1. CASE p \in [kind : {"one", "range"}, by : {"number"}, from : 0..8, to : 0..8, every : 1..2]
    BY <2>1
  <2>2. CASE p \in [kind : {"one", "range"}, by : {"name"}, from : 0..6, to : 0..6, every : {1}]
    BY <2>2
  <2>3. QED BY <1>2, <1>6, <2>1, <2>2
<1>7. ASSUME Spans(p), p.by = "name" PROVE p.from \in 0..6 /\ p.to \in 0..6 /\ p.every = 1
  BY <1>2, <1>7
<1>8. QED BY <1>1, <1>3, <1>4, <1>5, <1>6, <1>7

\* A field of one or two parts.
LEMMA FieldIs ==
  ASSUME NEW f \in DayFields
  PROVE  /\ Len(f) \in Nat \ {0} /\ DOMAIN f = 1..Len(f) /\ 1 \in DOMAIN f
         /\ \A i \in DOMAIN f : f[i] \in DayParts /\ Possible(f[i])
<1>1. f \in SeqsUpTo({p \in DayParts : Possible(p)}, 2) /\ f # <<>> BY DEF DayFields
<1>2. PICK k \in 0..2 : f \in [1..k -> {p \in DayParts : Possible(p)}] BY <1>1 DEF SeqsUpTo
<1>3. k # 0
  <2>1. ASSUME k = 0 PROVE f = <<>> BY <1>2, <2>1
  <2>2. QED BY <1>1, <2>1
<1>4. Len(f) = k /\ DOMAIN f = 1..k BY <1>2
<1>5. QED BY <1>2, <1>3, <1>4

LEMMA RefusedHonoured ==
  ASSUME NEW f \in DayFields, Plain(f), NotTaken(f)
  PROVE  FiresOn(Converted(f)) = Refused
<1>1. /\ DOMAIN f = 1..Len(f) /\ Len(f) \in Nat \ {0} /\ 1 \in DOMAIN f
      /\ \A i \in DOMAIN f : f[i] \in DayParts /\ Possible(f[i])
  BY FieldIs
<1>2. FiresOn(<<>>) = Refused BY DEF FiresOn
<1>3. f[1].kind # "step" BY <1>1 DEF Plain
<1>4. ASSUME ~Convertible(f), ~Names(f), ~(Len(f) = 1 /\ f[1].kind = "all")
      PROVE  Converted(f) = <<>>
  BY <1>3, <1>4 DEF Converted
<1>5. CASE Len(f) > 1 /\ ~Names(f) /\ \E i \in DOMAIN f : f[i].kind # "one"
  BY <1>1, <1>2, <1>4, <1>5 DEF Convertible
<1>6. CASE \E i \in DOMAIN f : Spans(f[i]) /\ (f[i].from > 7 \/ f[i].to > 7 \/ f[i].every > 1)
  <2>1. PICK i \in DOMAIN f : Spans(f[i]) /\ (f[i].from > 7 \/ f[i].to > 7 \/ f[i].every > 1)
    BY <1>6
  <2>2. f[i].by = "number" /\ f[i].from \in 0..8 /\ f[i].to \in 0..8 /\ f[i].every \in 1..2
    BY <1>1, <2>1, PartIs
  <2>3. ~Names(f) BY <2>1, <2>2 DEF Plain
  <2>4. ~Convertible(f) BY <2>1, <2>2 DEF Convertible
  <2>5. ~(Len(f) = 1 /\ f[1].kind = "all") BY <1>1, <2>1 DEF Spans
  <2>6. QED BY <1>2, <1>4, <2>3, <2>4, <2>5
<1>7. CASE \E i \in DOMAIN f : /\ Spans(f[i]) /\ PassesSunday(f[i])
                               /\ ~(f[i].from > 7 \/ f[i].to > 7 \/ f[i].every > 1)
  <2>1. PICK i \in DOMAIN f : /\ Spans(f[i]) /\ PassesSunday(f[i])
                              /\ ~(f[i].from > 7 \/ f[i].to > 7 \/ f[i].every > 1)
    BY <1>7
  <2>2. DayPart(f[i]) BY <1>1, <2>1, PartIs
  <2>3. ~Readable(Renamed(f[i])) BY <2>1, <2>2, PartRead
  <2>4. CASE Names(f)
    <3>1. f[i].by = "name" BY <2>1, <2>4 DEF Plain
    <3>2. Renamed(f[i]) = f[i] BY <1>1, <2>1, <3>1, PartIs
    <3>3. Converted(f) = f BY <2>4 DEF Converted
    <3>4. QED BY <2>3, <3>2, <3>3 DEF FiresOn
  <2>5. CASE ~Names(f)
    <3>1. ~(Len(f) = 1 /\ f[1].kind = "all") BY <1>1, <2>1 DEF Spans
    <3>2. CASE ~Convertible(f) BY <1>2, <1>4, <2>5, <3>1, <3>2
    <3>3. CASE Convertible(f)
      <4>1. Converted(f) = [j \in DOMAIN f |-> Renamed(f[j])]
        BY <1>3, <2>5, <3>1, <3>3 DEF Converted
      <4>2. i \in DOMAIN Converted(f) /\ ~Readable(Converted(f)[i]) BY <2>3, <4>1
      <4>3. QED BY <4>2 DEF FiresOn
    <3>4. QED BY <3>2, <3>3
  <2>6. QED BY <2>4, <2>5
<1>8. QED BY <1>5, <1>6, <1>7 DEF NotTaken

LEMMA TakenHonoured ==
  ASSUME NEW f \in DayFields, Plain(f), ~NotTaken(f)
  PROVE  FiresOn(Converted(f)) = Taken(CronDays(f))
<1>1. /\ DOMAIN f = 1..Len(f) /\ Len(f) \in Nat \ {0} /\ 1 \in DOMAIN f
      /\ \A i \in DOMAIN f : f[i] \in DayParts /\ Possible(f[i])
  BY FieldIs
<1>2. \A i \in DOMAIN f : f[i].kind = "all" \/ Spans(f[i])
  <2>1. \A i \in DOMAIN f : f[i].kind \in {"all", "step", "one", "range"} BY <1>1, PartIs
  <2>2. QED BY <2>1 DEF Plain, Spans
<1>3. ASSUME NEW i \in DOMAIN f, Spans(f[i])
      PROVE  DayPart(f[i]) /\ ~PassesSunday(f[i]) /\ (f[i].from # 0 \/ f[i].to # 7)
  <2>1. ~(f[i].from > 7 \/ f[i].to > 7 \/ f[i].every > 1) /\ ~PassesSunday(f[i])
    BY <1>3 DEF NotTaken
  <2>2. f[i].from \in 0..8 /\ f[i].to \in 0..8 /\ f[i].every \in 1..2 BY <1>1, <1>3, PartIs
  <2>3. f[i].from <= 7 /\ f[i].to <= 7 /\ f[i].every = 1 BY <2>1, <2>2
  <2>4. DayPart(f[i]) BY <1>1, <1>3, <2>3, PartIs
  <2>5. ASSUME f[i].from = 0, f[i].to = 7 PROVE FALSE
    <3>1. f[i].by # "name" /\ f[i].kind # "one" BY <1>1, <1>3, <2>5, PartIs
    <3>2. f[i].kind = "range" BY <1>3, <3>1 DEF Spans
    <3>3. ~Names(f) BY <1>3, <3>1 DEF Plain
    <3>4. ~(Len(f) > 1) BY <3>2, <3>3 DEF NotTaken
    <3>5. i = 1 /\ Len(f) = 1 BY <1>1, <3>4
    <3>6. QED BY <2>5, <3>2, <3>5 DEF Plain
  <2>6. QED BY <2>1, <2>4, <2>5
<1>4. \A i \in DOMAIN f : ~Spans(f[i]) => Renamed(f[i]) = f[i] BY DEF Renamed
<1>5. DOMAIN Converted(f) = DOMAIN f /\ \A i \in DOMAIN f : Converted(f)[i] = Renamed(f[i])
  <2>1. CASE Names(f)
    <3>1. Converted(f) = f BY <2>1 DEF Converted
    <3>2. \A i \in DOMAIN f : Spans(f[i]) => f[i].by = "name" BY <2>1 DEF Plain
    <3>3. \A i \in DOMAIN f : Spans(f[i]) => Renamed(f[i]) = f[i] BY <1>1, <3>2, PartIs
    <3>4. QED BY <1>4, <3>1, <3>3
  <2>2. CASE ~Names(f) /\ Len(f) = 1 /\ f[1].kind = "all"
    <3>1. Converted(f) = f BY <2>2 DEF Converted
    <3>2. DOMAIN f = {1} /\ ~Spans(f[1]) BY <1>1, <2>2 DEF Spans
    <3>3. QED BY <1>4, <3>1, <3>2
  <2>3. CASE ~Names(f) /\ ~(Len(f) = 1 /\ f[1].kind = "all")
    <3>1. Len(f) > 1 => \A i \in DOMAIN f : f[i].kind = "one" BY <2>3 DEF NotTaken
    <3>2. \A i \in DOMAIN f : Spans(f[i])
      <4>1. CASE Len(f) > 1 BY <3>1, <4>1 DEF Spans
      <4>2. CASE Len(f) = 1
        <5>1. DOMAIN f = {1} BY <1>1, <4>2
        <5>2. QED BY <1>2, <2>3, <4>2, <5>1
      <4>3. QED BY <1>1, <4>1, <4>2
    <3>3. \A i \in DOMAIN f : f[i].from <= 7 /\ f[i].to <= 7 /\ f[i].every = 1
      BY <1>3, <3>2 DEF DayPart
    <3>4. Convertible(f) BY <3>1, <3>2, <3>3 DEF Convertible
    <3>5. f[1].kind # "step" BY <1>1 DEF Plain
    <3>6. Converted(f) = [i \in DOMAIN f |-> Renamed(f[i])]
      BY <2>3, <3>4, <3>5 DEF Converted
    <3>7. QED BY <3>6
  <2>4. QED BY <2>1, <2>2, <2>3
<1> DEFINE g == Converted(f)
<1>6. DOMAIN g = DOMAIN f /\ g # <<>> BY <1>1, <1>5
<1>7. ASSUME NEW i \in DOMAIN f
      PROVE  /\ Readable(g[i])
             /\ \A d \in Day : Fires(g[i], d) <=> d \in CronPart(f[i])
             /\ CronPart(f[i]) \subseteq Day
  <2>1. CASE Spans(f[i])
    <3>1. DayPart(f[i]) /\ ~PassesSunday(f[i]) /\ (f[i].from # 0 \/ f[i].to # 7)
      BY <1>3, <2>1
    <3>2. Readable(Renamed(f[i])) BY <3>1, PartRead
    <3>3. \A d \in Day : Fires(Renamed(f[i]), d) <=> d \in CronPart(f[i])
      BY <3>1, <3>2, PartHonoured
    <3>4. CronPart(f[i]) \subseteq Day BY <3>1, CronPartDays
    <3>5. g[i] = Renamed(f[i]) BY <1>5
    <3>6. QED BY <3>2, <3>3, <3>4, <3>5
  <2>2. CASE f[i].kind = "all"
    <3>1. ~Spans(f[i]) BY <2>2 DEF Spans
    <3>2. g[i] = f[i] BY <1>4, <1>5, <3>1
    <3>3. QED BY <2>2, <3>1, <3>2 DEF Readable, Fires, CronPart
  <2>3. QED BY <1>2, <2>1, <2>2
<1> HIDE DEF g
<1>8. FiresOn(g) = Taken({d \in Day : \E i \in DOMAIN g : Fires(g[i], d)})
  BY <1>6, <1>7 DEF FiresOn
<1>9. {d \in Day : \E i \in DOMAIN g : Fires(g[i], d)} = CronDays(f)
  BY <1>6, <1>7 DEF CronDays
<1>10. QED BY <1>8, <1>9 DEF g

\* A field of one part, a number of a day or a range from Monday on.
LEMMA SpanTaken ==
  ASSUME NEW p, DayPart(p), p.by # "name", ~PassesSunday(p), p.from # 0 \/ p.to # 7
  PROVE  FiresOn(Converted(<<p>>)) = Taken(CronPart(p))
<1> DEFINE f == <<p>>
<1>1. Len(f) = 1 /\ DOMAIN f = {1} /\ f[1] = p OBVIOUS
<1> HIDE DEF f
<1>2. Spans(p) /\ p.kind # "all" /\ p.kind # "step" /\ p.from <= 7 /\ p.to <= 7 /\ p.every = 1
  BY DEF DayPart, Spans
<1>3. Converted(f) = [i \in DOMAIN f |-> Renamed(f[i])]
  <2>1. ~Names(f) BY <1>1 DEF Names
  <2>2. Convertible(f) BY <1>1, <1>2 DEF Convertible
  <2>3. QED BY <1>1, <1>2, <2>1, <2>2 DEF Converted
<1>4. Readable(Renamed(p)) BY PartRead
<1>5. \A d \in Day : Fires(Renamed(p), d) <=> d \in CronPart(p) BY <1>4, PartHonoured
<1>6. CronPart(p) \subseteq Day BY CronPartDays
<1> DEFINE g == Converted(f)
<1>7. DOMAIN g = {1} /\ g[1] = Renamed(p) /\ g # <<>> BY <1>1, <1>3
<1> HIDE DEF g
<1>8. FiresOn(g) = Taken({d \in Day : Fires(Renamed(p), d)}) BY <1>4, <1>7 DEF FiresOn
<1>9. {d \in Day : Fires(Renamed(p), d)} = CronPart(p) BY <1>5, <1>6
<1>10. QED BY <1>8, <1>9 DEF g, f

\* A day alone.
LEMMA OneTaken ==
  ASSUME NEW d \in Day PROVE FiresOn(Converted(<<One(d)>>)) = Taken({d})
<1>1. d \in 0..6 BY DEF Day
<1>2. One(d) = [kind |-> "one", by |-> "number", from |-> d, to |-> d, every |-> 1] BY DEF One
<1>3. DayPart(One(d)) BY <1>1, <1>2 DEF DayPart
<1>4. One(d).by # "name" /\ One(d).kind = "one" /\ One(d).from = d /\ One(d).to = d BY <1>2
<1>5. ~PassesSunday(One(d)) BY <1>4 DEF PassesSunday
<1>6. CronPart(One(d)) = {d}
  <2>1. CronPart(One(d)) = {x % 7 : x \in d..d} BY <1>1, <1>3, <1>4, CronPartIs
  <2>2. \A x \in d..d : x = d /\ x % 7 = d BY <1>1
  <2>3. d \in d..d BY <1>1
  <2>4. QED BY <2>1, <2>2, <2>3
<1>7. One(d).from # 0 \/ One(d).to # 7 BY <1>1, <1>4
<1>8. QED BY <1>3, <1>4, <1>5, <1>6, <1>7, SpanTaken

\* What a run asks of a phrase, of which r is made.
SaidHonoured(said, r) ==
    CASE said.form = "daily" -> r = Taken(Day)
      [] said.form = "workdays" -> r = Taken(1..5)
      [] said.form = "weekly" -> r = Taken({0})
      [] said.form \in {"each", "plural"} /\ said.days = {0} -> r = Refused
      [] OTHER -> r.taken /\ r.on # {} /\ r.on \subseteq said.days

LEMMA PhraseHonoured ==
  ASSUME NEW said \in Phrases, NEW f, f = FieldOf(said)
  PROVE  SaidHonoured(said, IF f = <<>> THEN Refused ELSE FiresOn(Converted(f)))
<1> DEFINE r == IF f = <<>> THEN Refused ELSE FiresOn(Converted(f))
<1>1. said.form \in {"daily", "workdays", "weekly", "each", "plural", "short"} BY DEF Phrases
<1>2. CASE said.form = "daily"
  <2>1. f = <<[kind |-> "all"]>> BY <1>2 DEF FieldOf
  <2>2. Len(f) = 1 /\ DOMAIN f = {1} /\ f[1].kind = "all" /\ f # <<>> BY <2>1
  <2>3. Converted(f) = f BY <2>2 DEF Converted
  <2>4. \A d \in Day : Fires(f[1], d) BY <2>2 DEF Fires
  <2>5. Readable(f[1]) BY <2>2 DEF Readable, Spans
  <2>6. {d \in Day : \E i \in DOMAIN f : Fires(f[i], d)} = Day BY <2>2, <2>4
  <2>7. FiresOn(f) = Taken(Day) BY <2>2, <2>5, <2>6 DEF FiresOn
  <2>8. QED BY <1>2, <2>2, <2>3, <2>7 DEF SaidHonoured
<1>3. CASE said.form = "workdays"
  <2> DEFINE p == Span(1, 5)
  <2>1. p = [kind |-> "range", by |-> "number", from |-> 1, to |-> 5, every |-> 1] BY DEF Span
  <2> HIDE DEF p
  <2>2. DayPart(p) BY <2>1 DEF DayPart
  <2>3. p.by # "name" /\ p.from = 1 /\ p.to = 5 BY <2>1
  <2>4. CronPart(p) = 1..5
    <3>1. CronPart(p) = {x % 7 : x \in 1..5} BY <2>2, <2>3, CronPartIs
    <3>2. \A x \in 1..5 : x % 7 = x OBVIOUS
    <3>3. QED BY <3>1, <3>2
  <2>5. ~PassesSunday(p) BY <2>4 DEF PassesSunday
  <2>6. FiresOn(Converted(<<p>>)) = Taken(1..5) BY <2>2, <2>3, <2>4, <2>5, SpanTaken
  <2>7. f = <<p>> /\ f # <<>> BY <1>3 DEF FieldOf, p
  <2>8. QED BY <1>3, <2>6, <2>7 DEF SaidHonoured
<1>4. CASE said.form = "weekly"
  <2>1. f = <<One(0)>> /\ f # <<>> BY <1>4 DEF FieldOf
  <2>2. FiresOn(Converted(f)) = Taken({0}) BY <2>1, OneTaken DEF Day
  <2>3. QED BY <1>4, <2>1, <2>2 DEF SaidHonoured
<1>5. CASE said.form \in {"each", "plural", "short"}
  <2> DEFINE found == IF said.form = "short" THEN said.days ELSE said.days \ {0}
             first == CHOOSE d \in found : \A e \in found : d <= e
  <2>1. PICK d \in Day, e \in Day : said.days = {d, e} BY <1>5 DEF Phrases, DaySets
  <2>2. f = IF found = {} THEN <<>> ELSE <<One(first)>> BY <1>5 DEF FieldOf
  <2>3. found \subseteq said.days /\ (found = {} <=> said.form # "short" /\ said.days = {0})
    BY <2>1
  <2> HIDE DEF found, first
  <2>4. CASE found = {}
    <3>1. f = <<>> BY <2>2, <2>4
    <3>2. said.form \in {"each", "plural"} /\ said.days = {0} BY <1>5, <2>3, <2>4
    <3>3. QED BY <3>1, <3>2 DEF SaidHonoured
  <2>5. CASE found # {}
    <3>1. f = <<One(first)>> /\ f # <<>> BY <2>2, <2>5
    <3>2. first \in found
      <4>1. \E x \in found : \A y \in found : x <= y
        <5>1. d \in 0..6 /\ e \in 0..6 /\ found \subseteq {d, e} BY <2>1, <2>3 DEF Day
        <5>2. CASE d \in found /\ (e \notin found \/ d <= e) BY <5>1, <5>2
        <5>3. CASE e \in found /\ (d \notin found \/ e <= d) BY <5>1, <5>3
        <5>4. d \in found \/ e \in found BY <2>5, <5>1
        <5>5. d <= e \/ e <= d BY <5>1
        <5>6. QED BY <5>2, <5>3, <5>4, <5>5
      <4>2. QED BY <4>1 DEF first
    <3>3. first \in Day /\ first \in said.days BY <2>1, <2>3, <3>2
    <3>4. FiresOn(Converted(f)) = Taken({first}) BY <3>1, <3>3, OneTaken
    <3>5. ~(said.form \in {"each", "plural"} /\ said.days = {0}) BY <2>3, <2>5
    <3>6. QED BY <1>5, <3>1, <3>3, <3>4, <3>5 DEF SaidHonoured, Taken
  <2>6. QED BY <2>4, <2>5
<1>6. QED BY <1>1, <1>2, <1>3, <1>4, <1>5

\* InputIsUnderstood for plans of any length: the parsers of protocol.py take answers,
\* actions, plans and verdicts for what they are, and a plain field of days and the days
\* that parse_cron finds in words come through _convert_cron_dow_field to the days they
\* name, or are refused where NotTaken says so.
THEOREM InputUnderstood == CallSpec => []InputIsUnderstood
<1>1. CallInit => InputIsUnderstood
  BY DEF CallInit, InputIsUnderstood, AnswersUnderstood, WeekdaysHonoured
<1>2. JobInv /\ InputIsUnderstood /\ [CallNext]_callVars => InputIsUnderstood'
  <2> SUFFICES ASSUME JobInv, InputIsUnderstood, [CallNext]_callVars PROVE InputIsUnderstood'
    OBVIOUS
  <2>1. CASE UNCHANGED callVars
    BY <2>1 DEF callVars, InputIsUnderstood, AnswersUnderstood, WeekdaysHonoured
  <2>2. CASE CallNext
    <3>1. UNCHANGED job /\ job \in Jobs BY <2>2 DEF CallNext, JobInv
    <3>2. AnswersUnderstood'
      <4>1. CASE job.kind = "agent"
        <5>1. result' = ParseAgent(job.answer)
          BY <2>2, <4>1 DEF CallNext, Cut, Format, Understand, Schedule
        <5>2. job.answer \in Agents BY <3>1, <4>1 DEF Jobs
        <5>3. QED BY <3>1, <4>1, <5>1, <5>2, AgentRead DEF AnswersUnderstood
      <4>2. CASE job.kind = "broken"
        <5>1. result' = Salvage(job.answer)
          BY <2>2, <4>2 DEF CallNext, Cut, Format, Understand, Schedule
        <5>2. job.answer \in Agents BY <3>1, <4>2 DEF Jobs
        <5>3. QED BY <3>1, <4>2, <5>1, <5>2, AgentRead DEF AnswersUnderstood
      <4>3. CASE job.kind = "plan"
        <5>1. result' = ParsePlan(job.steps)
          BY <2>2, <4>3 DEF CallNext, Cut, Format, Understand, Schedule
        <5>2. job.steps \in SeqsUpTo({"step", "other"}, MaxSteps) BY <3>1, <4>3 DEF Jobs
        <5>3. QED BY <3>1, <4>3, <5>1, <5>2, PlanRead DEF AnswersUnderstood
      <4>4. CASE job.kind = "critic"
        <5>1. result' = ParseCritic(job.answer)
          BY <2>2, <4>4 DEF CallNext, Cut, Format, Understand, Schedule
        <5>2. job.answer \in Critics BY <3>1, <4>4 DEF Jobs
        <5>3. QED BY <3>1, <4>4, <5>1, <5>2, CriticRead DEF AnswersUnderstood
      <4>5. CASE job.kind \notin {"agent", "broken", "plan", "critic"}
        BY <3>1, <4>5 DEF AnswersUnderstood
      <4>6. QED BY <4>1, <4>2, <4>3, <4>4, <4>5
    <3>3. WeekdaysHonoured'
      <4>1. CASE job.kind = "days"
        <5>1. result' = FiresOn(Converted(job.field))
          BY <2>2, <4>1 DEF CallNext, Cut, Format, Understand, Schedule
        <5>2. job.field \in DayFields BY <3>1, <4>1 DEF Jobs
        <5>3. Plain(job.field) => result' = IF NotTaken(job.field) THEN Refused
                                                       ELSE Taken(CronDays(job.field))
          BY <5>1, <5>2, RefusedHonoured, TakenHonoured
        <5>4. QED BY <3>1, <4>1, <5>3 DEF WeekdaysHonoured
      <4>2. CASE job.kind = "phrase"
        <5> DEFINE f == FieldOf(job.said)
        <5>1. result' = IF f = <<>> THEN Refused ELSE FiresOn(Converted(f))
          BY <2>2, <4>2 DEF CallNext, Cut, Format, Understand, Schedule
        <5>2. job.said \in Phrases BY <3>1, <4>2 DEF Jobs
        <5>3. SaidHonoured(job.said, result') BY <5>1, <5>2, PhraseHonoured
        <5>4. QED BY <3>1, <4>2, <5>3 DEF WeekdaysHonoured, SaidHonoured
      <4>3. CASE job.kind \notin {"days", "phrase"} BY <3>1, <4>3 DEF WeekdaysHonoured
      <4>4. QED BY <4>1, <4>2, <4>3
    <3>4. QED BY <3>2, <3>3 DEF InputIsUnderstood
  <2>3. QED BY <2>1, <2>2
<1>3. QED BY <1>1, <1>2, CallsTyped, PTL DEF CallSpec
=============================================================================
