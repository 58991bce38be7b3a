-------------------------- MODULE AgentTaskProofs ---------------------------
(***************************************************************************)
(* Theorems about AgentTask for every number of tasks, jobs, chunks, steps, *)
(* repairs, reviews and slots: types, the gate and its fairness, the bound *)
(* of model calls, that the orchestrator keeps its promise and that a task *)
(* comes to its end.                                                       *)
(***************************************************************************)
EXTENDS AgentTask, FiniteSetTheorems, TLAPS

-----------------------------------------------------------------------------
(* Each operation of the gate keeps it sound and changes who is known to  *)
(* it in the way its name says.                                            *)

LEMMA AskKeepsGate ==
  ASSUME GateSound, NEW c \in Callers, ~Known(c), Ask(c)
  PROVE GateSound' /\ \A d \in Callers : Known(d)' <=> Known(d) \/ d = c
<1> USE DEF GateSound, Known, Waiting
<1> Slots \in Nat BY GateAssumption
<1> Cardinality(inside) \in Nat BY FS_CardinalityType
<1>1. CASE Cardinality(inside) < Slots /\ queue = <<>>
  <2>1. inside' = inside \cup {c} /\ queue' = queue BY <1>1 DEF Ask
  <2>2. IsFiniteSet(inside') /\ Cardinality(inside') = Cardinality(inside) + 1
    BY <2>1, FS_AddElement
  <2>3. QED BY <1>1, <2>1, <2>2
<1>2. CASE ~(Cardinality(inside) < Slots /\ queue = <<>>)
  <2>1. inside' = inside /\ queue' = Append(queue, c) BY <1>2 DEF Ask
  <2>2. Cardinality(inside) = Slots BY <1>2
  <2>3. queue' \in Seq(Callers) /\ DOMAIN queue' = 1 .. Len(queue) + 1 /\ DOMAIN queue = 1 .. Len(queue)
    BY <2>1
  <2>4. /\ \A i \in DOMAIN queue : i \in DOMAIN queue' /\ queue'[i] = queue[i]
        /\ Len(queue) + 1 \in DOMAIN queue' /\ queue'[Len(queue) + 1] = c
    BY <2>1, <2>3
  <2>5. \A i \in DOMAIN queue' : i \in DOMAIN queue \/ i = Len(queue) + 1 BY <2>3
  <2>6. \A i, j \in DOMAIN queue' : queue'[i] = queue'[j] => i = j BY <2>4, <2>5
  <2>7. \A d : d \in Waiting' <=> d \in Waiting \/ d = c BY <2>4, <2>5
  <2>8. QED BY <2>1, <2>2, <2>3, <2>6, <2>7
<1>3. QED BY <1>1, <1>2

\* The head of the queue takes the slot of c.
LEMMA HeadTakesSlot ==
  ASSUME GateSound, NEW c \in inside, queue # <<>>,
         inside' = (inside \ {c}) \cup {Head(queue)}
  PROVE /\ inside' \subseteq Callers /\ IsFiniteSet(inside')
        /\ Cardinality(inside') = Slots
        /\ Tail(queue) \in Seq(Callers)
        /\ \A i, j \in DOMAIN Tail(queue) : Tail(queue)[i] = Tail(queue)[j] => i = j
        /\ Head(queue) \in Waiting /\ Head(queue) \notin inside
        /\ \A d : d \in Waiting <=>
              d = Head(queue) \/ \E i \in DOMAIN Tail(queue) : Tail(queue)[i] = d
        /\ \A i \in DOMAIN Tail(queue) : Tail(queue)[i] # Head(queue)
<1> USE DEF GateSound, Waiting
<1>1. queue \in Seq(Callers) /\ Len(queue) \in Nat \ {0} /\ DOMAIN queue = 1 .. Len(queue)
  OBVIOUS
<1>2. Head(queue) = queue[1] /\ 1 \in DOMAIN queue BY <1>1
<1>3. Head(queue) \in Waiting /\ Head(queue) \in Callers BY <1>1, <1>2
<1>4. Head(queue) \notin inside BY <1>3
<1>5. /\ Tail(queue) \in Seq(Callers) /\ DOMAIN Tail(queue) = 1 .. Len(queue) - 1
      /\ \A i \in 1 .. Len(queue) - 1 : Tail(queue)[i] = queue[i + 1]
  BY <1>1
<1>6. \A i, j \in DOMAIN Tail(queue) : Tail(queue)[i] = Tail(queue)[j] => i = j
  BY <1>1, <1>5
<1>7. \A i \in DOMAIN Tail(queue) : Tail(queue)[i] # Head(queue) BY <1>1, <1>2, <1>5
<1>8. ASSUME NEW d
      PROVE d \in Waiting <=>
              d = Head(queue) \/ \E i \in DOMAIN Tail(queue) : Tail(queue)[i] = d
  <2>1. ASSUME NEW i \in DOMAIN queue, queue[i] = d, i # 1
        PROVE i - 1 \in DOMAIN Tail(queue) /\ Tail(queue)[i - 1] = d
    BY <1>1, <1>5, <2>1
  <2>2. ASSUME NEW i \in DOMAIN Tail(queue), Tail(queue)[i] = d
        PROVE i + 1 \in DOMAIN queue /\ queue[i + 1] = d
    BY <1>1, <1>5, <2>2
  <2>3. QED BY <1>2, <2>1, <2>2
<1>9. IsFiniteSet(inside') /\ Cardinality(inside') = Cardinality(inside)
  <2>1. IsFiniteSet(inside \ {c}) /\ Cardinality(inside \ {c}) = Cardinality(inside) - 1
    BY FS_RemoveElement
  <2>2. Head(queue) \notin inside \ {c} BY <1>4
  <2>3. /\ IsFiniteSet((inside \ {c}) \cup {Head(queue)})
        /\ Cardinality((inside \ {c}) \cup {Head(queue)}) = Cardinality(inside \ {c}) + 1
    BY <2>1, <2>2, FS_AddElement
  <2>4. Cardinality(inside) \in Nat BY FS_CardinalityType
  <2>5. QED BY <2>1, <2>3, <2>4
<1>10. QED BY <1>3, <1>4, <1>5, <1>6, <1>7, <1>8, <1>9

LEMMA LeaveKeepsGate ==
  ASSUME GateSound, NEW c \in Callers, c \in inside, Leave(c)
  PROVE GateSound' /\ \A d \in Callers : Known(d)' <=> Known(d) /\ d # c
<1> USE DEF GateSound, Known, Waiting
<1> Slots \in Nat BY GateAssumption
<1>1. CASE queue = <<>>
  <2>1. inside' = inside \ {c} /\ queue' = queue BY <1>1 DEF Leave
  <2>2. IsFiniteSet(inside') /\ Cardinality(inside') = Cardinality(inside) - 1
    BY <2>1, FS_RemoveElement
  <2>3. Cardinality(inside) \in Nat BY FS_CardinalityType
  <2>4. QED BY <1>1, <2>1, <2>2, <2>3
<1>2. CASE queue # <<>>
  <2>1. inside' = (inside \ {c}) \cup {Head(queue)} /\ queue' = Tail(queue)
    BY <1>2 DEF Leave
  <2>2. c \notin Waiting OBVIOUS
  <2> HIDE DEF GateSound
  <2>3. /\ inside' \subseteq Callers /\ IsFiniteSet(inside') /\ Cardinality(inside') = Slots
        /\ queue' \in Seq(Callers)
        /\ \A i, j \in DOMAIN queue' : queue'[i] = queue'[j] => i = j
        /\ Head(queue) \in Waiting /\ Head(queue) \notin inside
        /\ \A d : d \in Waiting <=> d = Head(queue) \/ \E i \in DOMAIN queue' : queue'[i] = d
        /\ \A i \in DOMAIN queue' : queue'[i] # Head(queue)
    BY <1>2, <2>1, HeadTakesSlot
  <2>4. \A d : d \in Waiting' <=> \E i \in DOMAIN queue' : queue'[i] = d OBVIOUS
  <2> HIDE DEF Waiting
  <2>5. \A d : d \in Waiting <=> d = Head(queue) \/ d \in Waiting' BY <2>3, <2>4
  <2>6. Head(queue) \notin Waiting' BY <2>3, <2>4
  <2>7. inside \cap Waiting = {} BY DEF GateSound
  <2>8. inside' \cap Waiting' = {} BY <2>1, <2>5, <2>6, <2>7
  <2>9. GateSound' BY <2>3, <2>8 DEF GateSound
  <2>10. QED BY <2>1, <2>2, <2>5, <2>6, <2>7, <2>9
<1>3. QED BY <1>1, <1>2

LEMMA AgainKeepsGate ==
  ASSUME GateSound, NEW c \in Callers, c \in inside, Again(c)
  PROVE GateSound' /\ \A d \in Callers : Known(d)' <=> Known(d)
<1>1. CASE queue = <<>>
  BY <1>1 DEF Again, GateSound, Known, Waiting
<1>2. CASE queue # <<>>
  <2> DEFINE q == Tail(queue)
  <2>1. inside' = (inside \ {c}) \cup {Head(queue)} /\ queue' = Append(q, c)
    BY <1>2 DEF Again
  <2>2. c \notin Waiting BY DEF GateSound
  <2>3. /\ inside' \subseteq Callers /\ IsFiniteSet(inside') /\ Cardinality(inside') = Slots
        /\ q \in Seq(Callers)
        /\ \A i, j \in DOMAIN q : q[i] = q[j] => i = j
        /\ Head(queue) \in Waiting
        /\ \A d : d \in Waiting <=> d = Head(queue) \/ \E i \in DOMAIN q : q[i] = d
        /\ \A i \in DOMAIN q : q[i] # Head(queue)
    BY <1>2, <2>1, HeadTakesSlot
  <2>4. inside \cap Waiting = {} BY DEF GateSound
  <2> HIDE DEF q
  <2>5. queue' \in Seq(Callers) /\ DOMAIN queue' = 1 .. Len(q) + 1 /\ DOMAIN q = 1 .. Len(q)
    BY <2>1, <2>3
  <2>6. /\ \A i \in DOMAIN q : i \in DOMAIN queue' /\ queue'[i] = q[i]
        /\ Len(q) + 1 \in DOMAIN queue' /\ queue'[Len(q) + 1] = c
    BY <2>1, <2>3, <2>5
  <2>7. \A i \in DOMAIN queue' : i \in DOMAIN q \/ i = Len(q) + 1 BY <2>3, <2>5
  <2>8. \A i \in DOMAIN q : q[i] # c BY <2>2, <2>3
  <2>9. \A i, j \in DOMAIN queue' : queue'[i] = queue'[j] => i = j BY <2>3, <2>6, <2>7, <2>8
  <2>10. ASSUME NEW d
         PROVE d \in Waiting' <=> d = c \/ (d \in Waiting /\ d # Head(queue))
    <3>1. d \in Waiting' <=> \E i \in DOMAIN queue' : queue'[i] = d BY DEF Waiting
    <3>2. (\E i \in DOMAIN queue' : queue'[i] = d) <=> d = c \/ \E i \in DOMAIN q : q[i] = d
      BY <2>6, <2>7
    <3>3. QED BY <2>3, <3>1, <3>2
  <2>11. inside' \cap Waiting' = {} BY <2>1, <2>2, <2>3, <2>4, <2>10
  <2>12. GateSound'
    BY <2>3, <2>5, <2>9, <2>11, GateAssumption DEF GateSound
  <2>13. QED BY <2>1, <2>3, <2>4, <2>10, <2>12 DEF Known
<1>3. QED BY <1>1, <1>2

-----------------------------------------------------------------------------
(* What the parts of a task's segment do to the task.                      *)

LEMMA GotoEffect ==
  ASSUME TypeOK, NEW t \in Tasks, NEW p \in Places, Goto(t, p)
  PROVE /\ place' \in [Tasks -> Places] /\ place' = [place EXCEPT ![t] = p]
        /\ calls' \in [Tasks -> Nat]
        /\ \A s \in Tasks : s # t => calls'[s] = calls[s]
        /\ p \in Calling => calls'[t] = calls[t] + 1
        /\ p \notin Calling => calls'[t] = calls[t]
        /\ job' = job /\ embed' = embed
<1>1. CASE p \in Calling BY <1>1 DEF Goto, TypeOK
<1>2. CASE p \notin Calling BY <1>2 DEF Goto, TypeOK
<1>3. QED BY <1>1, <1>2

LEMMA RunEffect ==
  ASSUME TypeOK, NEW t \in Tasks, Run(t)
  PROVE /\ \E p \in {"compact", "decide"} : Goto(t, p)
        /\ step' = [step EXCEPT ![t] = 1] /\ step' \in [Tasks -> 0 .. MaxSteps]
        /\ attempt' = [attempt EXCEPT ![t] = 0] /\ attempt' \in [Tasks -> 0 .. MaxRepair]
        /\ part' = [part EXCEPT ![t] = 1] /\ part' \in [Tasks \cup Jobs -> 0 .. Parts]
<1>1. 1 \in 0 .. MaxSteps /\ 0 \in 0 .. MaxRepair /\ 1 \in 0 .. Parts BY AgentAssumption
<1>2. QED BY <1>1 DEF Run, TypeOK

\* Every segment of a task goes to one place, from a call that it holds.
LEMMA TaskGoes ==
  ASSUME NEW t \in Tasks, Start(t) \/ TaskStep(t)
  PROVE \E p \in Places : Goto(t, p) /\ (place[t] \in Calling => t \in inside)
<1> USE DEF Places, Calling, InRun, Ended
<1>1. CASE Start(t) BY <1>1 DEF Start, Begin, Run, Back
<1>2. CASE Boot(t) BY <1>2 DEF Boot, Begin, Run, Back
<1>3. CASE Search(t) BY <1>3 DEF Search, Begin, Run, Back
<1>4. CASE Plan(t) BY <1>4 DEF Plan, Run, Back
<1>5. CASE Review(t) BY <1>5 DEF Review, Run, Back
<1>6. CASE Compact(t) BY <1>6 DEF Compact, Back
<1>7. CASE Decide(t) BY <1>7 DEF Decide, Return, Raise, Back
<1>8. CASE Tool(t) BY <1>8 DEF Tool, NextStep, Return, Raise, Back
<1>9. CASE Lookup(t) BY <1>9 DEF Lookup, NextStep, Return, Raise, Back
<1>10. CASE Found(t) BY <1>10 DEF Found, NextStep, Return, Raise, Back
<1>11. QED BY <1>1, <1>2, <1>3, <1>4, <1>5, <1>6, <1>7, <1>8, <1>9, <1>10 DEF TaskStep

\* It leaves the other tasks and the jobs alone.
LEMMA OthersRest ==
  ASSUME TypeOK, NEW t \in Tasks, Start(t) \/ TaskStep(t)
  PROVE /\ \A s \in Tasks \ {t} :
              /\ place'[s] = place[s] /\ reviews'[s] = reviews[s] /\ round'[s] = round[s]
              /\ step'[s] = step[s] /\ attempt'[s] = attempt[s] /\ part'[s] = part[s]
              /\ given'[s] = given[s] /\ calls'[s] = calls[s]
        /\ job' = job /\ embed' = embed
<1>1. PICK p \in Places : Goto(t, p) BY TaskGoes
<1>2. /\ \A s \in Tasks \ {t} : place'[s] = place[s] /\ calls'[s] = calls[s]
      /\ job' = job /\ embed' = embed
  BY <1>1, GotoEffect DEF TypeOK
<1>3. \A s \in Tasks \ {t} :
        /\ reviews'[s] = reviews[s] /\ round'[s] = round[s]
        /\ step'[s] = step[s] /\ attempt'[s] = attempt[s] /\ part'[s] = part[s]
        /\ given'[s] = given[s]
  BY DEF TypeOK, Start, TaskStep, Boot, Search, Plan, Review, Compact, Decide, Tool,
         Lookup, Found, Begin, Run, Return, Raise, NextStep
<1>4. QED BY <1>2, <1>3

-----------------------------------------------------------------------------
(* Types and rounds.                                                       *)

LEMMA InitAgentTyped == ASSUME Init PROVE TypeOK /\ RoundInv
BY AgentAssumption
   DEF Init, TypeOK, RoundInv, RoundOk, Places, Calling, InRun, Ended

LEMMA BeginTyped ==
  ASSUME TypeOK, NEW t \in Tasks, RoundOk(t), Begin(t),
         place[t] \in {"idle", "boot", "search"}
  PROVE TypeOK' /\ RoundOk(t)'
<1> USE AgentAssumption DEF Places, Calling, InRun, Ended, RoundOk
<1>1. CASE Run(t) /\ UNCHANGED <<reviews, round, given>>
  BY <1>1, RunEffect, GotoEffect DEF TypeOK
<1>2. CASE /\ \E n \in {1, MaxIter} : reviews' = [reviews EXCEPT ![t] = n]
           /\ Goto(t, "plan")
           /\ UNCHANGED <<round, step, attempt, part, given>>
  <2>1. reviews' \in [Tasks -> 0 .. MaxIter] BY <1>2 DEF TypeOK
  <2>2. QED BY <1>2, <2>1, GotoEffect DEF TypeOK
<1>3. QED BY <1>1, <1>2 DEF Begin

LEMMA ReturnTyped ==
  ASSUME TypeOK, NEW t \in Tasks, RoundOk(t), place[t] \in InRun, Return(t)
  PROVE TypeOK' /\ RoundOk(t)'
<1> USE AgentAssumption DEF Places, Calling, InRun, Ended, RoundOk
<1> DEFINE r == round[t] + 1
<1>1. r \in 0 .. MaxIter + 1 /\ r >= 1 /\ r <= reviews[t] + 1 BY DEF TypeOK
<1>2. round' = [round EXCEPT ![t] = r] /\ round' \in [Tasks -> 0 .. MaxIter + 1]
  BY <1>1 DEF Return, TypeOK
<1>3. CASE r <= reviews[t]
  BY <1>1, <1>2, <1>3, GotoEffect DEF Return, TypeOK
<1>4. CASE ~(r <= reviews[t])
  <2>1. given' = [given EXCEPT ![t] = r] /\ given' \in [Tasks -> 0 .. MaxIter + 1]
    BY <1>1, <1>4 DEF Return, TypeOK
  <2>2. Goto(t, "answered") BY <1>4 DEF Return
  <2>3. QED BY <1>1, <1>2, <2>1, <2>2, GotoEffect DEF Return, TypeOK
<1>5. QED BY <1>3, <1>4

LEMMA RaiseTyped ==
  ASSUME TypeOK, NEW t \in Tasks, RoundOk(t), place[t] \in InRun, Raise(t)
  PROVE TypeOK' /\ RoundOk(t)'
<1> USE AgentAssumption DEF Places, Calling, InRun, Ended, RoundOk
<1>1. given' = [given EXCEPT ![t] = round[t]] /\ given' \in [Tasks -> 0 .. MaxIter + 1]
  BY DEF Raise, TypeOK
<1>2. CASE round[t] = 0 BY <1>1, <1>2, GotoEffect DEF Raise, TypeOK
<1>3. CASE round[t] # 0 BY <1>1, <1>3, GotoEffect DEF Raise, TypeOK
<1>4. QED BY <1>2, <1>3

LEMMA NextStepTyped ==
  ASSUME TypeOK, NEW t \in Tasks, RoundOk(t), place[t] \in InRun, NextStep(t)
  PROVE TypeOK' /\ RoundOk(t)'
<1>1. CASE step[t] = MaxSteps BY <1>1, ReturnTyped DEF NextStep
<1>2. CASE step[t] # MaxSteps
  <2> USE AgentAssumption DEF Places, Calling, InRun, Ended, RoundOk
  <2>1. /\ step' = [step EXCEPT ![t] = @ + 1] /\ step' \in [Tasks -> 0 .. MaxSteps]
        /\ attempt' \in [Tasks -> 0 .. MaxRepair]
    BY <1>2 DEF NextStep, TypeOK
  <2>2. Goto(t, "decide") /\ UNCHANGED <<reviews, round, part, given>>
    BY <1>2 DEF NextStep
  <2>3. QED BY <2>1, <2>2, GotoEffect DEF TypeOK
<1>3. QED BY <1>1, <1>2

LEMMA TaskTyped ==
  ASSUME TypeOK, NEW t \in Tasks, RoundOk(t), Start(t) \/ TaskStep(t)
  PROVE TypeOK' /\ RoundOk(t)'
<1> USE AgentAssumption DEF Places, Calling, InRun, Ended
<1>1. CASE Start(t)
  <2>1. CASE Begin(t) BY <1>1, <2>1, BeginTyped DEF Start, Back
  <2>2. CASE Goto(t, "boot") /\ UNCHANGED <<reviews, round, step, attempt, part, given>>
    BY <1>1, <2>2, GotoEffect DEF Start, Back, TypeOK, RoundOk
  <2>3. QED BY <1>1, <2>1, <2>2 DEF Start
<1>2. CASE Boot(t)
  <2>1. CASE Begin(t) BY <1>2, <2>1, BeginTyped DEF Boot, Back
  <2>2. CASE Goto(t, "search") /\ UNCHANGED <<reviews, round, step, attempt, part, given>>
    BY <1>2, <2>2, GotoEffect DEF Boot, Back, TypeOK, RoundOk
  <2>3. QED BY <1>2, <2>1, <2>2 DEF Boot
<1>3. CASE Search(t) BY <1>3, BeginTyped DEF Search, Back
<1>4. CASE Plan(t)
  <2>1. /\ reviews' \in [Tasks -> 0 .. MaxIter]
        /\ Run(t) /\ UNCHANGED <<round, given>> /\ place[t] = "plan"
    BY <1>4 DEF Plan, Back, TypeOK
  <2>2. QED BY <2>1, RunEffect, GotoEffect DEF TypeOK, RoundOk
<1>5. CASE Review(t)
  <2>1. CASE /\ Goto(t, "answered")
             /\ given' = [given EXCEPT ![t] = round[t]]
             /\ UNCHANGED <<step, attempt, part>>
    <3>1. given' \in [Tasks -> 0 .. MaxIter + 1] BY <2>1 DEF TypeOK
    <3>2. QED BY <1>5, <2>1, <3>1, GotoEffect DEF Review, Back, TypeOK, RoundOk
  <2>2. CASE Run(t) /\ UNCHANGED given
    BY <1>5, <2>2, RunEffect, GotoEffect DEF Review, Back, TypeOK, RoundOk
  <2>3. QED BY <1>5, <2>1, <2>2 DEF Review
<1>6. CASE Compact(t)
  <2>1. CASE /\ part[t] < Parts
             /\ part' = [part EXCEPT ![t] = @ + 1]
             /\ Goto(t, "compact")
    <3>1. part' \in [Tasks \cup Jobs -> 0 .. Parts] BY <2>1 DEF TypeOK
    <3>2. QED BY <1>6, <2>1, <3>1, GotoEffect DEF Compact, Back, TypeOK, RoundOk
  <2>2. CASE Goto(t, "decide") /\ UNCHANGED part
    BY <1>6, <2>2, GotoEffect DEF Compact, Back, TypeOK, RoundOk
  <2>3. QED BY <1>6, <2>1, <2>2 DEF Compact
<1>7. CASE Decide(t)
  <2>1. CASE Return(t) BY <1>7, <2>1, ReturnTyped DEF Decide, Back
  <2>2. CASE Goto(t, "tool") /\ UNCHANGED <<reviews, round, step, attempt, part, given>>
    BY <1>7, <2>2, GotoEffect DEF Decide, Back, TypeOK, RoundOk
  <2>3. CASE /\ MayRepair(t)
             /\ attempt' = [attempt EXCEPT ![t] = @ + 1]
             /\ Goto(t, "decide")
             /\ UNCHANGED <<reviews, round, step, part, given>>
    <3>1. attempt' \in [Tasks -> 0 .. MaxRepair] BY <2>3 DEF MayRepair, TypeOK
    <3>2. QED BY <1>7, <2>3, <3>1, GotoEffect DEF Decide, Back, TypeOK, RoundOk
  <2>4. CASE Raise(t) BY <1>7, <2>4, RaiseTyped DEF Decide, Back
  <2>5. QED BY <1>7, <2>1, <2>2, <2>3, <2>4 DEF Decide
<1>8. CASE Tool(t)
  <2>1. CASE Goto(t, "lookup") /\ UNCHANGED <<reviews, round, step, attempt, part, given>>
    BY <1>8, <2>1, GotoEffect DEF Tool, Back, TypeOK, RoundOk
  <2>2. QED BY <1>8, <2>1, NextStepTyped, RaiseTyped DEF Tool, Back
<1>9. CASE Lookup(t)
  <2>1. CASE Goto(t, "found") /\ UNCHANGED <<reviews, round, step, attempt, part, given>>
    BY <1>9, <2>1, GotoEffect DEF Lookup, Back, TypeOK, RoundOk
  <2>2. QED BY <1>9, <2>1, NextStepTyped, RaiseTyped DEF Lookup, Back
<1>10. CASE Found(t) BY <1>10, NextStepTyped, RaiseTyped DEF Found, Back
<1>11. QED BY <1>1, <1>2, <1>3, <1>4, <1>5, <1>6, <1>7, <1>8, <1>9, <1>10 DEF TaskStep

\* Jobs and embeddings leave the tasks alone.
BackgroundStep ==
    \/ \E j \in Jobs : ArchiveBegin(j) \/ JobStep(j)
    \/ \E x \in Embeds : EmbedStep(x)

LEMMA TasksRest ==
  ASSUME TypeOK, BackgroundStep
  PROVE UNCHANGED taskVars /\ \A t \in Tasks : part'[t] = part[t]
<1>1. ASSUME NEW j \in Jobs, ArchiveBegin(j) \/ JobStep(j)
      PROVE UNCHANGED taskVars /\ \A t \in Tasks : part'[t] = part[t]
  <2>1. \A t \in Tasks : t # j BY CallersAssumption
  <2>2. QED BY <1>1, <2>1 DEF ArchiveBegin, JobStep, Summarize, ArchiveEnd, TypeOK
<1>2. ASSUME NEW x \in Embeds, EmbedStep(x)
      PROVE UNCHANGED taskVars /\ \A t \in Tasks : part'[t] = part[t]
  BY <1>2 DEF EmbedStep, EmbedBegin, EmbedEnd
<1>3. QED BY <1>1, <1>2 DEF BackgroundStep

LEMMA BackgroundTyped ==
  ASSUME TypeOK, BackgroundStep
  PROVE TypeOK'
<1> USE AgentAssumption
<1>1. UNCHANGED taskVars BY TasksRest
<1>2. ASSUME NEW j \in Jobs, ArchiveBegin(j) \/ JobStep(j)
      PROVE /\ part' \in [Tasks \cup Jobs -> 0 .. Parts]
            /\ job' \in [Jobs -> {"idle", "summary", "embedding"}]
            /\ embed' \in [Embeds -> {"none", "calling", "ended"}]
  BY <1>2 DEF ArchiveBegin, JobStep, Summarize, ArchiveEnd, TypeOK
<1>3. ASSUME NEW x \in Embeds, EmbedStep(x)
      PROVE /\ part' \in [Tasks \cup Jobs -> 0 .. Parts]
            /\ job' \in [Jobs -> {"idle", "summary", "embedding"}]
            /\ embed' \in [Embeds -> {"none", "calling", "ended"}]
  BY <1>3 DEF EmbedStep, EmbedBegin, EmbedEnd, TypeOK
<1>4. QED BY <1>1, <1>2, <1>3 DEF BackgroundStep, taskVars, TypeOK

LEMMA NextTyped ==
  ASSUME TypeOK, RoundInv, [Next]_vars
  PROVE TypeOK' /\ RoundInv'
<1>1. ASSUME NEW t \in Tasks, Start(t) \/ TaskStep(t)
      PROVE TypeOK' /\ RoundInv'
  <2>1. TypeOK' /\ RoundOk(t)' BY <1>1, TaskTyped DEF RoundInv
  <2>2. ASSUME NEW s \in Tasks \ {t} PROVE RoundOk(s)'
    BY <1>1, <2>2, OthersRest DEF RoundInv, RoundOk
  <2>3. QED BY <2>1, <2>2 DEF RoundInv
<1>2. CASE BackgroundStep
  BY <1>2, BackgroundTyped, TasksRest DEF taskVars, RoundInv, RoundOk
<1>3. CASE UNCHANGED vars
  BY <1>3 DEF vars, taskVars, TypeOK, RoundInv, RoundOk
<1>4. QED BY <1>1, <1>2, <1>3 DEF Next, BackgroundStep

\* The variables of tasks and of the archiving jobs keep their types: no step
\* beyond MaxSteps, no repair beyond MaxRepair, no review beyond the mode's number.
THEOREM AgentTypeCorrect == Spec => []TypeOK
<1>1. Init => TypeOK /\ RoundInv BY InitAgentTyped
<1>2. TypeOK /\ RoundInv /\ [Next]_vars => TypeOK' /\ RoundInv' BY NextTyped
<1>3. QED BY <1>1, <1>2, PTL DEF Spec

-----------------------------------------------------------------------------
(* The gate.                                                               *)

LEMMA InitGateKept == ASSUME Init PROVE GateKept
<1>1. IsFiniteSet({}) /\ Cardinality({}) = 0 BY FS_EmptySet
<1>2. inside = {} /\ queue = <<>> /\ queue \in Seq(Callers) /\ Waiting = {}
  BY DEF Init, GateInit, Waiting
<1>3. GateSound BY <1>1, <1>2, GateAssumption DEF GateSound
<1>4. \A c \in Callers : ~HasCall(c) /\ ~Known(c)
  BY <1>2 DEF Init, HasCall, Known, Calling
<1>5. QED BY <1>3, <1>4 DEF GateKept

LEMMA GotoKeepsGate ==
  ASSUME TypeOK, GateKept, NEW t \in Tasks, NEW p \in Places, Goto(t, p),
         place[t] \in Calling => t \in inside
  PROVE GateKept'
<1>1. /\ t \in Callers /\ t \notin Jobs /\ t \notin Embeds /\ Tasks \subseteq Callers
  BY CallersAssumption
<1>2. place' = [place EXCEPT ![t] = p] /\ job' = job /\ embed' = embed BY DEF Goto
<1>3. place'[t] = p /\ \A s \in Tasks \ {t} : place'[s] = place[s] BY <1>2 DEF TypeOK
<1>4. (HasCall(t) <=> place[t] \in Calling) /\ (HasCall(t)' <=> p \in Calling)
  BY <1>1, <1>3 DEF HasCall
<1>5. \A c \in Callers \ {t} : HasCall(c)' <=> HasCall(c) BY <1>2, <1>3 DEF HasCall
<1>6. GateSound /\ \A c \in Callers : HasCall(c) <=> Known(c) BY DEF GateKept
<1>7. CASE place[t] \in Calling /\ p \in Calling
  <2>1. Again(t) /\ t \in inside BY <1>7 DEF Goto
  <2>2. GateSound' /\ \A d \in Callers : Known(d)' <=> Known(d)
    BY <1>1, <1>6, <2>1, AgainKeepsGate
  <2>3. QED BY <1>4, <1>5, <1>6, <1>7, <2>2 DEF GateKept
<1>8. CASE place[t] \in Calling /\ p \notin Calling
  <2>1. Leave(t) /\ t \in inside BY <1>8 DEF Goto
  <2>2. GateSound' /\ \A d \in Callers : Known(d)' <=> Known(d) /\ d # t
    BY <1>1, <1>6, <2>1, LeaveKeepsGate
  <2>3. QED BY <1>4, <1>5, <1>6, <1>8, <2>2 DEF GateKept
<1>9. CASE place[t] \notin Calling /\ p \in Calling
  <2>1. Ask(t) /\ ~Known(t) BY <1>1, <1>4, <1>6, <1>9 DEF Goto
  <2>2. GateSound' /\ \A d \in Callers : Known(d)' <=> Known(d) \/ d = t
    BY <1>1, <1>6, <2>1, AskKeepsGate
  <2>3. QED BY <1>1, <1>4, <1>5, <1>6, <1>9, <2>2 DEF GateKept
<1>10. CASE place[t] \notin Calling /\ p \notin Calling
  <2>1. inside' = inside /\ queue' = queue BY <1>10 DEF Goto, gate
  <2>2. GateSound' /\ \A d \in Callers : Known(d)' <=> Known(d)
    BY <1>6, <2>1 DEF GateSound, Known, Waiting
  <2>3. QED BY <1>1, <1>4, <1>5, <1>6, <1>10, <2>2 DEF GateKept
<1>11. QED BY <1>7, <1>8, <1>9, <1>10

\* A job asks, goes on or leaves; its embeddings keep what they have.
LEMMA JobKeepsGate ==
  ASSUME TypeOK, GateKept, NEW j \in Jobs, ArchiveBegin(j) \/ JobStep(j)
  PROVE GateKept'
<1>1. j \in Callers /\ j \notin Tasks /\ j \notin Embeds BY CallersAssumption
<1>2. GateSound /\ \A c \in Callers : HasCall(c) <=> Known(c) BY DEF GateKept
<1>3. HasCall(j) <=> job[j] = "summary" BY <1>1 DEF HasCall
<1>4. CASE ArchiveBegin(j)
  <2>1. /\ place' = place /\ embed' = embed /\ job' = [job EXCEPT ![j] = "summary"]
        /\ job[j] = "idle" /\ Ask(j)
    BY <1>4 DEF ArchiveBegin, taskVars
  <2>2. ~Known(j) BY <1>1, <1>2, <1>3, <2>1
  <2>3. GateSound' /\ \A d \in Callers : Known(d)' <=> Known(d) \/ d = j
    BY <1>1, <1>2, <2>1, <2>2, AskKeepsGate
  <2>4. \A c \in Callers : HasCall(c)' <=> HasCall(c) \/ c = j
    BY <1>1, <2>1 DEF HasCall, TypeOK
  <2>5. QED BY <1>2, <2>3, <2>4 DEF GateKept
<1>5. CASE Summarize(j)
  <2>1. place' = place /\ embed' = embed /\ job[j] = "summary" /\ j \in inside
    BY <1>5 DEF Summarize, taskVars
  <2>2. CASE Again(j) /\ UNCHANGED job
    <3>1. GateSound' /\ \A d \in Callers : Known(d)' <=> Known(d)
      BY <1>1, <1>2, <2>1, <2>2, AgainKeepsGate
    <3>2. \A c \in Callers : HasCall(c)' <=> HasCall(c) BY <2>1, <2>2 DEF HasCall
    <3>3. QED BY <1>2, <3>1, <3>2 DEF GateKept
  <2>3. CASE /\ \E b \in {"embedding", "idle"} : job' = [job EXCEPT ![j] = b]
             /\ Leave(j)
    <3>1. GateSound' /\ \A d \in Callers : Known(d)' <=> Known(d) /\ d # j
      BY <1>1, <1>2, <2>1, <2>3, LeaveKeepsGate
    <3>2. \A c \in Callers : HasCall(c)' <=> HasCall(c) /\ c # j
      BY <1>1, <2>1, <2>3 DEF HasCall, TypeOK
    <3>3. QED BY <1>2, <3>1, <3>2 DEF GateKept
  <2>4. QED BY <1>5, <2>2, <2>3 DEF Summarize
<1>6. CASE ArchiveEnd(j)
  <2>1. /\ place' = place /\ job' = [job EXCEPT ![j] = "idle"] /\ job[j] = "embedding"
        /\ inside' = inside /\ queue' = queue
        /\ embed' = [x \in Embeds |-> IF x[1] = j THEN "none" ELSE embed[x]]
    BY <1>6 DEF ArchiveEnd, taskVars, gate
  <2>2. \A x \in Embeds : x[1] = j => embed[x] = "ended"
    BY <1>6 DEF ArchiveEnd, Embeds
  <2>3. \A x \in Embeds : embed'[x] = "calling" <=> embed[x] = "calling" BY <2>1, <2>2
  <2>4. \A c \in Callers : HasCall(c)' <=> HasCall(c) BY <2>1, <2>3 DEF HasCall, TypeOK
  <2>5. GateSound' /\ \A d \in Callers : Known(d)' <=> Known(d)
    BY <1>2, <2>1 DEF GateSound, Known, Waiting
  <2>6. QED BY <1>2, <2>4, <2>5 DEF GateKept
<1>7. QED BY <1>4, <1>5, <1>6 DEF JobStep

LEMMA EmbedKeepsGate ==
  ASSUME TypeOK, GateKept, NEW x \in Embeds, EmbedStep(x)
  PROVE GateKept'
<1>1. x \in Callers /\ x \notin Tasks /\ x \notin Jobs BY CallersAssumption
<1>2. GateSound /\ \A c \in Callers : HasCall(c) <=> Known(c) BY DEF GateKept
<1>3. HasCall(x) <=> embed[x] = "calling" BY <1>1 DEF HasCall
<1>4. CASE EmbedBegin(x)
  <2>1. /\ place' = place /\ job' = job /\ embed' = [embed EXCEPT ![x] = "calling"]
        /\ embed[x] = "none" /\ Ask(x)
    BY <1>4 DEF EmbedBegin, taskVars
  <2>2. ~Known(x) BY <1>1, <1>2, <1>3, <2>1
  <2>3. GateSound' /\ \A d \in Callers : Known(d)' <=> Known(d) \/ d = x
    BY <1>1, <1>2, <2>1, <2>2, AskKeepsGate
  <2>4. \A c \in Callers : HasCall(c)' <=> HasCall(c) \/ c = x
    BY <1>1, <2>1 DEF HasCall, TypeOK
  <2>5. QED BY <1>2, <2>3, <2>4 DEF GateKept
<1>5. CASE EmbedEnd(x)
  <2>1. /\ place' = place /\ job' = job /\ embed' = [embed EXCEPT ![x] = "ended"]
        /\ embed[x] = "calling" /\ x \in inside /\ Leave(x)
    BY <1>5 DEF EmbedEnd, taskVars
  <2>2. GateSound' /\ \A d \in Callers : Known(d)' <=> Known(d) /\ d # x
    BY <1>1, <1>2, <2>1, LeaveKeepsGate
  <2>3. \A c \in Callers : HasCall(c)' <=> HasCall(c) /\ c # x
    BY <1>1, <2>1 DEF HasCall, TypeOK
  <2>4. QED BY <1>2, <2>2, <2>3 DEF GateKept
<1>6. QED BY <1>4, <1>5 DEF EmbedStep

\* A slot of the gate is held by a caller that has a call and by nobody else, on
\* every path out of a call, for every number of tasks, jobs, chunks and slots.
THEOREM GateStaysSound == Spec => []GateKept
<1>1. Init => TypeOK /\ RoundInv /\ GateKept BY InitAgentTyped, InitGateKept
<1>2. TypeOK /\ RoundInv /\ GateKept /\ [Next]_vars => TypeOK' /\ RoundInv' /\ GateKept'
  <2> SUFFICES ASSUME TypeOK, RoundInv, GateKept, [Next]_vars PROVE GateKept'
    BY NextTyped
  <2>1. ASSUME NEW t \in Tasks, Start(t) \/ TaskStep(t) PROVE GateKept'
    BY <2>1, TaskGoes, GotoKeepsGate
  <2>2. ASSUME NEW j \in Jobs, ArchiveBegin(j) \/ JobStep(j) PROVE GateKept'
    BY <2>2, JobKeepsGate
  <2>3. ASSUME NEW x \in Embeds, EmbedStep(x) PROVE GateKept'
    BY <2>3, EmbedKeepsGate
  <2>4. CASE UNCHANGED vars
    BY <2>4 DEF vars, taskVars, gate, GateKept, GateSound, HasCall, Known, Waiting
  <2>5. QED BY <2>1, <2>2, <2>3, <2>4 DEF Next
<1>3. QED BY <1>1, <1>2, PTL DEF Spec

-----------------------------------------------------------------------------
(* The gate is fair.                                                       *)

\* Nobody overtakes in the queue: with every slot that is given back all who wait
\* move up by one, the first of them into the slot, and until then they keep their
\* places.
MoveUp ==
    \A i \in DOMAIN queue :
        IF i = 1 THEN queue[1] \in inside'
        ELSE i - 1 \in DOMAIN queue' /\ queue'[i - 1] = queue[i]
KeepPlaces == \A i \in DOMAIN queue : i \in DOMAIN queue' /\ queue'[i] = queue[i]
GateInTurn == [][IF \E c \in inside : c \notin inside' THEN MoveUp ELSE KeepPlaces]_vars

LEMMA AskInTurn ==
  ASSUME GateSound, NEW c, Ask(c)
  PROVE  inside \subseteq inside' /\ KeepPlaces
<1>1. CASE Cardinality(inside) < Slots /\ queue = <<>> BY <1>1 DEF Ask, KeepPlaces
<1>2. CASE ~(Cardinality(inside) < Slots /\ queue = <<>>)
  <2>1. inside' = inside /\ queue' = Append(queue, c) BY <1>2 DEF Ask
  <2>2. queue \in Seq(Callers) BY DEF GateSound
  <2>3. DOMAIN queue = 1 .. Len(queue) /\ DOMAIN queue' = 1 .. Len(queue) + 1
    BY <2>1, <2>2
  <2>4. \A i \in 1 .. Len(queue) : queue'[i] = queue[i] BY <2>1, <2>2
  <2>5. QED BY <2>1, <2>2, <2>3, <2>4 DEF KeepPlaces
<1>3. QED BY <1>1, <1>2

LEMMA GivenBackInTurn ==
  ASSUME GateSound, NEW c \in inside, Leave(c) \/ Again(c)
  PROVE  IF \E d \in inside : d \notin inside' THEN MoveUp ELSE KeepPlaces
<1>1. CASE queue = <<>> /\ Leave(c)
  <2>1. c \notin inside' BY <1>1 DEF Leave
  <2>2. MoveUp BY <1>1 DEF MoveUp
  <2>3. QED BY <2>1, <2>2
<1>2. CASE queue = <<>> /\ Again(c) BY <1>2 DEF Again, KeepPlaces
<1>3. CASE queue # <<>>
  <2>1. queue \in Seq(Callers) /\ Len(queue) \in Nat \ {0} /\ DOMAIN queue = 1 .. Len(queue)
    BY <1>3 DEF GateSound
  <2>2. Head(queue) = queue[1] /\ Head(queue) \in Waiting BY <2>1 DEF Waiting
  <2>3. Head(queue) # c BY <2>2 DEF GateSound
  <2>4. inside' = (inside \ {c}) \cup {Head(queue)} BY <1>3 DEF Leave, Again
  <2>5. c \notin inside' BY <2>3, <2>4
  <2>6. /\ Tail(queue) \in Seq(Callers) /\ Len(Tail(queue)) = Len(queue) - 1
        /\ \A i \in 1 .. Len(queue) - 1 : Tail(queue)[i] = queue[i + 1]
    BY <2>1
  <2>7. \A i \in 1 .. Len(queue) - 1 : i \in DOMAIN queue' /\ queue'[i] = queue[i + 1]
    <3>1. CASE Leave(c) BY <1>3, <2>1, <2>6, <3>1 DEF Leave
    <3>2. CASE Again(c)
      <4> DEFINE q == Tail(queue)
      <4>1. queue' = Append(q, c) BY <1>3, <3>2 DEF Again
      <4>2. q \in Seq(Callers) /\ Len(q) = Len(queue) - 1 BY <2>6
      <4> HIDE DEF q
      <4>3. /\ DOMAIN queue' = 1 .. Len(q) + 1
            /\ \A i \in 1 .. Len(q) : queue'[i] = q[i]
        BY <4>1, <4>2
      <4>4. QED BY <2>1, <2>6, <4>2, <4>3 DEF q
    <3>3. QED BY <3>1, <3>2
  <2>8. MoveUp
    <3> SUFFICES ASSUME NEW i \in DOMAIN queue
                 PROVE  IF i = 1 THEN queue[1] \in inside'
                        ELSE i - 1 \in DOMAIN queue' /\ queue'[i - 1] = queue[i]
      BY DEF MoveUp
    <3>1. CASE i = 1 BY <2>2, <2>4, <3>1
    <3>2. CASE i # 1
      <4>1. i - 1 \in 1 .. Len(queue) - 1 /\ (i - 1) + 1 = i BY <2>1, <3>2
      <4>2. QED BY <2>7, <3>2, <4>1
    <3>3. QED BY <3>1, <3>2
  <2>9. QED BY <2>5, <2>8
<1>4. QED BY <1>1, <1>2, <1>3

\* The gate is first in, first out for everybody who asks, users and background alike:
\* a steady stream of archiving jobs cannot keep a task waiting.
THEOREM GateIsFair == Spec => GateInTurn
<1>1. ASSUME GateSound, [Next]_vars
      PROVE  IF \E c \in inside : c \notin inside' THEN MoveUp ELSE KeepPlaces
  <2>1. ASSUME NEW c, Ask(c) PROVE inside \subseteq inside' /\ KeepPlaces
    BY <1>1, <2>1, AskInTurn
  <2>2. ASSUME NEW c \in inside, Leave(c) \/ Again(c)
        PROVE  IF \E d \in inside : d \notin inside' THEN MoveUp ELSE KeepPlaces
    BY <1>1, <2>2, GivenBackInTurn
  <2>3. ASSUME UNCHANGED gate PROVE inside' = inside /\ KeepPlaces
    BY <2>3 DEF gate, KeepPlaces
  <2>4. \/ \E c : Ask(c) \/ (c \in inside /\ (Leave(c) \/ Again(c)))
        \/ UNCHANGED gate
    <3>1. ASSUME NEW t \in Tasks, Start(t) \/ TaskStep(t)
          PROVE  \/ Ask(t) \/ (t \in inside /\ (Leave(t) \/ Again(t)))
                 \/ UNCHANGED gate
      <4>1. PICK p \in Places : Goto(t, p) /\ (place[t] \in Calling => t \in inside)
        BY <3>1, TaskGoes
      <4>2. QED BY <4>1 DEF Goto
    <3>2. ASSUME NEW j \in Jobs, ArchiveBegin(j) \/ JobStep(j)
          PROVE  \/ Ask(j) \/ (j \in inside /\ (Leave(j) \/ Again(j)))
                 \/ UNCHANGED gate
      BY <3>2 DEF ArchiveBegin, JobStep, Summarize, ArchiveEnd
    <3>3. ASSUME NEW x \in Embeds, EmbedStep(x)
          PROVE  Ask(x) \/ (x \in inside /\ Leave(x))
      BY <3>3 DEF EmbedStep, EmbedBegin, EmbedEnd
    <3>4. CASE UNCHANGED vars BY <3>4 DEF vars
    <3>5. QED BY <1>1, <3>1, <3>2, <3>3, <3>4 DEF Next
  <2>5. QED BY <2>1, <2>2, <2>3, <2>4
<1>2. GateKept /\ [Next]_vars =>
        [IF \E c \in inside : c \notin inside' THEN MoveUp ELSE KeepPlaces]_vars
  BY <1>1 DEF GateKept
<1>3. QED BY <1>2, GateStaysSound, PTL DEF Spec, GateInTurn

-----------------------------------------------------------------------------
(* The promise of handle_user_task.                                        *)

OutcomeIn(p) == CASE p = "idle" -> "idle" [] p = "answered" -> "answer"
                  [] p = "failed" -> "error" [] OTHER -> "open"

LEMMA GotoOutcome ==
  ASSUME TypeOK, NEW t \in Tasks, NEW p \in Places, Goto(t, p)
  PROVE /\ OutcomeOf' = [OutcomeOf EXCEPT ![t] = OutcomeIn(p)]
        /\ OutcomeOf[t] = OutcomeIn(place[t])
        /\ OutcomeIn(place[t]) = OutcomeIn(p) => OutcomeOf' = OutcomeOf
<1>1. OutcomeOf = [s \in Tasks |-> OutcomeIn(place[s])] BY DEF OutcomeOf, OutcomeIn
<1>2. OutcomeOf' = [s \in Tasks |-> OutcomeIn(place'[s])] BY DEF OutcomeOf, OutcomeIn
<1>3. place' = [place EXCEPT ![t] = p] BY DEF Goto
<1>4. place'[t] = p /\ \A s \in Tasks \ {t} : place'[s] = place[s] BY <1>3 DEF TypeOK
<1>5. QED BY <1>1, <1>2, <1>4

\* From one place of an open task to another nothing is promised.
LEMMA QuietStep ==
  ASSUME TypeOK, NEW t \in Tasks, NEW p \in Places, Goto(t, p),
         OutcomeIn(place[t]) = OutcomeIn(p), UNCHANGED <<round, given>>
  PROVE UNCHANGED Promise!promiseVars
BY GotoOutcome DEF Promise!promiseVars

LEMMA ReturnPromised ==
  ASSUME TypeOK, NEW t \in Tasks, RoundOk(t), place[t] \in InRun, Return(t)
  PROVE Promise!Draft(t) \/ Promise!Answer(t)
<1> DEFINE r == round[t] + 1
<1>1. OutcomeIn(place[t]) = "open" BY DEF InRun, OutcomeIn
<1>2. r \in {round[t], round[t] + 1} \ {0} /\ round' = [round EXCEPT ![t] = r]
  BY DEF Return, TypeOK
<1>3. CASE r <= reviews[t]
  <2>1. Goto(t, "review") /\ given' = given BY <1>3 DEF Return
  <2>2. OutcomeIn("review") = "open" /\ "review" \in Places
    BY DEF OutcomeIn, Places, Calling
  <2>3. OutcomeOf[t] = "open" /\ OutcomeOf' = OutcomeOf BY <1>1, <2>1, <2>2, GotoOutcome
  <2>4. Promise!Draft(t) BY <1>2, <2>1, <2>3 DEF Promise!Draft
  <2>5. QED BY <2>4
<1>4. CASE ~(r <= reviews[t])
  <2>1. Goto(t, "answered") /\ given' = [given EXCEPT ![t] = r] BY <1>4 DEF Return
  <2>2. OutcomeIn("answered") = "answer" /\ "answered" \in Places
    BY DEF OutcomeIn, Places, Ended
  <2>3. OutcomeOf[t] = "open" /\ OutcomeOf' = [OutcomeOf EXCEPT ![t] = "answer"]
    BY <1>1, <2>1, <2>2, GotoOutcome
  <2>4. Promise!Answer(t) BY <1>2, <2>1, <2>3 DEF Promise!Answer
  <2>5. QED BY <2>4
<1>5. QED BY <1>3, <1>4

\* The latest draft is answered.
LEMMA DraftAnswered ==
  ASSUME TypeOK, NEW t \in Tasks, OutcomeIn(place[t]) = "open", round[t] >= 1,
         Goto(t, "answered"), given' = [given EXCEPT ![t] = round[t]], round' = round
  PROVE Promise!Answer(t)
<1>1. OutcomeIn("answered") = "answer" /\ "answered" \in Places
  BY DEF OutcomeIn, Places, Ended
<1>2. OutcomeOf[t] = "open" /\ OutcomeOf' = [OutcomeOf EXCEPT ![t] = "answer"]
  BY <1>1, GotoOutcome
<1>3. /\ round[t] \in {round[t], round[t] + 1} \ {0}
      /\ round' = [round EXCEPT ![t] = round[t]]
  BY DEF TypeOK
<1>4. QED BY <1>2, <1>3 DEF Promise!Answer

LEMMA RaisePromised ==
  ASSUME TypeOK, NEW t \in Tasks, RoundOk(t), place[t] \in InRun, Raise(t)
  PROVE Promise!Fail(t) \/ Promise!Answer(t)
<1>1. OutcomeIn(place[t]) = "open" BY DEF InRun, OutcomeIn
<1>2. round' = round /\ given' = [given EXCEPT ![t] = round[t]] BY DEF Raise
<1>3. CASE round[t] = 0
  <2>1. Goto(t, "failed") BY <1>3 DEF Raise
  <2>2. OutcomeIn("failed") = "error" /\ "failed" \in Places
    BY DEF OutcomeIn, Places, Ended
  <2>3. OutcomeOf[t] = "open" /\ OutcomeOf' = [OutcomeOf EXCEPT ![t] = "error"]
    BY <1>1, <2>1, <2>2, GotoOutcome
  <2>4. given[t] = 0 BY <1>3 DEF RoundOk
  <2>5. given' = given BY <1>2, <1>3, <2>4 DEF TypeOK
  <2>6. QED BY <1>2, <1>3, <2>3, <2>5 DEF Promise!Fail
<1>4. CASE round[t] # 0
  <2>1. Goto(t, "answered") /\ round[t] >= 1 BY <1>4 DEF Raise, TypeOK
  <2>2. QED BY <1>1, <1>2, <2>1, DraftAnswered
<1>5. QED BY <1>3, <1>4

LEMMA NextStepPromised ==
  ASSUME TypeOK, NEW t \in Tasks, RoundOk(t), place[t] \in InRun, NextStep(t)
  PROVE [Promise!PromiseNext]_(Promise!promiseVars)
<1>1. CASE step[t] = MaxSteps
  BY <1>1, ReturnPromised DEF NextStep, Promise!PromiseNext
<1>2. CASE step[t] # MaxSteps
  <2>1. Goto(t, "decide") /\ UNCHANGED <<round, given>> BY <1>2 DEF NextStep
  <2>2. OutcomeIn(place[t]) = OutcomeIn("decide") /\ "decide" \in Places
    BY DEF OutcomeIn, Places, Calling, InRun
  <2>3. QED BY <2>1, <2>2, QuietStep
<1>3. QED BY <1>1, <1>2

LEMMA TaskPromised ==
  ASSUME TypeOK, NEW t \in Tasks, RoundOk(t), Start(t) \/ TaskStep(t)
  PROVE [Promise!PromiseNext]_(Promise!promiseVars)
<1> DEFINE Busy == Places \ ({"idle"} \cup Ended)
<1>1. \A p \in Busy : OutcomeIn(p) = "open" /\ p \in Places BY DEF OutcomeIn, Ended
<1>2. "idle" \in Places /\ OutcomeIn("idle") = "idle" BY DEF Places, OutcomeIn
<1>3. /\ {"boot", "search", "plan", "review"} \subseteq Busy /\ InRun \subseteq Busy
      /\ {"compact", "decide", "tool", "lookup", "found"} \subseteq InRun
  BY DEF Places, Calling, InRun, Ended
<1> HIDE DEF Busy
<1>4. ASSUME NEW p \in Busy, Goto(t, p), place[t] \in Busy, UNCHANGED <<round, given>>
      PROVE UNCHANGED Promise!promiseVars
  BY <1>1, <1>4, QuietStep
<1>5. CASE Start(t)
  <2>1. PICK p \in Busy : Goto(t, p) /\ UNCHANGED <<round, given>>
    BY <1>3, <1>5 DEF Start, Begin, Run
  <2>2. OutcomeOf[t] = "idle" /\ OutcomeOf' = [OutcomeOf EXCEPT ![t] = "open"]
    BY <1>1, <1>2, <1>5, <2>1, GotoOutcome DEF Start, Back
  <2>3. Promise!Open(t) BY <2>1, <2>2 DEF Promise!Open
  <2>4. QED BY <2>3 DEF Promise!PromiseNext
<1>6. CASE Boot(t) \/ Search(t) \/ Plan(t) \/ Compact(t)
  <2>1. \E p \in Busy : Goto(t, p) /\ UNCHANGED <<round, given>>
    BY <1>3, <1>6 DEF Boot, Search, Plan, Compact, Begin, Run
  <2>2. place[t] \in Busy BY <1>3, <1>6 DEF Boot, Search, Plan, Compact, Back
  <2>3. QED BY <1>4, <2>1, <2>2
<1>7. CASE Review(t)
  <2>1. place[t] \in Busy /\ round[t] >= 1 /\ round' = round
    BY <1>3, <1>7 DEF Review, Back, RoundOk
  <2>2. CASE Goto(t, "answered") /\ given' = [given EXCEPT ![t] = round[t]]
    BY <1>1, <2>1, <2>2, DraftAnswered DEF Promise!PromiseNext
  <2>3. CASE Run(t) /\ UNCHANGED given
    <3>1. \E p \in Busy : Goto(t, p) BY <1>3, <2>3 DEF Run
    <3>2. QED BY <1>4, <2>1, <2>3, <3>1
  <2>4. QED BY <1>7, <2>2, <2>3 DEF Review
<1>8. CASE Decide(t) \/ Tool(t) \/ Lookup(t) \/ Found(t)
  <2>1. place[t] \in InRun BY <1>3, <1>8 DEF Decide, Tool, Lookup, Found, Back
  <2>2. CASE Return(t) BY <2>1, <2>2, ReturnPromised DEF Promise!PromiseNext
  <2>3. CASE Raise(t) BY <2>1, <2>3, RaisePromised DEF Promise!PromiseNext
  <2>4. CASE NextStep(t) BY <2>1, <2>4, NextStepPromised
  <2>5. CASE \E p \in Busy : Goto(t, p) /\ UNCHANGED <<round, given>>
    BY <1>3, <1>4, <2>1, <2>5
  <2>6. QED BY <1>3, <1>8, <2>2, <2>3, <2>4, <2>5 DEF Decide, Tool, Lookup, Found
<1>9. QED BY <1>5, <1>6, <1>7, <1>8 DEF TaskStep

\* The orchestrator implements its promise: the answer is the latest draft, there
\* is one answer or one error, and no error once there is a draft.
THEOREM AgentKeepsPromise == Spec => PromiseKept
<1>1. Init => Promise!PromiseInit
  BY DEF Init, Promise!PromiseInit, OutcomeOf
<1>2. TypeOK /\ RoundInv /\ [Next]_vars => [Promise!PromiseNext]_(Promise!promiseVars)
  <2> SUFFICES ASSUME TypeOK, RoundInv, [Next]_vars
               PROVE [Promise!PromiseNext]_(Promise!promiseVars)
    OBVIOUS
  <2>1. ASSUME NEW t \in Tasks, Start(t) \/ TaskStep(t)
        PROVE [Promise!PromiseNext]_(Promise!promiseVars)
    BY <2>1, TaskPromised DEF RoundInv
  <2>2. CASE BackgroundStep
    BY <2>2, TasksRest DEF taskVars, Promise!promiseVars, OutcomeOf
  <2>3. CASE UNCHANGED vars
    BY <2>3 DEF vars, taskVars, Promise!promiseVars, OutcomeOf
  <2>4. QED BY <2>1, <2>2, <2>3 DEF Next, BackgroundStep
<1>3. Init => TypeOK /\ RoundInv BY InitAgentTyped
<1>4. TypeOK /\ RoundInv /\ [Next]_vars => TypeOK' /\ RoundInv' BY NextTyped
<1>5. QED BY <1>1, <1>2, <1>3, <1>4, PTL DEF Spec, PromiseKept, Promise!PromiseSafe

-----------------------------------------------------------------------------
(* The number of model calls.                                              *)

LEMMA StepCalls ==
  /\ \A n \in Nat : /\ AfterSteps(n) \in Nat /\ AfterSteps(n) >= Parts
                    /\ AfterSteps(n + 1) = AfterSteps(n) + MaxRepair + 2
  /\ \A n \in 1 .. MaxSteps : AfterSteps(n) <= RunCalls
  /\ RunCalls \in Nat
<1> DEFINE c == MaxRepair + 2
<1>1. c \in Nat /\ Parts \in Nat /\ MaxRepair \in Nat /\ MaxSteps \in Nat BY AgentAssumption
<1>2. \A n \in Nat : AfterSteps(n) = Parts + n * c BY DEF AfterSteps
<1> HIDE DEF c
<1>3. \A n \in Nat : n * c \in Nat /\ (n + 1) * c = n * c + c BY <1>1
<1>4. \A n \in 1 .. MaxSteps : n * c <= MaxSteps * c BY <1>1
<1>5. \A n \in Nat : AfterSteps(n) \in Nat /\ AfterSteps(n) >= Parts BY <1>1, <1>2, <1>3
<1>6. \A n \in Nat : AfterSteps(n + 1) = AfterSteps(n) + c
  <2> SUFFICES ASSUME NEW n \in Nat PROVE AfterSteps(n + 1) = AfterSteps(n) + c
    OBVIOUS
  <2>1. AfterSteps(n + 1) = Parts + (n + 1) * c BY <1>2
  <2>2. n * c \in Nat /\ (n + 1) * c = n * c + c BY <1>3
  <2> DEFINE m == n * c
  <2>3. AfterSteps(n) = Parts + m /\ AfterSteps(n + 1) = Parts + (m + c) /\ m \in Nat
    BY <1>2, <2>1, <2>2
  <2> HIDE DEF m
  <2>4. QED BY <1>1, <2>3
<1>7. \A n \in 1 .. MaxSteps : AfterSteps(n) <= AfterSteps(MaxSteps)
  <2> SUFFICES ASSUME NEW n \in 1 .. MaxSteps
               PROVE AfterSteps(n) <= AfterSteps(MaxSteps)
    OBVIOUS
  <2> DEFINE m == n * c
  <2> DEFINE k == MaxSteps * c
  <2>1. m <= k /\ m \in Nat /\ k \in Nat BY <1>1, <1>3, <1>4
  <2>2. AfterSteps(n) = Parts + m /\ AfterSteps(MaxSteps) = Parts + k BY <1>1, <1>2
  <2> HIDE DEF m, k
  <2>3. QED BY <1>1, <2>1, <2>2
<1>8. QED BY <1>1, <1>5, <1>6, <1>7 DEF RunCalls, c

LEMMA RunsCalls ==
  /\ \A n \in Nat : /\ AfterRuns(n) \in Nat /\ AfterRuns(n) >= 2
                    /\ AfterRuns(n + 1) = AfterRuns(n) + RunCalls + 1
  /\ \A n \in Nat : \A k \in 0 .. n : AfterRuns(k) <= AfterRuns(n)
  /\ AfterRuns(0) = 2
<1> DEFINE c == RunCalls + 1
<1>1. RunCalls \in Nat /\ c \in Nat BY StepCalls
<1>2. \A n \in Nat : AfterRuns(n) = 2 + n * c BY DEF AfterRuns
<1>3. c = RunCalls + 1 OBVIOUS
<1> HIDE DEF c
<1>4. \A n \in Nat : n * c \in Nat /\ (n + 1) * c = n * c + c BY <1>1
<1>5. \A n \in Nat : \A k \in 0 .. n : k * c <= n * c BY <1>1
<1>6. \A n \in Nat : AfterRuns(n) \in Nat /\ AfterRuns(n) >= 2 BY <1>2, <1>4
<1>7. \A n \in Nat : AfterRuns(n + 1) = AfterRuns(n) + RunCalls + 1
  <2> SUFFICES ASSUME NEW n \in Nat PROVE AfterRuns(n + 1) = AfterRuns(n) + RunCalls + 1
    OBVIOUS
  <2> DEFINE m == n * c
  <2>1. AfterRuns(n) = 2 + m /\ AfterRuns(n + 1) = 2 + (m + c) /\ m \in Nat
    BY <1>2, <1>4
  <2> HIDE DEF m
  <2>2. QED BY <1>1, <1>3, <2>1
<1>8. \A n \in Nat : \A k \in 0 .. n : AfterRuns(k) <= AfterRuns(n)
  <2> SUFFICES ASSUME NEW n \in Nat, NEW k \in 0 .. n PROVE AfterRuns(k) <= AfterRuns(n)
    OBVIOUS
  <2> DEFINE m == n * c
  <2> DEFINE l == k * c
  <2>1. l <= m /\ l \in Nat /\ m \in Nat BY <1>4, <1>5
  <2>2. AfterRuns(k) = 2 + l /\ AfterRuns(n) = 2 + m BY <1>2
  <2> HIDE DEF m, l
  <2>3. QED BY <2>1, <2>2
<1>9. AfterRuns(0) = 2 BY <1>1 DEF AfterRuns
<1>10. QED BY <1>6, <1>7, <1>8, <1>9

LEMMA RunCounted ==
  ASSUME TypeOK, NEW t \in Tasks, Run(t), round' = round, calls[t] <= Before(t)
  PROVE CallsOk(t)'
<1> USE AgentAssumption DEF Places, Calling, InRun, Ended
<1>1. PICK p \in {"compact", "decide"} : Goto(t, p) BY RunEffect
<1>2. place'[t] = p /\ calls'[t] = calls[t] + 1 /\ calls[t] \in Nat
  BY <1>1, GotoEffect DEF TypeOK
<1>3. step'[t] = 1 /\ attempt'[t] = 0 /\ part'[t] = 1 BY RunEffect DEF TypeOK
<1>4. Before(t)' = Before(t) /\ Before(t) \in Nat BY RunsCalls DEF Before, TypeOK
<1>5. AfterSteps(0) \in Nat BY StepCalls
<1>6. BeforeStep(t)' = Before(t)' + AfterSteps(0) BY <1>3 DEF BeforeStep
<1>7. QED BY <1>2, <1>3, <1>4, <1>5, <1>6 DEF CallsOk

\* An answer: what the run may call at most has been added to the runs before it.
LEMMA AnswerCounted ==
  ASSUME TypeOK, NEW t \in Tasks, NEW p \in Ended, Goto(t, p), round[t] <= reviews[t],
         reviews' = reviews, calls[t] <= Before(t) + RunCalls
  PROVE CallsOk(t)'
<1> USE DEF Places, Calling, InRun, Ended
<1>1. place'[t] = p /\ calls'[t] = calls[t] BY GotoEffect DEF TypeOK
<1>2. /\ AfterRuns(round[t]) <= AfterRuns(reviews[t])
      /\ AfterRuns(round[t]) \in Nat /\ AfterRuns(reviews[t]) \in Nat /\ RunCalls \in Nat
  <2>1. reviews[t] \in Nat /\ round[t] \in 0 .. reviews[t] BY AgentAssumption DEF TypeOK
  <2>2. round[t] \in Nat BY <2>1
  <2>3. AfterRuns(round[t]) \in Nat /\ AfterRuns(reviews[t]) \in Nat BY <2>1, <2>2, RunsCalls
  <2>4. AfterRuns(round[t]) <= AfterRuns(reviews[t]) BY <2>1, RunsCalls
  <2>5. QED BY <2>3, <2>4, StepCalls
<1>3. calls'[t] <= AfterRuns(reviews'[t]) + RunCalls BY <1>1, <1>2 DEF Before, TypeOK
<1>4. QED BY <1>1, <1>3 DEF CallsOk

LEMMA ReturnCounted ==
  ASSUME TypeOK, NEW t \in Tasks, RoundOk(t), place[t] \in InRun, Return(t),
         calls[t] <= Before(t) + RunCalls
  PROVE CallsOk(t)'
<1>1. round[t] <= reviews[t] BY DEF RoundOk
<1>2. CASE round[t] + 1 <= reviews[t]
  <2> USE DEF Places, Calling, InRun, Ended
  <2>1. Goto(t, "review") /\ round' = [round EXCEPT ![t] = round[t] + 1]
    BY <1>2 DEF Return
  <2>2. place'[t] = "review" /\ calls'[t] = calls[t] + 1 /\ round'[t] = round[t] + 1
    BY <2>1, GotoEffect DEF TypeOK
  <2>3. AfterRuns(round[t]) \in Nat /\ AfterRuns(round[t] + 1) = AfterRuns(round[t]) + RunCalls + 1
    <3>1. round[t] \in Nat BY AgentAssumption DEF TypeOK
    <3>2. QED BY <3>1, RunsCalls
  <2>4. calls'[t] <= Before(t)' BY <2>2, <2>3, StepCalls DEF Before, TypeOK
  <2>5. QED BY <2>2, <2>4 DEF CallsOk
<1>3. CASE ~(round[t] + 1 <= reviews[t])
  <2>1. Goto(t, "answered") /\ reviews' = reviews BY <1>3 DEF Return
  <2>2. QED BY <1>1, <2>1, AnswerCounted DEF Ended
<1>4. QED BY <1>2, <1>3

LEMMA RaiseCounted ==
  ASSUME TypeOK, NEW t \in Tasks, RoundOk(t), place[t] \in InRun, Raise(t),
         calls[t] <= Before(t) + RunCalls
  PROVE CallsOk(t)'
<1>1. round[t] <= reviews[t] BY DEF RoundOk
<1>2. \E p \in Ended : Goto(t, p) /\ reviews' = reviews BY DEF Raise, Ended
<1>3. QED BY <1>1, <1>2, AnswerCounted

\* A step that has made all its calls leaves room for those of the steps to come.
LEMMA StepRoom ==
  ASSUME TypeOK, NEW t \in Tasks, RoundOk(t), place[t] \in InRun
  PROVE /\ step[t] \in 1 .. MaxSteps /\ Before(t) \in Nat /\ BeforeStep(t) \in Nat
        /\ BeforeStep(t) >= Before(t) + Parts
        /\ BeforeStep(t) + MaxRepair + 2 = Before(t) + AfterSteps(step[t])
        /\ AfterSteps(step[t]) \in Nat /\ AfterSteps(step[t]) <= RunCalls
        /\ RunCalls \in Nat /\ attempt[t] \in 0 .. MaxRepair /\ calls[t] \in Nat
<1>1. step[t] \in 1 .. MaxSteps BY AgentAssumption DEF RoundOk, TypeOK
<1>2. Before(t) \in Nat
  <2>1. round[t] \in Nat BY AgentAssumption DEF TypeOK
  <2>2. QED BY <2>1, RunsCalls DEF Before
<1>3. step[t] - 1 \in Nat /\ (step[t] - 1) + 1 = step[t] BY <1>1, AgentAssumption
<1>4. /\ AfterSteps(step[t] - 1) \in Nat /\ AfterSteps(step[t] - 1) >= Parts
      /\ AfterSteps(step[t]) = AfterSteps(step[t] - 1) + MaxRepair + 2
  BY <1>3, StepCalls
<1>5. RunCalls \in Nat /\ AfterSteps(step[t]) <= RunCalls BY <1>1, StepCalls
<1>6. QED BY <1>1, <1>2, <1>4, <1>5, AgentAssumption DEF BeforeStep, TypeOK

LEMMA NextStepCounted ==
  ASSUME TypeOK, NEW t \in Tasks, RoundOk(t), place[t] \in InRun, NextStep(t),
         calls[t] <= BeforeStep(t) + MaxRepair + 2
  PROVE CallsOk(t)'
<1>1. CASE step[t] = MaxSteps
  <2>1. calls[t] <= Before(t) + RunCalls BY StepRoom, AgentAssumption
  <2>2. QED BY <1>1, <2>1, ReturnCounted DEF NextStep
<1>2. CASE step[t] # MaxSteps
  <2> USE DEF Places, Calling, InRun, Ended
  <2>1. /\ Goto(t, "decide") /\ step' = [step EXCEPT ![t] = @ + 1]
        /\ attempt' = [attempt EXCEPT ![t] = 0] /\ round' = round
    BY <1>2 DEF NextStep
  <2>2. /\ place'[t] = "decide" /\ calls'[t] = calls[t] + 1
        /\ step'[t] - 1 = step[t] /\ attempt'[t] = 0
    BY <2>1, GotoEffect, StepRoom, AgentAssumption DEF TypeOK
  <2>3. BeforeStep(t)' = Before(t) + AfterSteps(step[t])
    BY <2>1, <2>2 DEF BeforeStep, Before
  <2>4. calls'[t] <= BeforeStep(t)' + attempt'[t] + 1
    BY <2>2, <2>3, StepRoom, AgentAssumption
  <2>5. QED BY <2>2, <2>4 DEF CallsOk
<1>3. QED BY <1>1, <1>2

LEMMA BeginCounted ==
  ASSUME TypeOK, NEW t \in Tasks, RoundOk(t), Begin(t), calls[t] <= 1,
         place[t] \in {"idle", "boot", "search"}
  PROVE CallsOk(t)'
<1>1. Before(t) = 2 /\ calls[t] \in Nat BY RunsCalls DEF RoundOk, Before, TypeOK
<1>2. CASE Run(t) /\ UNCHANGED <<reviews, round, given>> BY <1>1, <1>2, RunCounted
<1>3. CASE Goto(t, "plan")
  <2> USE DEF Places, Calling, InRun, Ended
  <2>1. place'[t] = "plan" /\ calls'[t] = calls[t] + 1 BY <1>3, GotoEffect DEF TypeOK
  <2>2. QED BY <1>1, <2>1 DEF CallsOk
<1>4. QED BY <1>2, <1>3 DEF Begin

LEMMA TaskCounted ==
  ASSUME TypeOK, NEW t \in Tasks, RoundOk(t), CallsOk(t), Start(t) \/ TaskStep(t)
  PROVE CallsOk(t)'
<1> USE DEF Places, Calling, InRun, Ended
<1>0. calls[t] \in Nat BY DEF TypeOK
<1>1. CASE Start(t)
  <2>1. place[t] = "idle" /\ calls[t] = 0 BY <1>1 DEF Start, Back, CallsOk
  <2>2. CASE Begin(t) BY <2>1, <2>2, BeginCounted
  <2>3. CASE Goto(t, "boot")
    <3>1. place'[t] = "boot" /\ calls'[t] = 1 BY <2>1, <2>3, GotoEffect DEF TypeOK
    <3>2. QED BY <3>1 DEF CallsOk
  <2>4. QED BY <1>1, <2>2, <2>3 DEF Start
<1>2. CASE Boot(t)
  <2>1. place[t] = "boot" /\ calls[t] <= 1 BY <1>2 DEF Boot, Back, CallsOk
  <2>2. CASE Begin(t) BY <2>1, <2>2, BeginCounted
  <2>3. CASE Goto(t, "search")
    <3>1. place'[t] = "search" /\ calls'[t] = calls[t] BY <2>1, <2>3, GotoEffect DEF TypeOK
    <3>2. QED BY <2>1, <3>1 DEF CallsOk
  <2>4. QED BY <1>2, <2>2, <2>3 DEF Boot
<1>3. CASE Search(t) BY <1>3, BeginCounted DEF Search, Back, CallsOk
<1>4. CASE Plan(t)
  <2>1. place[t] = "plan" /\ calls[t] <= 2 /\ Run(t) /\ round' = round
    BY <1>4 DEF Plan, Back, CallsOk
  <2>2. Before(t) = 2 BY <2>1, RunsCalls DEF RoundOk, Before
  <2>3. QED BY <2>1, <2>2, RunCounted
<1>5. CASE Review(t)
  <2>1. /\ place[t] = "review" /\ calls[t] <= Before(t) /\ round[t] <= reviews[t]
        /\ round' = round /\ reviews' = reviews
    BY <1>5 DEF Review, Back, CallsOk, RoundOk
  <2>2. CASE Run(t) BY <2>1, <2>2, RunCounted
  <2>3. CASE Goto(t, "answered")
    <3>1. round[t] \in Nat BY AgentAssumption DEF TypeOK
    <3>2. Before(t) \in Nat /\ RunCalls \in Nat BY <3>1, RunsCalls, StepCalls DEF Before
    <3>3. calls[t] <= Before(t) + RunCalls BY <1>0, <2>1, <3>2
    <3>4. QED BY <2>1, <2>3, <3>3, AnswerCounted
  <2>4. QED BY <1>5, <2>2, <2>3 DEF Review
<1>6. CASE Compact(t)
  <2>1. place[t] = "compact" /\ calls[t] <= Before(t) + part[t] /\ round' = round
    BY <1>6 DEF Compact, Back, CallsOk
  <2>2. part[t] \in 0 .. Parts BY DEF TypeOK
  <2>3. CASE part' = [part EXCEPT ![t] = @ + 1] /\ Goto(t, "compact")
    <3>1. place'[t] = "compact" /\ calls'[t] = calls[t] + 1 /\ part'[t] = part[t] + 1
      BY <2>3, GotoEffect DEF TypeOK
    <3>2. Before(t)' = Before(t) BY <2>1 DEF Before
    <3>3. QED BY <1>0, <2>1, <2>2, <3>1, <3>2, StepRoom, AgentAssumption DEF CallsOk
  <2>4. CASE Goto(t, "decide")
    <3>1. place'[t] = "decide" /\ calls'[t] = calls[t] + 1 BY <2>4, GotoEffect DEF TypeOK
    <3>2. BeforeStep(t)' = BeforeStep(t) /\ attempt' = attempt
      BY <1>6, <2>1 DEF Compact, BeforeStep, Before
    <3>3. QED BY <1>0, <2>1, <2>2, <3>1, <3>2, StepRoom, AgentAssumption DEF CallsOk
  <2>5. QED BY <1>6, <2>3, <2>4 DEF Compact
<1>7. CASE Decide(t)
  <2>1. place[t] = "decide" /\ calls[t] <= BeforeStep(t) + attempt[t] + 1
    BY <1>7 DEF Decide, Back, CallsOk
  <2>2. /\ calls[t] <= BeforeStep(t) + MaxRepair + 1 /\ calls[t] <= Before(t) + RunCalls
    BY <2>1, StepRoom, AgentAssumption
  <2>3. CASE Return(t) BY <2>1, <2>2, <2>3, ReturnCounted
  <2>4. CASE Goto(t, "tool") /\ UNCHANGED <<reviews, round, step, attempt, part, given>>
    <3>1. place'[t] = "tool" /\ calls'[t] = calls[t] BY <2>4, GotoEffect DEF TypeOK
    <3>2. BeforeStep(t)' = BeforeStep(t) BY <2>4 DEF BeforeStep, Before
    <3>3. QED BY <2>2, <3>1, <3>2 DEF CallsOk
  <2>5. CASE /\ attempt' = [attempt EXCEPT ![t] = @ + 1]
             /\ Goto(t, "decide")
             /\ UNCHANGED <<reviews, round, step, part, given>>
    <3>1. place'[t] = "decide" /\ calls'[t] = calls[t] + 1 /\ attempt'[t] = attempt[t] + 1
      BY <2>5, GotoEffect DEF TypeOK
    <3>2. BeforeStep(t)' = BeforeStep(t) BY <2>5 DEF BeforeStep, Before
    <3>3. QED BY <1>0, <2>1, <3>1, <3>2, StepRoom, AgentAssumption DEF CallsOk
  <2>6. CASE Raise(t) BY <2>1, <2>2, <2>6, RaiseCounted
  <2>7. QED BY <1>7, <2>3, <2>4, <2>5, <2>6 DEF Decide
<1>8. CASE Tool(t)
  <2>1. place[t] = "tool" /\ calls[t] <= BeforeStep(t) + MaxRepair + 1
    BY <1>8 DEF Tool, Back, CallsOk
  <2>2. /\ calls[t] <= BeforeStep(t) + MaxRepair + 2 /\ calls[t] <= Before(t) + RunCalls
    BY <2>1, StepRoom, AgentAssumption
  <2>3. CASE Goto(t, "lookup") /\ UNCHANGED <<reviews, round, step, attempt, part, given>>
    <3>1. place'[t] = "lookup" /\ calls'[t] = calls[t] + 1 BY <2>3, GotoEffect DEF TypeOK
    <3>2. BeforeStep(t)' = BeforeStep(t) BY <2>3 DEF BeforeStep, Before
    <3>3. QED BY <1>0, <2>1, <3>1, <3>2, StepRoom, AgentAssumption DEF CallsOk
  <2>4. QED BY <1>8, <2>1, <2>2, <2>3, NextStepCounted, RaiseCounted DEF Tool
<1>9. CASE Lookup(t) \/ Found(t)
  <2>1. place[t] \in {"lookup", "found"} /\ calls[t] <= BeforeStep(t) + MaxRepair + 2
    BY <1>9 DEF Lookup, Found, Back, CallsOk
  <2>2. calls[t] <= Before(t) + RunCalls BY <2>1, StepRoom, AgentAssumption
  <2>3. CASE Goto(t, "found") /\ UNCHANGED <<reviews, round, step, attempt, part, given>>
    <3>1. place'[t] = "found" /\ calls'[t] = calls[t] BY <2>3, GotoEffect DEF TypeOK
    <3>2. BeforeStep(t)' = BeforeStep(t) BY <2>3 DEF BeforeStep, Before
    <3>3. QED BY <2>1, <3>1, <3>2 DEF CallsOk
  <2>4. QED BY <1>9, <2>1, <2>2, <2>3, NextStepCounted, RaiseCounted DEF Lookup, Found
<1>10. QED BY <1>1, <1>2, <1>3, <1>4, <1>5, <1>6, <1>7, <1>8, <1>9 DEF TaskStep

\* A counted task is within the bound wherever it is.
LEMMA CountedIsBounded ==
  ASSUME TypeOK, NEW t \in Tasks, RoundOk(t), CallsOk(t)
  PROVE calls[t] <= AfterRuns(reviews[t]) + RunCalls
<1> USE DEF Places, Calling, InRun, Ended
<1> DEFINE a == AfterRuns(reviews[t])
<1>1. reviews[t] \in Nat /\ round[t] \in Nat /\ calls[t] \in Nat
  BY AgentAssumption DEF TypeOK
<1>2. a \in Nat /\ a >= 2 /\ RunCalls \in Nat BY <1>1, RunsCalls, StepCalls
<1>3. round[t] <= reviews[t] => Before(t) \in Nat /\ Before(t) <= a
  BY <1>1, RunsCalls DEF Before
<1> HIDE DEF a
<1>4. CASE place[t] \in {"idle", "boot", "search", "plan"}
  <2>1. calls[t] <= 2 BY <1>1, <1>4 DEF CallsOk
  <2>2. QED BY <1>1, <1>2, <2>1 DEF a
<1>5. CASE place[t] \in InRun
  <2>1. calls[t] <= Before(t) + RunCalls
    <3>1. CASE place[t] = "compact"
      <4>1. part[t] \in 0 .. Parts /\ calls[t] <= Before(t) + part[t]
        BY <3>1 DEF CallsOk, TypeOK
      <4>2. QED BY <3>1, <4>1, StepRoom, AgentAssumption
    <3>2. CASE place[t] # "compact"
      <4>1. calls[t] <= BeforeStep(t) + MaxRepair + 2
        BY <1>5, <3>2, StepRoom, AgentAssumption DEF CallsOk
      <4>2. QED BY <1>5, <4>1, StepRoom, AgentAssumption
    <3>3. QED BY <3>1, <3>2
  <2>2. round[t] <= reviews[t] BY <1>5 DEF RoundOk
  <2>3. QED BY <1>1, <1>2, <1>3, <2>1, <2>2 DEF a
<1>6. CASE place[t] = "review"
  <2>1. calls[t] <= Before(t) /\ round[t] <= reviews[t] BY <1>6 DEF CallsOk, RoundOk
  <2>2. QED BY <1>1, <1>2, <1>3, <2>1 DEF a
<1>7. CASE place[t] \in Ended BY <1>7 DEF CallsOk
<1>8. place[t] \in Places BY DEF TypeOK
<1>9. QED BY <1>4, <1>5, <1>6, <1>7, <1>8

LEMMA CountsInvariant == Spec => [](TypeOK /\ RoundInv /\ CallsInv)
<1> DEFINE Inv == TypeOK /\ RoundInv /\ CallsInv
<1>1. Init => Inv
  <2> SUFFICES ASSUME Init PROVE CallsInv BY InitAgentTyped
  <2>1. \A t \in Tasks : place[t] = "idle" /\ calls[t] = 0 BY DEF Init
  <2>2. QED BY <2>1 DEF CallsInv, CallsOk, Ended
<1>2. Inv /\ [Next]_vars => Inv'
  <2> SUFFICES ASSUME Inv, [Next]_vars PROVE CallsInv' BY NextTyped
  <2>1. ASSUME NEW t \in Tasks, Start(t) \/ TaskStep(t) PROVE CallsInv'
    <3>1. CallsOk(t)' BY <2>1, TaskCounted DEF RoundInv, CallsInv
    <3>2. ASSUME NEW s \in Tasks \ {t} PROVE CallsOk(s)'
      BY <2>1, <3>2, OthersRest DEF CallsInv, CallsOk, BeforeStep, Before
    <3>3. QED BY <3>1, <3>2 DEF CallsInv
  <2>2. CASE BackgroundStep
    BY <2>2, TasksRest DEF taskVars, CallsInv, CallsOk, BeforeStep, Before
  <2>3. CASE UNCHANGED vars
    BY <2>3 DEF vars, taskVars, CallsInv, CallsOk, BeforeStep, Before
  <2>4. QED BY <2>1, <2>2, <2>3 DEF Next, BackgroundStep
<1>3. QED BY <1>1, <1>2, PTL DEF Spec

\* A task makes a bounded number of model calls, for every number of steps,
\* repairs, reviews and parts of a summary.
THEOREM BoundedCalls == Spec => []CallsBounded
<1>1. TypeOK /\ RoundInv /\ CallsInv => CallsBounded
  BY CountedIsBounded DEF RoundInv, CallsInv, CallsBounded
<1>2. QED BY <1>1, CountsInvariant, PTL

-----------------------------------------------------------------------------
(* A task comes to its end.                                                *)

\* The model calls of the longest task, and how many segments a task can still have:
\* between two calls lies one segment at most.
MostCalls == AfterRuns(MaxIter) + RunCalls
SegmentsLeft(t) ==
    IF place[t] \in Ended THEN 0
    ELSE 2 * (MostCalls - calls[t]) + (IF place[t] \in Calling THEN 2 ELSE 1)

\* Whatever the model, the tools and the critic say, every segment of a task leaves
\* fewer to come, and what others do leaves as many.
TasksRunOut ==
    /\ [](\A t \in Tasks : /\ SegmentsLeft(t) \in Nat
                           /\ SegmentsLeft(t) = 0 <=> place[t] \in Ended)
    /\ [][\A t \in Tasks : IF Start(t) \/ TaskStep(t)
                           THEN SegmentsLeft(t)' < SegmentsLeft(t)
                           ELSE SegmentsLeft(t)' = SegmentsLeft(t)]_vars

CallsWithin == \A t \in Tasks : calls[t] \in Nat /\ calls[t] <= MostCalls

LEMMA MostCallsIsMost ==
  ASSUME TypeOK, RoundInv, CallsInv
  PROVE  CallsWithin
<1> SUFFICES ASSUME NEW t \in Tasks PROVE calls[t] \in Nat /\ calls[t] <= MostCalls
  BY DEF CallsWithin
<1>1. /\ reviews[t] \in 0 .. MaxIter /\ MaxIter \in Nat /\ calls[t] \in Nat
      /\ RunCalls \in Nat
  BY StepCalls, AgentAssumption DEF TypeOK
<1>2. calls[t] <= AfterRuns(reviews[t]) + RunCalls
  BY CountedIsBounded DEF RoundInv, CallsInv
<1>3. /\ AfterRuns(reviews[t]) \in Nat /\ AfterRuns(MaxIter) \in Nat
      /\ AfterRuns(reviews[t]) <= AfterRuns(MaxIter)
  <2>1. reviews[t] \in Nat BY <1>1
  <2>2. AfterRuns(reviews[t]) <= AfterRuns(MaxIter) BY <1>1, RunsCalls
  <2>3. QED BY <1>1, <2>1, <2>2, RunsCalls
<1>4. QED BY <1>1, <1>2, <1>3 DEF MostCalls

\* A task that is not in a call goes on to one or ends.
LEMMA BackToCalls ==
  ASSUME NEW t \in Tasks, Start(t) \/ TaskStep(t)
  PROVE  /\ place[t] \notin Ended
         /\ \E p \in Places : Goto(t, p) /\ (place[t] \notin Calling => p \in Calling \cup Ended)
<1> USE DEF Places, Calling, InRun, Ended
<1>1. CASE Start(t) BY <1>1 DEF Start, Begin, Run, Back
<1>2. CASE Boot(t) BY <1>2 DEF Boot, Begin, Run, Back
<1>3. CASE Search(t) BY <1>3 DEF Search, Begin, Run, Back
<1>4. CASE Plan(t) BY <1>4 DEF Plan, Run, Back
<1>5. CASE Review(t) BY <1>5 DEF Review, Run, Back
<1>6. CASE Compact(t) BY <1>6 DEF Compact, Back
<1>7. CASE Decide(t) BY <1>7 DEF Decide, Return, Raise, Back
<1>8. CASE Tool(t) BY <1>8 DEF Tool, NextStep, Return, Raise, Back
<1>9. CASE Lookup(t) BY <1>9 DEF Lookup, NextStep, Return, Raise, Back
<1>10. CASE Found(t) BY <1>10 DEF Found, NextStep, Return, Raise, Back
<1>11. QED BY <1>1, <1>2, <1>3, <1>4, <1>5, <1>6, <1>7, <1>8, <1>9, <1>10 DEF TaskStep

LEMMA MostCallsIsNat == MostCalls \in Nat
<1>1. RunCalls \in Nat /\ MaxIter \in Nat BY StepCalls, AgentAssumption
<1>2. AfterRuns(MaxIter) \in Nat BY <1>1, RunsCalls
<1>3. QED BY <1>1, <1>2 DEF MostCalls

LEMMA SegmentsAreLeft ==
  ASSUME CallsWithin, NEW t \in Tasks
  PROVE  SegmentsLeft(t) \in Nat /\ (SegmentsLeft(t) = 0 <=> place[t] \in Ended)
<1>1. MostCalls \in Nat /\ calls[t] \in Nat /\ calls[t] <= MostCalls
  BY MostCallsIsNat DEF CallsWithin
<1>2. CASE place[t] \in Ended BY <1>2 DEF SegmentsLeft
<1>3. CASE place[t] \notin Ended
  <2>1. SegmentsLeft(t) = 2 * (MostCalls - calls[t]) + (IF place[t] \in Calling THEN 2 ELSE 1)
    BY <1>3 DEF SegmentsLeft
  <2>2. QED BY <1>1, <1>3, <2>1
<1>4. QED BY <1>2, <1>3

LEMMA SegmentsGoDown ==
  ASSUME TypeOK, CallsWithin, CallsWithin', NEW t \in Tasks, Start(t) \/ TaskStep(t)
  PROVE  SegmentsLeft(t)' < SegmentsLeft(t)
<1>1. /\ MostCalls \in Nat /\ calls[t] \in Nat /\ calls[t] <= MostCalls
      /\ calls'[t] \in Nat /\ calls'[t] <= MostCalls
  BY MostCallsIsNat DEF CallsWithin, MostCalls, AfterRuns, RunCalls, AfterSteps
<1>2. place[t] \notin Ended BY BackToCalls
<1>3. PICK p \in Places : Goto(t, p) /\ (place[t] \notin Calling => p \in Calling \cup Ended)
  BY BackToCalls
<1>4. /\ place'[t] = p /\ (p \in Calling => calls'[t] = calls[t] + 1)
      /\ (p \notin Calling => calls'[t] = calls[t])
  BY <1>3, GotoEffect DEF TypeOK
<1>5. SegmentsLeft(t) = 2 * (MostCalls - calls[t]) + (IF place[t] \in Calling THEN 2 ELSE 1)
  BY <1>2 DEF SegmentsLeft
<1>6. SegmentsLeft(t)' = IF p \in Ended THEN 0
                         ELSE 2 * (MostCalls - calls'[t]) + (IF p \in Calling THEN 2 ELSE 1)
  BY <1>4 DEF SegmentsLeft, MostCalls, AfterRuns, RunCalls, AfterSteps
<1>7. QED BY <1>1, <1>3, <1>4, <1>5, <1>6

\* A task takes a bounded number of segments, for every number of steps, repairs, reviews
\* and parts of a summary: what awaits return is all its end depends on.
THEOREM TasksEnd == Spec => TasksRunOut
<1>1. CallsWithin => \A t \in Tasks : /\ SegmentsLeft(t) \in Nat
                                      /\ SegmentsLeft(t) = 0 <=> place[t] \in Ended
  BY SegmentsAreLeft
<1>2. ASSUME TypeOK, CallsWithin, CallsWithin', [Next]_vars, NEW t \in Tasks
      PROVE  IF Start(t) \/ TaskStep(t) THEN SegmentsLeft(t)' < SegmentsLeft(t)
             ELSE SegmentsLeft(t)' = SegmentsLeft(t)
  <2>1. CASE Start(t) \/ TaskStep(t) BY <1>2, <2>1, SegmentsGoDown
  <2>2. CASE ~(Start(t) \/ TaskStep(t))
    <3>1. place'[t] = place[t] /\ calls'[t] = calls[t]
      <4>1. ASSUME NEW s \in Tasks, Start(s) \/ TaskStep(s)
            PROVE  place'[t] = place[t] /\ calls'[t] = calls[t]
        BY <1>2, <2>2, <4>1, OthersRest
      <4>2. CASE BackgroundStep BY <1>2, <4>2, TasksRest DEF taskVars
      <4>3. CASE UNCHANGED vars BY <4>3 DEF vars, taskVars
      <4>4. QED BY <1>2, <4>1, <4>2, <4>3 DEF Next, BackgroundStep
    <3>2. QED BY <2>2, <3>1 DEF SegmentsLeft, MostCalls, AfterRuns, RunCalls, AfterSteps
  <2>3. QED BY <2>1, <2>2
<1>3. TypeOK /\ CallsWithin /\ CallsWithin' /\ [Next]_vars =>
        [\A t \in Tasks : IF Start(t) \/ TaskStep(t)
                          THEN SegmentsLeft(t)' < SegmentsLeft(t)
                          ELSE SegmentsLeft(t)' = SegmentsLeft(t)]_vars
  BY <1>2
<1>4. TypeOK /\ RoundInv /\ CallsInv => TypeOK /\ CallsWithin BY MostCallsIsMost
<1>5. QED BY <1>1, <1>3, <1>4, CountsInvariant, PTL DEF Spec, TasksRunOut

=============================================================================
