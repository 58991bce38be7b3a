----------------------------- MODULE AgentTask ------------------------------
(***************************************************************************)
(* Tasks of users in one process: the orchestrator with planner, executor  *)
(* and critic, tools that call the model too, and beside them the jobs     *)
(* that archive sessions; all their model calls go through one gate.       *)
(***************************************************************************)
EXTENDS Naturals, Sequences, FiniteSets, ModelGate

CONSTANTS
    Tasks,       \* calls of handle_user_task
    MaxSteps,    \* AGENT_MAX_STEPS
    MaxRepair,   \* AGENT_MAX_REPAIR_ATTEMPTS
    MaxIter,     \* AGENT_REFLECTION_MAX_ITERATIONS
    Parts,       \* model calls of one summary: the batches and their reduction
    Jobs,        \* sessions that are archived, each time with new content
    JobSlots,    \* JOURNAL_RECOVERY_CONCURRENCY
    Chunks,      \* 1 .. the number of chunks of a summary
    EmbedSlots   \* EMBEDDING_CONCURRENCY

\* The code accepts any number of steps; with none it answers without a call.
ASSUME AgentAssumption ==
    /\ MaxSteps \in Nat \ {0} /\ MaxRepair \in Nat /\ MaxIter \in Nat \ {0}
    /\ Parts \in Nat \ {0} /\ JobSlots \in Nat \ {0} /\ Chunks \in Nat
    /\ EmbedSlots \in Nat \ {0}

Embeds == Jobs \X (1 .. Chunks)

\* Tasks, jobs and embeddings call the model, under names that differ.
ASSUME CallersAssumption ==
    /\ Callers = Tasks \cup Jobs \cup Embeds
    /\ Tasks \cap Jobs = {} /\ (Tasks \cup Jobs) \cap Embeds = {}

VARIABLES
    place,    \* place[t]: what t is waiting for
    reviews,  \* reviews[t]: how often the critic may be asked, 0 without a plan
    round,    \* round[t]: runs of the executor that have returned
    step,     \* step[t]: the step of the current run
    attempt,  \* attempt[t]: repairs of the current step
    part,     \* part[c]: calls of the current summary that were made
    given,    \* given[t]: the run whose answer was returned
    calls,    \* history: calls[t], model calls of t
    job,      \* job[j]: where the archiver is
    embed     \* embed[<<j, k>>]: the embedding of chunk k

gate == <<inside, queue>>
taskVars == <<place, reviews, round, step, attempt, given, calls>>
vars == <<taskVars, part, job, embed, gate>>

\* Where a task has a model call.
Calling == {"boot", "plan", "compact", "decide", "lookup", "review"}
InRun == {"compact", "decide", "tool", "lookup", "found"}
Ended == {"answered", "failed"}
Places == Calling \cup InRun \cup Ended \cup {"idle", "search"}

Init ==
    /\ place = [t \in Tasks |-> "idle"]
    /\ reviews = [t \in Tasks |-> 0] /\ round = [t \in Tasks |-> 0] /\ step = [t \in Tasks |-> 0]
    /\ attempt = [t \in Tasks |-> 0] /\ given = [t \in Tasks |-> 0]
    /\ calls = [t \in Tasks |-> 0]
    /\ part = [c \in Tasks \cup Jobs |-> 0]
    /\ job = [j \in Jobs |-> "idle"]
    /\ embed = [x \in Embeds |-> "none"]
    /\ GateInit

-----------------------------------------------------------------------------
(* One segment of a task between two awaits: from the end of one call to   *)
(* the start of the next.                                                  *)

\* Slip: a slot is kept while the tool works.
GotoHolding(t, p) ==
    /\ place' = [place EXCEPT ![t] = p]
    /\ calls' = IF p \in Calling THEN [calls EXCEPT ![t] = @ + 1] ELSE calls
    /\ IF place[t] \in Calling
       THEN IF p \in Ended THEN Leave(t) ELSE UNCHANGED gate
       ELSE IF p \in Calling /\ t \notin inside THEN Ask(t) ELSE UNCHANGED gate
    /\ UNCHANGED <<job, embed>>
Goto(t, p) ==
    /\ place' = [place EXCEPT ![t] = p]
    /\ calls' = IF p \in Calling THEN [calls EXCEPT ![t] = @ + 1] ELSE calls
    /\ IF place[t] \in Calling
       THEN IF p \in Calling THEN Again(t) ELSE Leave(t)
       ELSE IF p \in Calling THEN Ask(t) ELSE UNCHANGED gate
    /\ UNCHANGED <<job, embed>>

\* The wait of t in p has ended.
Back(t, p) == place[t] = p /\ (p \in Calling => t \in inside)

\* Executor.run begins, with a context that may be too large.
Run(t) ==
    /\ \E p \in {"compact", "decide"} : Goto(t, p)
    /\ step' = [step EXCEPT ![t] = 1]
    /\ attempt' = [attempt EXCEPT ![t] = 0]
    /\ part' = [part EXCEPT ![t] = 1]

\* Executor.run has returned a text.
Return(t) ==
    LET r == round[t] + 1
        more == r <= reviews[t]
    IN /\ round' = [round EXCEPT ![t] = r]
       /\ Goto(t, IF more THEN "review" ELSE "answered")
       /\ given' = IF more THEN given ELSE [given EXCEPT ![t] = r]
       /\ UNCHANGED <<reviews, step, attempt, part>>

\* Slip: an error of a revision is raised like any other.
RaiseAlways(t) ==
    /\ Goto(t, "failed")
    /\ UNCHANGED <<reviews, round, step, attempt, part, given>>

\* Executor.run has raised: without a draft the exception leaves
\* handle_user_task, with one the draft is the answer.
Raise(t) ==
    /\ Goto(t, IF round[t] = 0 THEN "failed" ELSE "answered")
    /\ given' = [given EXCEPT ![t] = round[t]]
    /\ UNCHANGED <<reviews, round, step, attempt, part>>

-----------------------------------------------------------------------------
(* The orchestrator.                                                       *)

\* The mode of _resolve_mode: OFF runs the executor on the plain text, NORMAL and
\* DEEP ask the planner and then the critic once or MaxIter times.
Begin(t) ==
    \/ Run(t) /\ UNCHANGED <<reviews, round, given>>
    \/ /\ \E n \in {1, MaxIter} : reviews' = [reviews EXCEPT ![t] = n]
       /\ Goto(t, "plan")
       /\ UNCHANGED <<round, step, attempt, part, given>>

\* handle_user_task is called; a first message of a session looks at the archive.
Start(t) ==
    /\ Back(t, "idle")
    /\ \/ Begin(t)
       \/ Goto(t, "boot") /\ UNCHANGED <<reviews, round, step, attempt, part, given>>

\* The embedding of build_bootstrap_message and then the search.
Boot(t) ==
    /\ Back(t, "boot")
    /\ \/ Begin(t)
       \/ Goto(t, "search") /\ UNCHANGED <<reviews, round, step, attempt, part, given>>

Search(t) == Back(t, "search") /\ Begin(t)

\* A plan or its fallback; an exception sends the plain text to the executor.
Plan(t) ==
    /\ Back(t, "plan")
    /\ \E n \in {0, reviews[t]} : reviews' = [reviews EXCEPT ![t] = n]
    /\ Run(t)
    /\ UNCHANGED <<round, given>>

\* PASS, its fallback and an exception end the task, REVISE runs the executor.
Review(t) ==
    /\ Back(t, "review")
    /\ \/ /\ Goto(t, "answered")
          /\ given' = [given EXCEPT ![t] = round[t]]
          /\ UNCHANGED <<step, attempt, part>>
       \/ Run(t) /\ UNCHANGED given
    /\ UNCHANGED <<reviews, round>>

-----------------------------------------------------------------------------
(* The executor.                                                           *)

\* A call of the summary of a context that is too large; its failure is ignored.
Compact(t) ==
    /\ Back(t, "compact")
    /\ \/ /\ part[t] < Parts
          /\ part' = [part EXCEPT ![t] = @ + 1]
          /\ Goto(t, "compact")
       \/ Goto(t, "decide") /\ UNCHANGED part
    /\ UNCHANGED <<reviews, round, step, attempt, given>>

\* Slip: one repair more than allowed.
RepairAndOneMore(t) == attempt[t] <= MaxRepair
\* attempt >= max_repair has not been reached.
MayRepair(t) == attempt[t] < MaxRepair

\* A final answer, an action, an answer to repair, or an error.
Decide(t) ==
    /\ Back(t, "decide")
    /\ \/ Return(t)
       \/ Goto(t, "tool") /\ UNCHANGED <<reviews, round, step, attempt, part, given>>
       \/ /\ MayRepair(t)
          /\ attempt' = [attempt EXCEPT ![t] = @ + 1]
          /\ Goto(t, "decide")
          /\ UNCHANGED <<reviews, round, step, part, given>>
       \/ Raise(t)

\* Slip: the step after the last one is taken too.
StepAndOneMore(t) ==
    IF step[t] > MaxSteps THEN Return(t)
    ELSE /\ step' = [step EXCEPT ![t] = @ + 1]
         /\ attempt' = [attempt EXCEPT ![t] = 0]
         /\ Goto(t, "decide")
         /\ UNCHANGED <<reviews, round, part, given>>

\* The observation is in the messages: the next step, or the reply that the
\* steps did not suffice.
NextStep(t) ==
    IF step[t] = MaxSteps THEN Return(t)
    ELSE /\ step' = [step EXCEPT ![t] = @ + 1]
         /\ attempt' = [attempt EXCEPT ![t] = 0]
         /\ Goto(t, "decide")
         /\ UNCHANGED <<reviews, round, part, given>>

\* tools.execute: a result or an error that becomes an observation, an
\* exception that does not, or a tool that needs the model once.
Tool(t) ==
    /\ Back(t, "tool")
    /\ \/ NextStep(t) \/ Raise(t)
       \/ Goto(t, "lookup") /\ UNCHANGED <<reviews, round, step, attempt, part, given>>

\* The embedding of memory_search or the answer of the vision model.
Lookup(t) ==
    /\ Back(t, "lookup")
    /\ \/ NextStep(t) \/ Raise(t)
       \/ Goto(t, "found") /\ UNCHANGED <<reviews, round, step, attempt, part, given>>

Found(t) == Back(t, "found") /\ (NextStep(t) \/ Raise(t))

TaskStep(t) ==
    \/ Boot(t) \/ Search(t) \/ Plan(t) \/ Review(t)
    \/ Compact(t) \/ Decide(t) \/ Tool(t) \/ Lookup(t) \/ Found(t)

-----------------------------------------------------------------------------
(* Archiver.archive for the recovery task.                                 *)

ArchiveBegin(j) ==
    /\ job[j] = "idle"
    /\ Cardinality({i \in Jobs : job[i] # "idle"}) < JobSlots
    /\ job' = [job EXCEPT ![j] = "summary"]
    /\ part' = [part EXCEPT ![j] = 1]
    /\ Ask(j)
    /\ UNCHANGED <<taskVars, embed>>

\* The calls of the summary, one after the other; an error ends the job.
Summarize(j) ==
    /\ job[j] = "summary" /\ j \in inside
    /\ \/ /\ part[j] < Parts
          /\ part' = [part EXCEPT ![j] = @ + 1]
          /\ Again(j)
          /\ UNCHANGED job
       \/ /\ \/ part[j] = Parts /\ job' = [job EXCEPT ![j] = "embedding"]
             \/ job' = [job EXCEPT ![j] = "idle"]
          /\ Leave(j)
          /\ UNCHANGED part
    /\ UNCHANGED <<taskVars, embed>>

\* _embed_one in the order of gather, EmbedSlots at a time.
EmbedBegin(x) ==
    /\ job[x[1]] = "embedding" /\ embed[x] = "none"
    /\ \A k \in 1 .. Chunks : k < x[2] => embed[<<x[1], k>>] # "none"
    /\ Cardinality({k \in 1 .. Chunks : embed[<<x[1], k>>] = "calling"}) < EmbedSlots
    /\ embed' = [embed EXCEPT ![x] = "calling"]
    /\ Ask(x)
    /\ UNCHANGED <<taskVars, part, job>>

EmbedEnd(x) ==
    /\ embed[x] = "calling" /\ x \in inside
    /\ embed' = [embed EXCEPT ![x] = "ended"]
    /\ Leave(x)
    /\ UNCHANGED <<taskVars, part, job>>

\* All have come back; the batch is inserted and the session marked, or an
\* error is raised.
ArchiveEnd(j) ==
    /\ job[j] = "embedding"
    /\ \A k \in 1 .. Chunks : embed[<<j, k>>] = "ended"
    /\ job' = [job EXCEPT ![j] = "idle"]
    /\ embed' = [x \in Embeds |-> IF x[1] = j THEN "none" ELSE embed[x]]
    /\ UNCHANGED <<taskVars, part, gate>>

JobStep(j) == Summarize(j) \/ ArchiveEnd(j)
EmbedStep(x) == EmbedBegin(x) \/ EmbedEnd(x)

Next ==
    \/ \E t \in Tasks : Start(t) \/ TaskStep(t)
    \/ \E j \in Jobs : ArchiveBegin(j) \/ JobStep(j)
    \/ \E x \in Embeds : EmbedStep(x)

Spec == Init /\ [][Next]_vars

\* Model calls, tools and statements return or raise.  New sessions to archive
\* may come for ever, or never.
FairSpec ==
    /\ Spec
    /\ \A t \in Tasks : WF_vars(TaskStep(t))
    /\ \A j \in Jobs : WF_vars(JobStep(j))
    /\ \A x \in Embeds : WF_vars(EmbedStep(x))

-----------------------------------------------------------------------------
(* What must hold.                                                         *)

\* Every variable stays in its type.
TypeOK ==
    /\ place \in [Tasks -> Places]
    /\ reviews \in [Tasks -> 0 .. MaxIter]
    /\ round \in [Tasks -> 0 .. MaxIter + 1] /\ given \in [Tasks -> 0 .. MaxIter + 1]
    /\ step \in [Tasks -> 0 .. MaxSteps] /\ attempt \in [Tasks -> 0 .. MaxRepair]
    /\ calls \in [Tasks -> Nat]
    /\ part \in [Tasks \cup Jobs -> 0 .. Parts]
    /\ job \in [Jobs -> {"idle", "summary", "embedding"}]
    /\ embed \in [Embeds -> {"none", "calling", "ended"}]

\* The gate is held by those who have a call and by nobody else: no path out
\* of a call, by a result, an error or the next call, loses or keeps a slot.
HasCall(c) == \/ c \in Tasks /\ place[c] \in Calling
              \/ c \in Jobs /\ job[c] = "summary"
              \/ c \in Embeds /\ embed[c] = "calling"
GateKept ==
    /\ GateSound
    /\ \A c \in Callers : HasCall(c) <=> Known(c)

\* A task makes a bounded number of model calls: one to look at the archive, one
\* for the plan, one per review, and in each run of the executor the parts of one
\* summary and, in each step, the attempts and one call of its tool.
AfterSteps(n) == Parts + n * (MaxRepair + 2)
RunCalls == AfterSteps(MaxSteps)
AfterRuns(n) == 2 + n * (RunCalls + 1)
CallsBounded == \A t \in Tasks : calls[t] <= AfterRuns(reviews[t]) + RunCalls

\* The orchestrator keeps its promise.
OutcomeOf == [t \in Tasks |-> CASE place[t] = "idle" -> "idle"
                                [] place[t] = "answered" -> "answer"
                                [] place[t] = "failed" -> "error"
                                [] OTHER -> "open"]
Promise == INSTANCE AgentPromise WITH outcome <- OutcomeOf, drafts <- round
PromiseKept == Promise!PromiseSafe

\* Every task that was started comes back, though background calls never end.
PromiseMet == Promise!PromiseFair

(* The inductive invariants behind them.                                    *)

\* How many runs have returned, and what was answered.
RoundOk(t) ==
    /\ place[t] \in {"idle", "boot", "search", "plan", "failed"} => round[t] = 0
    /\ place[t] \in InRun => round[t] <= reviews[t] /\ step[t] >= 1
    /\ place[t] = "review" => round[t] >= 1 /\ round[t] <= reviews[t]
    /\ place[t] = "answered" => round[t] >= 1 /\ round[t] <= reviews[t] + 1
    /\ given[t] = IF place[t] = "answered" THEN round[t] ELSE 0

\* What was called before the current run or review, before the current step,
\* and so far.
Before(t) == AfterRuns(round[t])
BeforeStep(t) == Before(t) + AfterSteps(step[t] - 1)
CallsOk(t) ==
    /\ place[t] = "idle" => calls[t] = 0
    /\ place[t] \in {"boot", "search"} => calls[t] <= 1
    /\ place[t] = "plan" => calls[t] <= 2
    /\ place[t] = "compact" => calls[t] <= Before(t) + part[t]
    /\ place[t] = "decide" => calls[t] <= BeforeStep(t) + attempt[t] + 1
    /\ place[t] = "tool" => calls[t] <= BeforeStep(t) + MaxRepair + 1
    /\ place[t] \in {"lookup", "found"} => calls[t] <= BeforeStep(t) + MaxRepair + 2
    /\ place[t] = "review" => calls[t] <= Before(t)
    /\ place[t] \in Ended => calls[t] <= AfterRuns(reviews[t]) + RunCalls

RoundInv == \A t \in Tasks : RoundOk(t)
CallsInv == \A t \in Tasks : CallsOk(t)

AgentInv == TypeOK /\ RoundInv /\ CallsInv /\ GateKept

-----------------------------------------------------------------------------
\* What the documents promise and the code does not keep (see the findings).

\* The recovery, one session at a time, leaves a slot of the gate to live requests.
LiveHasSlot == Cardinality(inside \ Tasks) < Slots

=============================================================================
