---------------------------- MODULE AgentPromise ----------------------------
(***************************************************************************)
(* What handle_user_task promises its caller: it comes back once, with an  *)
(* answer or with an error; the answer is the latest draft; and once there *)
(* is a draft there is no error any more, whatever planner, critic, tools  *)
(* and later runs of the executor do.                                      *)
(***************************************************************************)
EXTENDS Naturals

CONSTANT Tasks

VARIABLES
    outcome,   \* outcome[t]: "idle", "open", "answer" or "error"
    drafts,    \* drafts[t]: how many drafts were written
    given      \* given[t]: the draft that was answered, 0 if none

promiseVars == <<outcome, drafts, given>>

PromiseInit ==
    /\ outcome = [t \in Tasks |-> "idle"]
    /\ drafts = [t \in Tasks |-> 0]
    /\ given = [t \in Tasks |-> 0]

Open(t) ==
    /\ outcome[t] = "idle"
    /\ outcome' = [outcome EXCEPT ![t] = "open"]
    /\ UNCHANGED <<drafts, given>>

Draft(t) ==
    /\ outcome[t] = "open"
    /\ drafts' = [drafts EXCEPT ![t] = @ + 1]
    /\ UNCHANGED <<outcome, given>>

\* The answer may be a draft that is written in this step.
Answer(t) ==
    /\ outcome[t] = "open"
    /\ \E d \in {drafts[t], drafts[t] + 1} \ {0} :
          /\ drafts' = [drafts EXCEPT ![t] = d]
          /\ given' = [given EXCEPT ![t] = d]
    /\ outcome' = [outcome EXCEPT ![t] = "answer"]

Fail(t) ==
    /\ outcome[t] = "open" /\ drafts[t] = 0
    /\ outcome' = [outcome EXCEPT ![t] = "error"]
    /\ UNCHANGED <<drafts, given>>

PromiseNext == \E t \in Tasks : Open(t) \/ Draft(t) \/ Answer(t) \/ Fail(t)

PromiseSafe == PromiseInit /\ [][PromiseNext]_promiseVars
PromiseFair == PromiseSafe /\ \A t \in Tasks : WF_promiseVars(Answer(t) \/ Fail(t))

=============================================================================
