----------------------------- MODULE Scheduler ------------------------------
(***************************************************************************)
(* Scheduled tasks.  The table scheduled_tasks is shared by the processes  *)
(* of all channels; each process keeps APScheduler jobs in memory, made    *)
(* from the whole table when it starts and changed one await after the     *)
(* table by the commands and tools of its own users.  A job that fires     *)
(* reads its task again, runs the agent, marks the run and delivers the    *)
(* result with the notifier of the process it fired in.                    *)
(* Every write is a statement and a commit, and nobody rolls back: when    *)
(* the commit fails because another process reads the file, the call       *)
(* raises and the change stays in the open transaction of the connection.  *)
(* All later calls of the process see it, and the next commit stores it.   *)
(***************************************************************************)
EXTENDS Integers, FiniteSets

CONSTANTS
    Procs,        \* processes, each of one channel
    SerialProcs,  \* processes that handle one update at a time (MAX)
    Tasks,        \* requests to schedule a task, and the uuid each gets
    Cancels,      \* calls of the tool cancel_scheduled_task
    Users,
    UserOf,       \* UserOf[t]: the user who asks for t
    ProcOf,       \* ProcOf[t]: the process that gets the request
    Via,          \* Via[t]: asked with the "command" /schedule or the "tool"
    ByOf,         \* ByOf[c]: the user for whom c is called
    AtOf,         \* AtOf[c]: the process in which c is called
    TargetOf,     \* TargetOf[c]: the task c names
    MaxJobs,      \* SCHEDULER_MAX_JOBS_PER_USER
    Nobody

ASSUME SchedulerAssumption ==
    /\ SerialProcs \subseteq Procs
    /\ IsFiniteSet(Tasks)
    /\ UserOf \in [Tasks -> Users]
    /\ ProcOf \in [Tasks -> Procs]
    /\ Via \in [Tasks -> {"command", "tool"}]
    /\ ByOf \in [Cancels -> Users]
    /\ AtOf \in [Cancels -> Procs]
    /\ TargetOf \in [Cancels -> Tasks]
    /\ MaxJobs \in Nat
    /\ Nobody \notin Procs

VARIABLES
    mode,      \* mode[p]: where main of process p is
    snapshot,  \* snapshot[p]: the tasks _rehydrate has read
    jobs,      \* jobs[p]: tasks with a job in the scheduler of p
    rows,      \* the table scheduled_tasks as it is stored
    writer,    \* the process whose connection has an open transaction, or Nobody
    draft,     \* the table as that transaction leaves it
    req,       \* req[t]: where the request for t is
    cancel,    \* cancel[c]: where remove_task is
    run,       \* run[<<p, t>>]: where the run of t in p is
    created    \* history: tasks that were ever stored

table == <<rows, writer, draft, created>>
vars == <<mode, snapshot, jobs, table, req, cancel, run>>

-----------------------------------------------------------------------------
InRequest == {"counted", "inserted"}
Runs == Procs \X Tasks

Owned(S, u) == {t \in S : UserOf[t] = u}

\* The table as the connection of p sees it.
View(p) == IF writer = p THEN draft ELSE rows
NothingOpen == writer' = Nobody /\ draft' = {}

\* A write of p that makes S of its table: the commit stores it, with all that an
\* earlier one left open.
Commits(p, S) ==
    /\ writer \in {p, Nobody}
    /\ rows' = S /\ NothingOpen
    /\ created' = created \cup S

\* The commit finds the file in use and raises; the transaction stays open.
StaysOpen(p, S) ==
    /\ writer \in {p, Nobody}
    /\ writer' = p /\ draft' = S
    /\ UNCHANGED <<rows, created>>

\* The store is closed, the file locked by the open transaction of another process,
\* or an error of the disk, after which SQLite rolls back on its own.
Fails(p) ==
    /\ IF writer = p THEN NothingOpen \/ UNCHANGED <<writer, draft>>
       ELSE UNCHANGED <<writer, draft>>
    /\ UNCHANGED <<rows, created>>

\* Handlers run while polling does, and what is left of them while the
\* process closes; on a serial channel one at a time.
Serving(p) == mode[p] \in {"on", "closing"}
CanAsk(p) ==
    /\ Serving(p)
    /\ p \in SerialProcs => \A t \in Tasks : ProcOf[t] = p => req[t] \notin InRequest

Init ==
    /\ mode = [p \in Procs |-> "down"]
    /\ snapshot = [p \in Procs |-> {}]
    /\ jobs = [p \in Procs |-> {}]
    /\ rows = {} /\ created = {}
    /\ writer = Nobody /\ draft = {}
    /\ req = [t \in Tasks |-> "idle"]
    /\ cancel = [c \in Cancels |-> "idle"]
    /\ run = [x \in Runs |-> "none"]

-----------------------------------------------------------------------------
(* Start and stop.                                                         *)

\* SchedulerService.start, before the handlers of the process run.
Start(p) ==
    /\ mode[p] = "down"
    /\ mode' = [mode EXCEPT ![p] = "starting"]
    /\ UNCHANGED <<snapshot, jobs, table, req, cancel, run>>

\* store.list_enabled of _rehydrate: the tasks of all channels.
ListEnabled(p) ==
    /\ mode[p] = "starting"
    /\ mode' = [mode EXCEPT ![p] = "listed"]
    /\ snapshot' = [snapshot EXCEPT ![p] = View(p)]
    /\ UNCHANGED <<jobs, table, req, cancel, run>>

\* The loop that registers them; then polling begins.
Rehydrate(p) ==
    /\ mode[p] = "listed"
    /\ mode' = [mode EXCEPT ![p] = "on"]
    /\ jobs' = [jobs EXCEPT ![p] = snapshot[p]]
    /\ snapshot' = [snapshot EXCEPT ![p] = {}]
    /\ UNCHANGED <<table, req, cancel, run>>

\* Polling has ended and SchedulerService.shutdown runs: the jobs are gone and
\* the runs under way are cancelled.  Handlers may go on for a while.
Close(p) ==
    /\ mode[p] = "on"
    /\ mode' = [mode EXCEPT ![p] = "closing"]
    /\ jobs' = [jobs EXCEPT ![p] = {}]
    /\ run' = [x \in Runs |-> IF x[1] = p THEN "none" ELSE run[x]]
    /\ UNCHANGED <<snapshot, table, req, cancel>>

\* store.close, behind the scheduler's: what is open goes, and a call of a handler that
\* is still under way fails, as it may at any time.
CloseStore(p) ==
    /\ mode[p] = "closing" /\ writer = p
    /\ NothingOpen
    /\ UNCHANGED <<mode, snapshot, jobs, rows, created, req, cancel, run>>

\* The process ends, anywhere, and what it had in memory is gone.
Ends(p) ==
    /\ mode[p] # "down"
    /\ mode' = [mode EXCEPT ![p] = "down"]
    /\ snapshot' = [snapshot EXCEPT ![p] = {}]
    /\ jobs' = [jobs EXCEPT ![p] = {}]
    /\ req' = [t \in Tasks |-> IF ProcOf[t] = p /\ req[t] \in InRequest \cup {"halfway"}
                               THEN "lost" ELSE req[t]]
    /\ cancel' = [c \in Cancels |-> IF AtOf[c] = p /\ cancel[c] = "deleted"
                                    THEN "lost" ELSE cancel[c]]
    /\ run' = [x \in Runs |-> IF x[1] = p THEN "none" ELSE run[x]]

\* Slip: the transaction outlives its process.
StopLeavingOpen(p) == Ends(p) /\ UNCHANGED table

\* The table stays, without what was not committed.
Stop(p) ==
    /\ Ends(p)
    /\ IF writer = p THEN NothingOpen ELSE UNCHANGED <<writer, draft>>
    /\ UNCHANGED <<rows, created>>

ProcStep(p) ==
    Start(p) \/ ListEnabled(p) \/ Rehydrate(p) \/ Close(p) \/ CloseStore(p) \/ Stop(p)

-----------------------------------------------------------------------------
(* Requests and cancellations.                                             *)

\* Slip: the limit is passed by one.
BelowLimitOrAt(t) == Cardinality(Owned(View(ProcOf[t]), UserOf[t])) <= MaxJobs
BelowLimit(t) == Cardinality(Owned(View(ProcOf[t]), UserOf[t])) < MaxJobs

\* store.count_by_user, which may raise.  The tool then reads ctx.channel, which the
\* context built by the executor does not have: the call ends in an AttributeError.
Count(t) ==
    /\ CanAsk(ProcOf[t])
    /\ req[t] = "idle"
    /\ \E answer \in {"failed", IF ~BelowLimit(t) THEN "refused"
                                 ELSE IF Via[t] = "tool" THEN "crashed" ELSE "counted"} :
          req' = [req EXCEPT ![t] = answer]
    /\ UNCHANGED <<mode, snapshot, jobs, table, cancel, run>>

\* store.add.  An error ends the command, and its user is told that it failed.
Insert(t) ==
    /\ req[t] = "counted"
    /\ LET p == ProcOf[t]  after == View(p) \cup {t} IN
       \/ Commits(p, after) /\ req' = [req EXCEPT ![t] = "inserted"]
       \/ StaysOpen(p, after) /\ req' = [req EXCEPT ![t] = "halfway"]
       \/ Fails(p) /\ req' = [req EXCEPT ![t] = "failed"]
    /\ UNCHANGED <<mode, snapshot, jobs, cancel, run>>

\* Slip: add_task only writes the table.
RegisterLater(t) ==
    /\ req[t] = "inserted"
    /\ req' = [req EXCEPT ![t] = "done"]
    /\ UNCHANGED <<mode, snapshot, jobs, table, cancel, run>>

\* _add_job; a scheduler that was shut down takes no job.
Register(t) ==
    /\ req[t] = "inserted"
    /\ req' = [req EXCEPT ![t] = "done"]
    /\ jobs' = IF mode[ProcOf[t]] = "on"
               THEN [jobs EXCEPT ![ProcOf[t]] = @ \cup {t}] ELSE jobs
    /\ UNCHANGED <<mode, snapshot, table, cancel, run>>

RequestStep(t) == Count(t) \/ Insert(t) \/ Register(t)

\* store.delete, with the user in the WHERE clause; it commits whether there was such
\* a row or not, and an error ends the tool before the job is removed.
DeleteRow(c) ==
    /\ Serving(AtOf[c])
    /\ cancel[c] = "idle"
    /\ LET p == AtOf[c]  t == TargetOf[c]
           own == t \in View(p) /\ UserOf[t] = ByOf[c]
           after == IF own THEN View(p) \ {t} ELSE View(p)
       IN \/ /\ Commits(p, after)
             /\ cancel' = [cancel EXCEPT ![c] = IF own THEN "deleted" ELSE "absent"]
          \/ /\ StaysOpen(p, after)
             /\ cancel' = [cancel EXCEPT ![c] = "halfway"]
          \/ Fails(p) /\ cancel' = [cancel EXCEPT ![c] = "failed"]
    /\ UNCHANGED <<mode, snapshot, jobs, req, run>>

\* scheduler.remove_job, whose lookup error is ignored.
RemoveJob(c) ==
    /\ cancel[c] = "deleted"
    /\ cancel' = [cancel EXCEPT ![c] = "done"]
    /\ jobs' = [jobs EXCEPT ![AtOf[c]] = @ \ {TargetOf[c]}]
    /\ UNCHANGED <<mode, snapshot, table, req, run>>

CancelStep(c) == DeleteRow(c) \/ RemoveJob(c)

-----------------------------------------------------------------------------
(* Runs.                                                                   *)

\* The trigger fires; a job that still runs is not started again.
Fire(p, t) ==
    /\ mode[p] = "on" /\ t \in jobs[p]
    /\ run[<<p, t>>] = "none"
    /\ run' = [run EXCEPT ![<<p, t>>] = "fired"]
    /\ UNCHANGED <<mode, snapshot, jobs, table, req, cancel>>

\* Slip: the job trusts the registration.
TrustJob(p, t) ==
    /\ run[<<p, t>>] = "fired"
    /\ run' = [run EXCEPT ![<<p, t>>] = "working"]
    /\ UNCHANGED <<mode, snapshot, jobs, table, req, cancel>>

\* _job_entrypoint: the task is read again, and may be gone or unreadable.
ReadTask(p, t) ==
    /\ run[<<p, t>>] = "fired"
    /\ \/ t \in View(p) /\ run' = [run EXCEPT ![<<p, t>>] = "working"]
       \/ run' = [run EXCEPT ![<<p, t>>] = "none"]
    /\ UNCHANGED <<mode, snapshot, jobs, table, req, cancel>>

\* handle_user_task answered or raised.
Work(p, t) ==
    /\ run[<<p, t>>] = "working"
    /\ \E s \in {"ok", "error"} : run' = [run EXCEPT ![<<p, t>>] = s]
    /\ UNCHANGED <<mode, snapshot, jobs, table, req, cancel>>

\* store.mark_run, an UPDATE of what is shown of the last run; it commits, whether the
\* task has a row or not, and if it raises the result is not delivered.
MarkRun(p, t) ==
    /\ run[<<p, t>>] \in {"ok", "error"}
    /\ \/ Commits(p, View(p)) /\ run' = [run EXCEPT ![<<p, t>>] = "telling"]
       \/ (StaysOpen(p, View(p)) \/ Fails(p)) /\ run' = [run EXCEPT ![<<p, t>>] = "none"]
    /\ UNCHANGED <<mode, snapshot, jobs, req, cancel>>

\* Slip: the result waits for the process of its channel.
DeliverInChannel(p, t) ==
    /\ run[<<p, t>>] = "telling"
    /\ mode[ProcOf[t]] = "on"
    /\ run' = [run EXCEPT ![<<p, t>>] = "none"]
    /\ UNCHANGED <<mode, snapshot, jobs, table, req, cancel>>

\* The notifier of p, whatever the channel of t; the run is over also when it raises.
Deliver(p, t) ==
    /\ run[<<p, t>>] = "telling"
    /\ run' = [run EXCEPT ![<<p, t>>] = "none"]
    /\ UNCHANGED <<mode, snapshot, jobs, table, req, cancel>>

RunStep(p, t) == ReadTask(p, t) \/ Work(p, t) \/ MarkRun(p, t) \/ Deliver(p, t)

Next ==
    \/ \E p \in Procs : ProcStep(p)
    \/ \E t \in Tasks : RequestStep(t)
    \/ \E c \in Cancels : CancelStep(c)
    \/ \E p \in Procs, t \in Tasks : Fire(p, t) \/ RunStep(p, t)

Spec == Init /\ [][Next]_vars

\* Awaits return or raise, so a run that fired and a request under way go on.
\* Nothing is assumed of triggers, users, starts and stops.
FairSpec ==
    /\ Spec
    /\ \A p \in Procs, t \in Tasks : WF_vars(RunStep(p, t))
    /\ \A t \in Tasks : WF_vars(Insert(t) \/ Register(t))
    /\ \A c \in Cancels : WF_vars(RemoveJob(c))

-----------------------------------------------------------------------------
(* What must hold.                                                         *)

\* Every variable stays in its type, and an open transaction is that of a process which
\* serves.
TypeOK ==
    /\ mode \in [Procs -> {"down", "starting", "listed", "on", "closing"}]
    /\ snapshot \in [Procs -> SUBSET Tasks]
    /\ jobs \in [Procs -> SUBSET Tasks]
    /\ rows \subseteq created /\ created \subseteq Tasks
    /\ \/ writer = Nobody /\ draft = {}
       \/ writer \in Procs /\ Serving(writer) /\ draft \subseteq Tasks
    /\ req \in [Tasks -> InRequest \cup {"idle", "refused", "crashed", "failed", "halfway",
                                       "done", "lost"}]
    /\ cancel \in [Cancels -> {"idle", "absent", "deleted", "halfway", "failed", "done", "lost"}]
    /\ run \in [Runs -> {"none", "fired", "working", "ok", "error", "telling"}]

\* While a process is on, every task it was asked for, stored or in an open transaction,
\* has a job there, except between its row and its job, and where the commit of the
\* request failed: its user was told of an error, the row is listed and the next commit
\* of the process stores it, and it runs from the next start of a process.  Adding,
\* cancelling, failing, stopping anywhere and starting again leave no other.
TableIsScheduled ==
    \A t \in rows \cup draft : mode[ProcOf[t]] = "on" =>
        t \in jobs[ProcOf[t]] \/ req[t] \in {"inserted", "halfway"}

\* On a channel that handles one update at a time nobody gets past the limit, stored
\* or not; a task of which a cancellation failed at the commit does not count, since
\* its row was gone when the next request was counted and may have come back.
SerialUser(u) == \E p \in SerialProcs : \A t \in Tasks : UserOf[t] = u => ProcOf[t] = p
HalfCancelled == {TargetOf[c] : c \in {d \in Cancels : cancel[d] = "halfway"}}
Kept == (rows \cup draft) \ HalfCancelled
LimitKept == \A u \in Users : SerialUser(u) => Cardinality(Owned(Kept, u)) <= MaxJobs

\* The scheduler implements the book of tasks.
BusyRuns == {x \in Runs : run[x] \in {"working", "ok", "error", "telling"}}
BookOf == [t \in Tasks |-> IF t \in rows THEN "active"
                           ELSE IF t \in created THEN "gone" ELSE "none"]
Book == INSTANCE TaskBook WITH book <- BookOf, busy <- BusyRuns
BookKept == Book!BookSafe
BookEnds == Book!BookFair

\* After a cancellation the task falls silent for good, in every process: what
\* was under way ends, and a job that was left behind reads no row.
CancelledFallsSilent ==
    \A c \in Cancels : (cancel[c] = "deleted") ~>
        [](\A p \in Procs : run[<<p, TargetOf[c]>>] \in {"none", "fired"})

-----------------------------------------------------------------------------
(* The inductive invariant behind TableIsScheduled, LimitKept and the book. *)

\* A request writes its row once, and only while its process serves.
RequestInv ==
    \A t \in Tasks :
        /\ req[t] \in {"idle", "counted", "refused", "crashed", "failed"}
             => t \notin created \cup draft
        /\ req[t] = "inserted" => t \in created
        /\ req[t] \in InRequest => Serving(ProcOf[t])

\* An open transaction brings back no row, adds only rows of its own process, and
\* strikes out only what a cancellation named.
DraftInv ==
    /\ draft \cap created \subseteq rows
    /\ \A t \in draft \ rows : ProcOf[t] = writer /\ req[t] = "halfway"
    /\ writer # Nobody => rows \ HalfCancelled \subseteq draft

\* Jobs and runs are of tasks that were stored, and a process runs them while it is on.
StoredInv ==
    /\ \A p \in Procs : snapshot[p] \subseteq created /\ jobs[p] \subseteq created
    /\ \A p \in Procs, t \in Tasks : run[<<p, t>>] # "none" => t \in created /\ mode[p] = "on"

\* What was deleted does not come back.
CancelInv == \A c \in Cancels : cancel[c] \in {"deleted", "done"} =>
                /\ TargetOf[c] \notin rows \cup draft
                /\ req[TargetOf[c]] \notin {"idle", "counted"}

\* No request adds to the table between its reading and the registration.
SnapshotInv == \A t \in rows : mode[ProcOf[t]] = "listed" => t \in snapshot[ProcOf[t]]

\* One request at a time of a serial channel, counted when it was under way.
SerialInv ==
    /\ \A s, t \in Tasks :
          /\ ProcOf[s] = ProcOf[t] /\ ProcOf[t] \in SerialProcs
          /\ req[s] \in InRequest /\ req[t] \in InRequest
          => s = t
    /\ \A t \in Tasks : req[t] = "counted" /\ SerialUser(UserOf[t])
                           => Cardinality(Owned(Kept, UserOf[t])) < MaxJobs

SchedulerInv == /\ TypeOK /\ RequestInv /\ DraftInv /\ StoredInv /\ CancelInv
                /\ SnapshotInv /\ SerialInv /\ TableIsScheduled /\ LimitKept

-----------------------------------------------------------------------------
\* What the documents promise and the code does not keep (see the findings).

\* Every task that is listed has a job in its process once its request is over.
ListedTasksRun ==
    \A t \in rows \cup draft : mode[ProcOf[t]] = "on" =>
        t \in jobs[ProcOf[t]] \/ req[t] = "inserted"

\* A result is delivered by the notifier of the process its task was asked in.
ToldInChannel == [][\A p \in Procs, t \in Tasks : Deliver(p, t) => p = ProcOf[t]]_vars

\* No user has more tasks than the limit, on any channel and after any error.
LimitOfEveryone == \A u \in Users : Cardinality(Owned(rows, u)) <= MaxJobs

\* The tool of the agent creates the task it was asked for.
ToolWorks == \A t \in Tasks : req[t] # "crashed"

=============================================================================
